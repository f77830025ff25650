SPECIFICATION Spec
CONSTANTS
    MaxTasks = 3
    Quantum = 2
    MaxDelay = 1
    MaxPid = 5
    Blocking = {1, 2}
    Exiting = {1, 2}
INVARIANTS
    RingCircular
CHECK_DEADLOCK FALSE
