SPECIFICATION FairSpec
CONSTANTS
    MaxTasks = 3
    Quantum = 2
    MaxDelay = 1
    MaxPid = 3
    Blocking = {1}
    Exiting = {}
PROPERTIES
    PreemptedByTimer
CHECK_DEADLOCK FALSE
