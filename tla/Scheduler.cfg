SPECIFICATION FairSpec
CONSTANTS
    MaxTasks = 4
    Quantum = 2
    MaxDelay = 2
    MaxPid = 7
    Blocking = {1, 2, 3}
    Exiting = {1, 2, 3}
INVARIANTS
    TypeOK
    OneRunning
    EoiOwed
    RingWhole
    OffStaysOff
PROPERTIES
    NobodyStarves
CHECK_DEADLOCK FALSE
