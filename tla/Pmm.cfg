SPECIFICATION PmmSpec
CONSTANTS
    PageSize = 4
    MaxFrames = 9
    MinFrames = 7
    LowFrames = 2
    KernelEnd = 10
    Maps <- MCMaps
    MemUppers = {8, 26, 40}
INVARIANTS
    PmmTypeOK
    CountIsExact
    FramesAccounted
    GivenOutUsable
