SPECIFICATION Spec
CONSTANTS
    HeapSize = 20
    Hdr = 2
    Align = 2
    Requests = {1, 4, 7}
INVARIANTS
    TypeOK
    Tiling
    NoAdjacentFree
    UsedIsExact
PROPERTIES
    KeepsPromise
