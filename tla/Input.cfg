SPECIFICATION FairSpec
CONSTANTS
    BufSize = 3
    Keys <- Glyphs
    NoKey = NoKey
    UserKeys = {"lshift", "rshift", "ralt", "caps", "u", "accent", "arrow"}
    MaxEvents = 3
    WireSize = 2
    MaxLine = 1
INVARIANTS
    TypeOK
    ModifiersFollowHands
    SequencesStayWhole
PROPERTIES
    KeysInOrder
    InputIsRead
