SPECIFICATION Spec
CONSTANTS
    CFG_MAX = 4
    Keys <- MCKeys
    Words <- MCWords
    CutKey <- MCCutKey
    Comments = {"#k"}
    Halves <- MCHalves
    Paint = {"orange", "blue", "green", "white", "violet", "slate", "ink"}
    Named = {"orange", "blue", "green", "white"}
    Sheet <- MCSheet
    EV_MAX = 3
    Messages = {"info", "ok", "warn"}
    Blank = "blank"
    Typed <- MCTyped
    MaxCommands = 4
    DefaultConfig <- MCDefaultConfig
    Palette = {"orange", "blue", "green", "white"}
    Loaders <- MCLoaders
INVARIANTS
    TypeOK
    FileRestoresTable
    ReloadSettles
    MasksFollowModules
    AccentIsOwned
    DumpShowsLast
PROPERTIES
    PlainSheetApplies
CHECK_DEADLOCK FALSE
