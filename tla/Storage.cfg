SPECIFICATION Spec
CONSTANTS
    Words <- MCWords
    Typed <- MCTyped
    MaxCommands = 5
    Parsed <- MCParsed
    Stored <- MCStored
    Length <- MCLength
    Beginning <- MCBeginning
    Texts = {"short", "long"}
    Size <- MCSize
    Blocks = 10
    PartsMax = 2
    BufSize = 10
    Seeds <- MCSeeds
    Home <- MCHome
    DbDir <- MCDbDir
    Repo <- MCRepo
    Contents = "long"
INVARIANTS
    TypeOK
    TreeIsSound
    NamesTellApart
    PathRoundTrip
PROPERTIES
    RemoveUndoesInstall
CHECK_DEADLOCK FALSE
