SPECIFICATION Spec
CONSTANTS
    W = 8
    Cols = 5
    Rows = 3
    TabStop = 4
    LINE_MAX = 4
    HIST_MAX = 2
    ARG_MAX = 2
    Glyphs <- MCGlyphs
    Prompt <- MCPrompt
    Chars = {"a", "b", " "}
    Outputs <- MCOutputs
    MaxKeys = 8
INVARIANTS
    TypeOK
    ConsoleIsRoll
    LineIsOnScreen
    HistoryIsRecent
CHECK_DEADLOCK FALSE
