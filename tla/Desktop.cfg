SPECIFICATION Spec
CONSTANTS
    Width = 320
    Height = 240
    Ccb0 = 97
    Scan <- MCScan
    Plans <- MCPlans
    PortSize = 3
    KeySize = 1
    Placed <- MCPlaced
    Bars = {"bottom"}
    BarHeight = 34
    Arrow <- MCArrow
    EditMax = 4
    TermMax = 4
    OutMax = 8
    CapMax = 3
    Margin = 4
    Banner = 3
    Refusal = 3
    Hello = 2
    Noted <- MCNoted
    MaxRuns = 2
INVARIANTS
    TypeOK
    PointerFollowsHand
    DragKeepsGrip
    CaptureEnds
CHECK_DEADLOCK FALSE
