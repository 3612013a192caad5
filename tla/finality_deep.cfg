SPECIFICATION Spec
CONSTANTS
    Anchors <- AllAnchors
    NoCursor = NoCursor
    MaxHeight = 4
    MinConfirmations = 3
    RefundNotBefore = 3
    HistoryLimit = 3
    MaxReorgDepth = 2
    MaxReorgs = 1
    MaxCrashes = 0
    MaxFailures = 0
    MaxPolicyIngests = 4
    MaxMoves = 0
INVARIANTS TerminalStaysOnChain
CHECK_DEADLOCK FALSE
