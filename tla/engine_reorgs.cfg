SPECIFICATION Spec
CONSTANTS
    Anchors <- AllAnchors
    NoCursor = NoCursor
    MaxHeight = 4
    MinConfirmations = 2
    RefundNotBefore = 3
    HistoryLimit = 2
    MaxReorgDepth = 2
    MaxReorgs = 2
    MaxCrashes = 0
    MaxFailures = 0
    MaxPolicyIngests = 4
    MaxMoves = 0
INVARIANT ObservationIsCanonical
CHECK_DEADLOCK FALSE
