SPECIFICATION FairSpec
CONSTANTS
    Anchors <- AllAnchors
    NoCursor = NoCursor
    MaxHeight = 4
    MinConfirmations = 3
    RefundNotBefore = 9
    HistoryLimit = 2
    MaxReorgDepth = 1
    MaxReorgs = 1
    MaxCrashes = 1
    MaxFailures = 1
    MaxPolicyIngests = 4
    MaxMoves = 1
INVARIANT RecoverySucceeds
PROPERTY FinalSpendEnds
CHECK_DEADLOCK FALSE
