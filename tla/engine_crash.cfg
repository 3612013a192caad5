SPECIFICATION Spec
CONSTANTS
    Anchors <- AllAnchors
    NoCursor = NoCursor
    MaxHeight = 4
    MinConfirmations = 2
    RefundNotBefore = 3
    HistoryLimit = 1
    MaxReorgDepth = 1
    MaxReorgs = 1
    MaxCrashes = 1
    MaxFailures = 1
    MaxPolicyIngests = 4
    MaxMoves = 0
INVARIANTS TypeOK NoHardRejection CursorCoversObservations ScannerSkipsNothing
           TerminalStaysWithoutFaults
PROPERTIES KeepsThePromise
CHECK_DEADLOCK FALSE
