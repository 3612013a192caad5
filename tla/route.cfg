SPECIFICATION Spec
CONSTANTS
    Owners = {p, q}
    Nobody = nobody
    MaxEpoch = 2
    HealthTargets = {"running", "manual"}
    Compensable = {"upstream", "downstream"}
    Leaks = TRUE
    MaxReorgs = 1
    MaxCrashes = 1
SYMMETRY Symmetry
INVARIANTS
    TypeOK
    OneExitPerLeg
    NoSplitOutcome
    CustodyIsBehind
    OutboxMatchesSnapshot
    ReceiptsAreAccepted
PROPERTIES
    SendsOnlyWhatStands
CHECK_DEADLOCK FALSE
