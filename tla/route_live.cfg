SPECIFICATION FairSpec
CONSTANTS
    Owners = {p}
    Nobody = nobody
    MaxEpoch = 2
    HealthTargets = {"running", "recovery_only"}
    Compensable = {}
    Leaks = FALSE
    MaxReorgs = 1
    MaxCrashes = 1
PROPERTIES
    PublicSecretIsClaimed
    RecoveryRefunds
    DueTimersFire
    SwapSpec
CHECK_DEADLOCK FALSE
