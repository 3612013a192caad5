SPECIFICATION FairSpec
CONSTANTS
    Nodes = {n1, n2, n3}
    PoolQuorum = 2
    LastValid = 1
    MaxHeight = 2
    MaxSpread = 1
    Queries = {"finality"}
    Plans <- StagedSolana
PROPERTY ExposureIsAnswered
CHECK_DEADLOCK FALSE
