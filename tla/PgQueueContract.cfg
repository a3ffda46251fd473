SPECIFICATION FairSpec
CONSTANTS
    c1 = c1
    c2 = c2
    Row <- TwoRows
    Job <- Fragile
    Consumer <- BothConsumers
    Kind <- MCKind
    Shape <- MCShape
    Priority <- MCPriority
    BatchSize = 2
    ShortLease = TRUE
    MaxAttempts = 1
    ReparkBudget = 1
    MaxFaults = 1
INVARIANTS
    NoSilentLoss
    TailKeepsItsLease
PROPERTIES
    EveryMessageSettles
    ImplementsContract
CHECK_DEADLOCK FALSE
