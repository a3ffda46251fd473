SPECIFICATION Spec
CONSTANTS
    c1 = c1
    c2 = c2
    Row <- TwoRows
    Job <- Workflow
    Consumer <- BothConsumers
    Kind <- MCKind
    Shape <- MCShape
    Priority <- MCPriority
    BatchSize = 2
    ShortLease = FALSE
    MaxAttempts = 1
    ReparkBudget = 1
    MaxFaults = 1
SYMMETRY AnyConsumer
INVARIANTS
    OutcomeSurfaced
    BoundedRuns
    SoleLeaseHolder
CHECK_DEADLOCK FALSE
