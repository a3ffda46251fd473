SPECIFICATION Spec
CONSTANTS
    r1 = r1
    r2 = r2
    o1 = o1
    o2 = o2
    Request <- TwoRequests
    Org <- TwoOrgs
    OrgLimit <- Limits
    GlobalLimit = 1
    MaxDeliveries = 3
    MaxFaults = 1
CONSTRAINT TwoRequestsOrDeliveries
SYMMETRY Symmetric
INVARIANTS
    OrgOvershootBounded
    GlobalOvershootBounded
    LiveRunKeepsItsSlot
    EndedRunFreesItsSlot
    NotStartedIsTrue
    InputOutlivesRun
    EveryExecutionIsSwept
CHECK_DEADLOCK FALSE
