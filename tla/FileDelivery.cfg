SPECIFICATION FileSpec
CONSTANTS
    e1 = e1
    e2 = e2
    w1 = w1
    w2 = w2
    Exec <- TwoExecs
    Worker <- TwoWorkers
    MaxFaults = 1
SYMMETRY AnyName
INVARIANTS
    OneExecutionDelivers
    WritersExcludeEachOther
    SuccessMeansDelivered
    FileIsHandled
    NoFileLeftActive
CHECK_DEADLOCK FALSE
