SPECIFICATION RecoverySpec
CONSTANTS
    w1 = w1
    w2 = w2
    Worker <- BothWorkers
    NumBatches = 2
    Guarded = FALSE
    MaxArmings = 2
    MaxFaults = 1
SYMMETRY AnyWorker
INVARIANTS
    CallbackCarriesEveryBatch
CHECK_DEADLOCK FALSE
