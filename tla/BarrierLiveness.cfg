SPECIFICATION FairRecoverySpec
CONSTANTS
    w1 = w1
    w2 = w2
    Worker <- BothWorkers
    NumBatches = 1
    Guarded = TRUE
    MaxArmings = 1
    MaxFaults = 2
PROPERTIES
    EveryExecutionEnds
CHECK_DEADLOCK FALSE
