SPECIFICATION RecoverySpec
CONSTANTS
    w1 = w1
    w2 = w2
    Worker <- BothWorkers
    NumBatches = 2
    Guarded = TRUE
    MaxArmings = 1
    MaxFaults = 2
CONSTRAINT SweepsOrFaults
SYMMETRY AnyWorker
INVARIANTS
    RecoveryTypeOK
    ClaimOutlivesRun
    FanInIsComplete
    NoRerunWhileCounting
PROPERTIES
    TeardownIsAccounted
CHECK_DEADLOCK FALSE
