SPECIFICATION Spec
CONSTANTS
    LeaseSeconds = 12
    VtSeconds = 20
    JoinTimeout = 1
    Stall = 1
    MaxMissed = 1
    SweepInterval = 3
    Horizon = 34
\* The clock stops at Horizon.
CHECK_DEADLOCK FALSE
INVARIANTS
    LiveClaimHeld
    DeadClaimFreed
