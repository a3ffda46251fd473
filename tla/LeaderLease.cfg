SPECIFICATION FairSpec
CONSTANTS
    Reaper = {r1, r2, r3}
    Free = free
    Gone = gone
    Lease = 2
    MaxFaults = 3
INVARIANTS
    SoleActor
PROPERTIES
    NoEarlyTakeover
    RecoveryRecurs
