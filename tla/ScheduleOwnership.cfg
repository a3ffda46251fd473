SPECIFICATION Spec
CONSTANTS
    r1 = r1
    hourly = hourly
    daily = daily
    Bad = Bad
    None = None
    Reaper <- OneLeader
    Cron <- TwoCrons
    MaxValues = 3
    MaxSaves = 3
    MaxDeploys = 1
    MaxFaults = 2
SYMMETRY AnyCron
INVARIANTS
    ExactlyOneFirer
    FiresOnce
    NoCatchUpRun
    NextRunFollowsCron
CHECK_DEADLOCK FALSE
