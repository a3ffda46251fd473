SPECIFICATION Spec
CONSTANTS
    r1 = r1
    hourly = hourly
    daily = daily
    Bad = Bad
    None = None
    Reaper <- OneLeader
    Cron <- TwoCrons
    MaxValues = 3
    MaxSaves = 1
    MaxDeploys = 0
    MaxFaults = 0
SYMMETRY AnyCron
INVARIANTS
    EditTakesEffect
CHECK_DEADLOCK FALSE
