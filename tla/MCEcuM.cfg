SPECIFICATION FairSpec
CONSTANTS
    sched = sched  conn = conn
    Entities = {sched, conn}
    Scheduler = sched
    Period <- MCPeriod  Budget <- MCBudget
    AliveMin <- MCAliveMin  AliveMax <- MCAliveMax  Deadline <- MCDeadline
    Divider = 2  Tolerance = 3  MaxFailed = 4
    SlowTimeout = 8  FastTimeout = 7
    FirstDay = 21242  LastDay = 21245
    MinPlausible = 19723  MaxPlausible = 47481
    Wrap = 2  Drift = 0
    Count = 2  Window = 1
    MaxBoots = 4  MaxFaults = 2  MaxRaces = 1
INVARIANTS TypeOK HealthyUndisturbed LoopsTold ClockTrue
PROPERTIES ForgivenLate StuckIsReset
CHECK_DEADLOCK FALSE
