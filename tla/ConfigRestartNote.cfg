SPECIFICATION ReloadSpec
CONSTANTS
    MaxClock = 14
    MaxSaves = 1
    MaxServed = 0
    StatsAge = 6
PROPERTY OnlyRestartClears
CHECK_DEADLOCK FALSE
