SPECIFICATION SchedFairSpec
CONSTANTS
    Users = {u1}
    Callers = {c1}
    Tokens = {t1}
    None = None
    MaxOps = 3
    MaxFaults = 1
    Periods = {2}
    Zones = {0}
    MaxTime = 3
PROPERTIES DueIsServed CloseReturns
