SPECIFICATION Spec
CONSTANTS
    Topics = {stats}
    Stats = stats
    Slots = {1}
    Threshold = 1
    MaxMounts = 1
    MaxWire = 2
    MaxNews = 1
    MaxSessions = 2
    MaxVisits = 2
    MaxFaults = 1
PROPERTIES EventuallyCurrent ExpiryReachesLogin
CHECK_DEADLOCK FALSE
