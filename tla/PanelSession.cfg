SPECIFICATION Spec
CONSTANTS
    Topics = {users, stats}
    Stats = stats
    Slots = {r1, r2}
    Threshold = 1
    MaxMounts = 1
    MaxWire = 2
    MaxNews = 1
    MaxSessions = 2
    MaxVisits = 2
    MaxFaults = 1
INVARIANTS NoDataAcrossLogout ConnectionFollowsMounts StripIsHonest
PROPERTY AnswersNeverRegress
SYMMETRY SlotSymmetry
CHECK_DEADLOCK FALSE
