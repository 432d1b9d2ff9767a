SPECIFICATION SchedSpec
CONSTANTS
    Users = {u1, u2}
    Callers = {}
    Tokens = {}
    None = None
    MaxOps = 3
    MaxFaults = 1
    Periods = {2}
    Zones = {0, 1}
    MaxTime = 4
SYMMETRY Symmetry
INVARIANTS LastIsHonest RecordLoads
PROPERTIES OncePerSlot RevisionIdentifiesConfig
