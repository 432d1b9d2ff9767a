SPECIFICATION Spec
CONSTANTS
    Users = {u1, u2}
    Callers = {c1, c2}
    Tokens = {t1, t2}
    None = None
    MaxOps = 4
    MaxFaults = 2
SYMMETRY Symmetry
INVARIANTS ExclusiveReset TokenBeginsOnce ConfirmedSelection HonestCounts
PROPERTIES StartsNothingWhenClosed
