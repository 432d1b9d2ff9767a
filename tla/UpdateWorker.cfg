SPECIFICATION Spec
CONSTANTS
    Versions = {v1, v2, v3}
    Files = {f1, f2}
    UpdateTargets = {"panel", "telemt"}
    None = None
    MaxFaults = 3
    PowerLoss = FALSE
SYMMETRY Symmetry
INVARIANTS TypeOK RollbackPossible AtomicOutcome SnapshotIsQuiet
PROPERTIES ResultIsFinal Implements
