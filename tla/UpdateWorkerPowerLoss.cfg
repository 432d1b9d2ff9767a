SPECIFICATION Spec
CONSTANTS
    Versions = {v1, v2}
    Files = {f1}
    UpdateTargets = {"telemt"}
    None = None
    MaxFaults = 2
    PowerLoss = TRUE
INVARIANTS FailedWriteRetainsBackup
