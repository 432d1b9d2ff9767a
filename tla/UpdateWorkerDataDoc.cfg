SPECIFICATION Spec
CONSTANTS
    Versions = {v1, v2}
    Files = {f1}
    UpdateTargets = {"panel"}
    None = None
    MaxFaults = 2
    PowerLoss = FALSE
PROPERTIES RollbackKeepsData
