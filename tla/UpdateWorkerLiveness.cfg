SPECIFICATION FairSpec
CONSTANTS
    Versions = {v1, v2}
    Files = {f1}
    UpdateTargets = {"panel", "telemt"}
    None = None
    MaxFaults = 2
    PowerLoss = FALSE
PROPERTIES UpdateEnds PanelReturns
