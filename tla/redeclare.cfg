SPECIFICATION Spec
CONSTANTS
    None = None
    p1 = p1
    p2 = p2
    i1 = i1
    i2 = i2
    Proc = {p1}
    Identities = {i1}
    Manifests <- PowerChange
    Commands <- PowerChangeCommands
    MaxGeneration = 2
    ManageServices = TRUE
    ManageAnchor = TRUE
    MaxCrashes = 1
    MaxSessionLosses = 0
    MaxDrifts = 1
    MaxFailures = 1
    MaxFaults = 1
INVARIANTS
    ConvergedApplyMatchesHost
    StepsInOrder
PROPERTIES
    SucceededIsFinal
