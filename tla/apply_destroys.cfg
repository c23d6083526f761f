SPECIFICATION Spec
CONSTANTS
    None = None
    p1 = p1
    p2 = p2
    i1 = i1
    i2 = i2
    Proc = {p1}
    Identities = {i1}
    Manifests <- OneManifest
    Commands <- OneManifestCommands
    MaxGeneration = 1
    ManageServices = FALSE
    ManageAnchor = TRUE
    MaxCrashes = 1
    MaxSessionLosses = 0
    MaxDrifts = 0
    MaxFailures = 0
    MaxFaults = 1
PROPERTIES
    ApplyNeverDestroys
