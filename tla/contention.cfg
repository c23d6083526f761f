SPECIFICATION Spec
CONSTANTS
    None = None
    p1 = p1
    p2 = p2
    i1 = i1
    i2 = i2
    Proc = {p1, p2}
    Identities = {i1}
    Manifests <- OneManifest
    Commands <- OneManifestCommands
    MaxGeneration = 1
    ManageServices = FALSE
    ManageAnchor = FALSE
    MaxCrashes = 1
    MaxSessionLosses = 1
    MaxDrifts = 0
    MaxFailures = 1
    MaxFaults = 1
SYMMETRY Symmetry
INVARIANTS
    TypeOK
    ExclusiveMutator
    ExecutesNewest
    ConvergedHasEvidence
    ReleasedIffArchived
PROPERTIES
    OnlyNewestAdvances
    FollowsLifecycle
