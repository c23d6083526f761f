SPECIFICATION Spec
CONSTANTS
    None = None
    i1 = i1
    Identities = {i1}
    Manifests <- TwoManifests
    MaxGeneration = 1
    ManageServices = TRUE
    ManageAnchor = TRUE
    Services = 2
    MaxFaults = 2
    MaxDisturbances = 2
INVARIANTS
    TypeOK
    StampMeansImage
    DoneHolds
    RetryRepairs
PROPERTIES
    FollowsCall
    StartsWholeDisk
