SPECIFICATION MCSpec
CONSTANTS
    None = None
    MaxTime = 3
    MaxWrites = 2
    ConfigIds = {1, 2, 3}
    PageSizes = {1, 2}
    Builders <- MCBuilders
    Probes <- MCProbes
    Databases <- MCDatabases
    ProbeDatabase <- MCProbeDatabase
CHECK_DEADLOCK FALSE
INVARIANTS
    AdvertisedCredentialsAdmit
    PublishedRequirementsResolve
    SameEverywhere
    WalkIsComplete
PROPERTIES
    OnlyOwn
