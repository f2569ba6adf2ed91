SPECIFICATION FairSpec
CONSTANTS
    Id = {a}
    Name = {n}
    Types = {"vm"}
    None = None
    MaxAge = 1
    VMStates = {"up"}
    Faults = {"crash"}
    Handler = {h1}
    CreateRequests <- AllCreates
    DeleteRequests <- AllDeletes
    MaxRequests = 2
    ProvisioningThreshold = 1
    ClusterCreateTimeout = 0
    DebounceWindow = 1
    MaxDrift = 2
    MaxCrashes = 1
PROPERTIES GoneIsReconciled
