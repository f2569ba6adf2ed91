SPECIFICATION Spec
CONSTANTS
    Id = {a}
    Name = {n}
    Types = {"vm"}
    None = None
    MaxAge = 1
    VMStates = {"up", "down"}
    Faults = {}
    Handler = {h1, h2}
    CreateRequests <- AllCreates
    DeleteRequests <- AllDeletes
    MaxRequests = 3
    ProvisioningThreshold = 1
    ClusterCreateTimeout = 0
    DebounceWindow = 1
    MaxDrift = 2
    MaxCrashes = 0
PROPERTIES DeletedOnlyIfGone
