SPECIFICATION Spec
CONSTANTS
    Id = {a}
    Name = {n}
    Types = {"vm"}
    None = None
    MaxAge = 1
    VMStates = {"up"}
    Faults = {"store","kweb","timeout","nats","vanish","crash"}
    Handler = {h1, h2}
    CreateRequests <- AllCreates
    DeleteRequests <- AllDeletes
    MaxRequests = 3
    ProvisioningThreshold = 1
    ClusterCreateTimeout = 0
    DebounceWindow = 1
    MaxDrift = 2
    MaxCrashes = 1
SYMMETRY HandlerSymmetry
VIEW Observed
INVARIANTS TypeOK DeletingHasDeleter
PROPERTY NoRevival
