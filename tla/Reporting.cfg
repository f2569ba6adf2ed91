SPECIFICATION ReportingSpec
CONSTANTS
    Id = {a}
    Name = {n}
    Types = {"vm", "cluster"}
    None = None
    MaxAge = 1
    VMStates = {"up", "down"}
    Faults = {"nats", "store", "vanish"}
    MaxDrift = 0
    ProvisioningThreshold = 1
    ClusterCreateTimeout = 0
    DebounceWindow = 1
INVARIANTS ReportingTypeOK NoSilentStatus
PROPERTIES ImplementsFeed
