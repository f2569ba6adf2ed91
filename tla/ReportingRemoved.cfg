SPECIFICATION ReportingSpec
CONSTANTS
    Id = {a}
    Name = {n}
    Types = {"vm"}
    None = None
    MaxAge = 1
    VMStates = {"up", "down"}
    Faults = {"vanish"}
    MaxDrift = 1
    ProvisioningThreshold = 1
    ClusterCreateTimeout = 0
    DebounceWindow = 2
INVARIANTS RemovedMeansReported
