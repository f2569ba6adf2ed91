SPECIFICATION FairReportingSpec
CONSTANTS
    Id = {a}
    Name = {n}
    Types = {"vm", "cluster"}
    None = None
    MaxAge = 2
    VMStates = {"up", "down"}
    Faults = {"vanish"}
    MaxDrift = 1
    ProvisioningThreshold = 1
    ClusterCreateTimeout = 1
    DebounceWindow = 2
PROPERTIES Converges CreatingEnds
