SPECIFICATION ReadsSpec
CONSTANTS
    Id = {a}
    Name = {n}
    Types = {"cluster"}
    None = None
    MaxAge = 0
    VMStates = {}
    Faults = {"kweb", "vanish"}
    MaxDrift = 0
    Handler = {h1, h2}
    CreateRequests <- AllCreates
    DeleteRequests <- AllDeletes
    MaxRequests = 3
    Reader = {r1}
    kubeconfigCacheTTL = 1
INVARIANTS ReadsTypeOK StaleExplained
PROPERTIES StaleEnds
CHECK_DEADLOCK FALSE
