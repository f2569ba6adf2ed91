SPECIFICATION CreatesSpec
CONSTANTS
    Id = {a, b, v}
    VMId = {v}
    Name = {n}
    Types = {"vm", "cluster"}
    None = None
    MaxAge = 0
    VMStates = {"up"}
    Faults = {"store"}
    MaxDrift = 2
    Handler = {h1, h2, h3}
    CreateRequests <- OwnCreates
    DeleteRequests = {}
    MaxRequests = 4
INVARIANTS ClusterCreatesSerialized NoLeak CreatorOwns
PROPERTIES RequestsAnswered
CHECK_DEADLOCK FALSE
