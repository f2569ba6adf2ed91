SPECIFICATION ListingSpec
CONSTANTS
    Id = {1, 2, 3}
    Name = {m, n}
    Types = {"vm", "cluster"}
    None = None
    MaxAge = 1
    MaxPageSize = 1
    Statuses = {"RUNNING"}
INVARIANTS ListingTypeOK WalkComplete NoRepeat
PROPERTIES IndexSound IndexStaysExact
CHECK_DEADLOCK FALSE
VIEW Observed
