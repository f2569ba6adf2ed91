SPECIFICATION LifecycleSpec
CONSTANTS
    Caller = {self, k1}
    healthCacheTTL = 1
    None = None
    Provider = {"vm"}
    Self = self
    MaxProbes = 2
    MaxRequests = 1
INVARIANTS LifecycleTypeOK ClosedQuiet DeregistrationFinal
PROPERTIES DownIsNoticed BecomesReady ShutdownEnds
CHECK_DEADLOCK FALSE
