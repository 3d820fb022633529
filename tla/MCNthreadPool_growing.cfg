SPECIFICATION Spec
CONSTANTS
    Clients = {c1, c2}
    Destroyer = destroyer
    Jobs = {j1, j2, j3}
    NoJob = NoJob
    MaxPoolSize = 0
    MaxThreads = 3
    Submitters <- JobsAndClients
    IdleWaiters <- NoCallers
    MayDestroy = FALSE
INVARIANTS
    GrowingPoolNeverWaits
PROPERTIES
    CallsReturn
