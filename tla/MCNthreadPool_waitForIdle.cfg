SPECIFICATION Spec
CONSTANTS
    Clients = {c1, c2}
    Destroyer = destroyer
    Jobs = {j1}
    NoJob = NoJob
    MaxPoolSize = 2
    MaxThreads = 2
    Submitters = {c1}
    IdleWaiters = {c2}
    MayDestroy = FALSE
INVARIANT WaitForIdleWaitsForAll
