SPECIFICATION Spec
CONSTANTS
    Clients = {c1, c2}
    Destroyer = destroyer
    Jobs = {j1, j2, j3}
    NoJob = NoJob
    MaxPoolSize = 2
    MaxThreads = 2
    Submitters = {c1, c2}
    IdleWaiters = {c2}
    MayDestroy = FALSE
INVARIANTS
    TypeOK
    IdleAccounting
    IdleThreadFound
    ExclusiveHandout
    AcceptedJobKept
PROPERTIES
    ImplementsExecutor
    CallsReturn
