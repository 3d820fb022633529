SPECIFICATION Spec
CONSTANTS
    Clients = {c1}
    Destroyer = destroyer
    Jobs = {j1, j2, j3}
    NoJob = NoJob
    MaxPoolSize = 2
    MaxThreads = 2
    Submitters <- JobsAndClients
    IdleWaiters = {c1}
    MayDestroy = TRUE
PROPERTIES
    ImplementsExecutorSafely
    SettledDestructorCompletes
CHECK_DEADLOCK FALSE
