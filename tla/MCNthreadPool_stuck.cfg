SPECIFICATION Spec
CONSTANTS
    Clients = {c1}
    Destroyer = destroyer
    Jobs = {j1}
    NoJob = NoJob
    MaxPoolSize = 1
    MaxThreads = 1
    Submitters = {c1}
    IdleWaiters <- NoCallers
    MayDestroy = TRUE
PROPERTY DestructorCompletes
CHECK_DEADLOCK FALSE
