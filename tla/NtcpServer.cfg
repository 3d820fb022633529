SPECIFICATION Spec
CONSTANTS
    Stoppers = {s1, s2}
    Server = server
    Collector = collector
    MaxPeers = 2
INVARIANTS
    ClientsAccounted
PROPERTIES
    FinishedAreReaped
    StopEndsCollector
    StopEndsStart
CHECK_DEADLOCK FALSE
