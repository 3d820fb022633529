SPECIFICATION Spec
CONSTANTS
    Threads = {t1, t2, t3}
    MaxState = 3
INVARIANTS
    TypeOK
    NoLostWakeup
PROPERTIES
    ImplementsContract
