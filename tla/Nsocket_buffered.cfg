SPECIFICATION Spec
CONSTANTS
    Readers = {r}
    Waiters = {}
    Owner = owner
    Buffer = buffer
    AutoBuffer = TRUE
    Calls = {"enable", "disable", "close"}
    ReadLength = 2
    MayBuffer = {TRUE}
    MayJustRead = {FALSE}
    MaxBytes = 3
    MaxDone = 2
CHECK_DEADLOCK FALSE
INVARIANTS
    TypeOK
    BytesInOrder
    NoThreadLeftBehind
PROPERTIES
    ReadEndsWithPeer
    KeepsUp
    SettledCloseReturns
