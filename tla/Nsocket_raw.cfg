SPECIFICATION Spec
CONSTANTS
    Readers = {r}
    Waiters = {w}
    Owner = owner
    Buffer = buffer
    AutoBuffer = FALSE
    Calls = {"close"}
    ReadLength = 2
    MayJustRead = {TRUE, FALSE}
    MayBuffer = {TRUE, FALSE}
    MaxBytes = 2
    MaxDone = 1
CHECK_DEADLOCK FALSE
INVARIANTS
    BytesInOrder
PROPERTIES
    ReadEndsWithPeer
