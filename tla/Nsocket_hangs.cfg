SPECIFICATION Spec
CONSTANTS
    Readers = {}
    Waiters = {}
    Owner = owner
    Buffer = buffer
    AutoBuffer = TRUE
    Calls = {"close"}
    ReadLength = 1
    MayJustRead = {FALSE}
    MayBuffer = {FALSE}
    MaxBytes = 1
    MaxDone = 2
CHECK_DEADLOCK FALSE
PROPERTY
    CloseReturns
