SPECIFICATION Spec
CONSTANTS
    MaxChunks = 1
    MaxMessages = 1
    EarlyClean = FALSE
INVARIANTS
    EarlyHttp1ResponseKept
CHECK_DEADLOCK FALSE
