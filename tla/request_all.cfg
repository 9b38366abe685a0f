SPECIFICATION FairSpec
CONSTANTS
    MaxChunks = 2
    MaxMessages = 2
    EarlyClean = FALSE
INVARIANTS
    CompleteOrFailed
    EarlyResponseKept
PROPERTIES
    StreamReleased
    CallerTold
    ResponseSettles
CHECK_DEADLOCK FALSE
