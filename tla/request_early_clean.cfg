SPECIFICATION FairSpec
CONSTANTS
    MaxChunks = 2
    MaxMessages = 2
    EarlyClean = TRUE
PROPERTIES
    ResponseSettles
CHECK_DEADLOCK FALSE
