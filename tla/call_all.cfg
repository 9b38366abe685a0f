SPECIFICATION FairSpec
CONSTANTS
    MaxIn = 2
    MaxOut = 2
INVARIANTS
    OneInput
    FailureReleases
PROPERTIES
    ImplementsRpc
    ServerTold
    DeadlineEnds
CHECK_DEADLOCK FALSE
