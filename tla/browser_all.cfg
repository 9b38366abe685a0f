SPECIFICATION Spec
CONSTANTS
    MaxItems = 3
INVARIANTS
    SuccessMeansComplete
    CallerTold
    ResponseReleased
PROPERTIES
    AbortSettles
CHECK_DEADLOCK FALSE
