SPECIFICATION MetersSpec
CONSTANTS
    MaxTransports = 2
    MaxRequests = 3
    MaxCalls = 2
    MaxTime = 5
    Retained = 2
    MaxLag = 1
INVARIANTS
    CountersBalanced
    QpsExact
CHECK_DEADLOCK FALSE
