SPECIFICATION Spec
CONSTANTS
    MaxHops = 3
    MaxFaults = 1
    ThrownCodes = {"not_found", "resource_exhausted", "unavailable"}
INVARIANTS
    NoFalseSuccess
    ErrorSurvives
    UnavailableIsTrue
CHECK_DEADLOCK FALSE
