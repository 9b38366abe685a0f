SPECIFICATION FairSpec
CONSTANTS
    Conns = {c1, c2}
    Calls = {r1, r2}
    NoConn = NoConn
    KeepAlive = TRUE
    PingIdle = FALSE
    Faults = {"silent"}
    MaxAborts = 0
    MaxPings = 1
PROPERTIES
    VerificationEnds
CHECK_DEADLOCK FALSE
