SPECIFICATION FairSpec
CONSTANTS
    Conns = {c1, c2}
    Calls = {r1, r2}
    NoConn = NoConn
    KeepAlive = FALSE
    PingIdle = FALSE
    Faults = {}
    MaxAborts = 1
    MaxPings = 1
PROPERTIES
    CallsAnswered
CHECK_DEADLOCK FALSE
