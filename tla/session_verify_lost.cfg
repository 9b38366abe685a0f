SPECIFICATION Spec
CONSTANTS
    Conns = {c1, c2}
    Calls = {r1, r2}
    NoConn = NoConn
    KeepAlive = TRUE
    PingIdle = FALSE
    Faults = {"reset"}
    MaxAborts = 0
    MaxPings = 1
INVARIANTS
    ReadyNotGone
CHECK_DEADLOCK FALSE
