SPECIFICATION FairSpec
CONSTANTS
    Conns = {c1, c2}
    Calls = {r1, r2}
    NoConn = NoConn
    KeepAlive = TRUE
    PingIdle = FALSE
    Faults = {"reset", "close", "silent", "goaway", "calm"}
    MaxAborts = 0
    MaxPings = 1
PROPERTIES
    CallsAnswered
    MuteStreamsClose
CHECK_DEADLOCK FALSE
