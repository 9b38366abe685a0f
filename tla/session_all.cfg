SPECIFICATION Spec
CONSTANTS
    Conns = {c1, c2}
    Calls = {r1, r2, r3}
    NoConn = NoConn
    KeepAlive = TRUE
    PingIdle = TRUE
    Faults = {"reset", "close", "silent", "goaway", "calm"}
    MaxAborts = 1
    MaxPings = 2
SYMMETRY Symmetry
INVARIANTS
    HooksFollowState
    StreamsCounted
    NoSpin
    NoStrandedCall
    EndNoticed
    IdleIsTimed
PROPERTIES
    ImplementsShared
CHECK_DEADLOCK FALSE
