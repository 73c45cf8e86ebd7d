SPECIFICATION Spec
CONSTANTS
    Conns = {c1}
    MaxConnections = 1
    NoConn = NoConn
    AdminEnabled = FALSE
INVARIANT StopClosesAll
CHECK_DEADLOCK FALSE
