SPECIFICATION Spec
CONSTANTS
    Conns = {c1, c2, c3}
    MaxConnections = 2
    NoConn = NoConn
    AdminEnabled = TRUE
INVARIANTS
    TypeOK
    LimitHolds
    OneSlipsPast
    QuietAfterStop
PROPERTY ShutsDown
CHECK_DEADLOCK FALSE
