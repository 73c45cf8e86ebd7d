SPECIFICATION Spec
CONSTANTS
    Conns = {c1, c2}
    Subscribers = {c1, c2}
    NoConn = NoConn
INVARIANT SessionSurvives
CHECK_DEADLOCK FALSE
