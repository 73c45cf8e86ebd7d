SPECIFICATION Spec
CONSTANTS
    Conns = {c1, c2}
    Subscribers = {c1, c2}
    NoConn = NoConn
INVARIANTS
    TypeOK
    NoDeafClient
    NothingLeaks
    SubscriptionsIndexed
PROPERTIES
    WillRule
    DisplacedEnds
CHECK_DEADLOCK FALSE
