SPECIFICATION Spec
CONSTANTS
    MaxPacketID = 4
    MaxInflight = 2
    MaxQueued = 1
    MaxMessages = 3
    MaxAge = 1
    Publishers = {p1, p2}
    MaxConns = 2
    OutboundQueueSize = 1
    PipeSize = 2
    RetransmitTimeout = 0
SYMMETRY Symmetry
INVARIANTS
    TypeOK
    WindowBounds
    SingleCustody
    SentIsTracked
    AtLeastOnce
PROPERTY ImplementsChannel
CHECK_DEADLOCK FALSE
