SPECIFICATION Spec
CONSTANTS
    MaxPacketID = 4
    MaxInflight = 2
    MaxQueued = 1
    MaxMessages = 2
    MaxAge = 1
    Publishers = {p1}
    MaxConns = 1
    OutboundQueueSize = 1
    PipeSize = 2
    RetransmitTimeout = 0
INVARIANT NothingStranded
CHECK_DEADLOCK FALSE
