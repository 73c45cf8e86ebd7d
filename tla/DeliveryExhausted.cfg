SPECIFICATION FairSpec
CONSTANTS
    MaxPacketID = 1
    MaxInflight = 2
    MaxQueued = 2
    MaxMessages = 4
    MaxAge = 1
    Publishers = {p1}
    MaxConns = 1
    OutboundQueueSize = 1
    PipeSize = 1
    RetransmitTimeout = 0
INVARIANT Custody
PROPERTY WindowDrains
CHECK_DEADLOCK FALSE
