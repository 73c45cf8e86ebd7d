SPECIFICATION Spec
CONSTANTS
    KeepAlives = {0}
    ConnectTimeout = 2
    OutboundQueueSize = 1
    InboxSize = 1
    NoTimer = NoTimer
    MaxPacketSize = 128
    Packets <- MCPackets
    Lengths <- MCLengths
    Inputs <- MCInputs
INVARIANT WireIntact
CHECK_DEADLOCK FALSE
