SPECIFICATION Spec
CONSTANTS
    KeepAlives = {0, 1}
    ConnectTimeout = 2
    OutboundQueueSize = 1
    InboxSize = 1
    NoTimer = NoTimer
    MaxPacketSize = 128
    Packets <- MCPackets
    Lengths <- MCLengths
    Inputs <- MCInputs
INVARIANTS
    TypeOK
    AnswersKept
    SilenceNoticed
    RoundTrip
    Canonical
    Framing
PROPERTIES
    KeepAliveFair
    ServeEnds
CHECK_DEADLOCK FALSE
