SPECIFICATION Spec
CONSTANTS
    a = a
    b = b
    Callers = {a, b}
    Uses <- MCUses
    ReadLoop = ReadLoop
    KeepAlive = KeepAlive
    NoOne = NoOne
    MaxPacketID = 2
    MaxRequests = 3
    MaxInbound = 1
    SendBuffer = 1
INVARIANTS
    TypeOK
    RightAck
    AckReachesWaiter
    WaitsForWritten
    ClosedByUs
