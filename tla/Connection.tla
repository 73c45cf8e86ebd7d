----------------------------- MODULE Connection -----------------------------
(***************************************************************************)
(* One client connection (pkg/infrastructure/transport/connection.go), from*)
(* Serve to its return: the reader, which is Serve's own goroutine, the    *)
(* writer goroutine, the keep-alive loop, and Close, which any of them and *)
(* anyone outside may call.                                                *)
(*                                                                         *)
(* Time is counted in half seconds, so that one and a half keep-alives and *)
(* half a keep-alive are whole numbers.  A timer holds what is left until  *)
(* it fires.  A goroutine that can run does so before the next half second *)
(* (MayWait); only the handling of a packet - a CONNECT's, with its CONNACK*)
(* and the resumed session, or a later one's - and a socket write may take *)
(* longer.                                                                 *)
(* Once the connection is closed no timer matters and time is not counted. *)
(*                                                                         *)
(* A packet is what its handler does: "subscribe" and "request" (QoS 1     *)
(* PUBLISH, UNSUBSCRIBE, PINGREQ) are answered, "oneway" (QoS 0 PUBLISH,   *)
(* PUBACK) is not, a second "connect" stands for every packet that dispatch *)
(* or a service refuses, and "malformed" does not decode (module Codec).   *)
(***************************************************************************)
EXTENDS Naturals, Sequences, FiniteSets

CONSTANTS KeepAlives,          \* keep-alives a CONNECT may ask for, in seconds
          ConnectTimeout,      \* ConnectionConfig.ConnectTimeout; 0 is none
          OutboundQueueSize,   \* ConnectionConfig.OutboundQueueSize
          InboxSize,           \* bound: unread packets the socket holds
          NoTimer

ASSUME ConnectionAssumption ==
    /\ KeepAlives \subseteq Nat
    /\ ConnectTimeout \in Nat /\ OutboundQueueSize \in Nat
    /\ InboxSize \in Nat
    /\ NoTimer \notin Nat

VARIABLES
    reader,      \* where Serve is
    writer,      \* where writeLoop is
    packet,      \* the packet the reader handles
    inHand,      \* the packet the writer has encoded
    buffer,      \* who has encoded into the shared buffer of packet.Writer, to be written
    outbound,    \* Connection.outbound
    reason,      \* closeReason; done is closed when it is not "none"
    sockOpen,    \* conn.Close has not been called
    keepAlive,   \* Client.keepAlive, in seconds
    client,      \* c.client is set
    registered,  \* this connection is the client's sink
    subscribed,  \* the client has a subscription
    deadline,    \* time left until the read deadline, or NoTimer
    ticker,      \* time left until the keep-alive loop's next tick, or NoTimer
    idle,        \* time since lastActivityAt
    inbox,       \* packets that have arrived and are unread
    peer,        \* "up", "mute" (connected, never speaks again) or "gone"
    \* history, for the properties only
    silence,     \* time since the client last sent a packet
    waited,      \* time since the reader entered its current ReadPacket
    overdue,     \* time the keep-alive loop has been watching an expired client
    owing        \* answers promised and not yet on the wire

closeVars  == <<reason, sockOpen>>
clientVars == <<keepAlive, client, registered, subscribed>>
timeVars   == <<deadline, ticker, idle, silence, waited, overdue>>
peerVars   == <<inbox, peer>>
writeVars  == <<writer, inHand>>
vars == <<reader, packet, writeVars, buffer, outbound, closeVars, clientVars,
          timeVars, peerVars, owing>>

Kind   == {"connect", "subscribe", "request", "oneway", "disconnect", "malformed"}
Out    == {"publish", "answer"}
Reason == {"none", "network", "protocol", "keepAlive", "disconnect", "outside"}
Timer  == Nat \cup {NoTimer}

TypeOK ==
    /\ reader \in {"await", "connect", "connack", "connackEncoded", "install", "top",
                   "read", "dispatch", "closing", "wait", "ended"}
    /\ writer \in {"select", "writing", "draining", "drainWriting", "closing", "gone"}
    /\ packet \in Kind \cup {"none"}
    /\ inHand \in Out \cup {"none"}
    /\ buffer \in {"none", "reader", "writer"}
    /\ outbound \in Seq(Out) /\ Len(outbound) <= OutboundQueueSize
    /\ reason \in Reason /\ sockOpen \in BOOLEAN
    /\ keepAlive \in KeepAlives \cup {0}
    /\ client \in BOOLEAN /\ registered \in BOOLEAN /\ subscribed \in BOOLEAN
    /\ deadline \in Timer /\ ticker \in Timer
    /\ idle \in Nat /\ silence \in Nat /\ waited \in Nat /\ overdue \in Nat
    /\ inbox \in Seq(Kind) /\ Len(inbox) <= InboxSize
    /\ peer \in {"up", "mute", "gone"}
    /\ owing \in Nat

\* awaitConnect's read deadline.
ConnectDeadline == IF ConnectTimeout > 0 THEN ConnectTimeout ELSE NoTimer

\* Serve has started the writer and entered awaitConnect.
Init ==
    /\ reader = "await" /\ writer = "select"
    /\ packet = "none" /\ inHand = "none" /\ buffer = "none"
    /\ outbound = <<>> /\ reason = "none" /\ sockOpen = TRUE
    /\ keepAlive = 0 /\ client = FALSE /\ registered = FALSE /\ subscribed = FALSE
    /\ deadline = ConnectDeadline /\ ticker = NoTimer
    /\ idle = 0 /\ silence = 0 /\ waited = 0 /\ overdue = 0
    /\ inbox = <<>> /\ peer = "up"
    /\ owing = 0
----------------------------------------------------------------------------
(***************************************************************************)
(* Close and Send.                                                         *)
(***************************************************************************)
Closed == reason # "none"

\* The first reason is kept and done is closed, which ends the keep-alive loop.
\* No timer matters from here on ...
Close(r) ==
    /\ reason' = IF Closed THEN reason ELSE r
    /\ deadline' = NoTimer /\ ticker' = NoTimer
    /\ idle' = 0 /\ silence' = 0 /\ waited' = 0 /\ overdue' = 0

StayOpen == UNCHANGED <<reason, timeVars>>

\* ... then the socket, which is what unblocks the reader.  closeOnce makes
\* every caller of Close wait for this.
CloseSocket ==
    /\ Closed /\ sockOpen
    /\ sockOpen' = FALSE
    /\ UNCHANGED <<reader, packet, writeVars, buffer, outbound, reason, clientVars,
                   timeVars, peerVars, owing>>

\* Mutant: a full queue is not looked at.
CanSendAnyway == ~Closed

CanSend == ~Closed /\ Len(outbound) < OutboundQueueSize

\* Send for a publisher, for ResumeSession or for a retained message: the
\* error of a full queue is only counted.
SendPublish ==
    /\ registered /\ subscribed /\ CanSend
    /\ outbound' = Append(outbound, "publish")
    /\ UNCHANGED <<reader, packet, writeVars, buffer, closeVars, clientVars, timeVars,
                   peerVars, owing>>

\* A takeover, or the listener's Stop.
CloseFromOutside ==
    /\ ~Closed
    /\ Close("outside")
    /\ UNCHANGED <<reader, packet, writeVars, buffer, outbound, sockOpen, clientVars, peerVars, owing>>
----------------------------------------------------------------------------
(***************************************************************************)
(* The clock.                                                              *)
(***************************************************************************)
\* KeepAlive.Timeout and the keep-alive loop's interval, in half seconds.
Timeout  == 2 * keepAlive + keepAlive
Interval == IF keepAlive < 2 THEN 2 ELSE keepAlive

Blocked  == reader \in {"await", "read"}
MayWait  == Blocked /\ inbox = <<>> /\ peer # "gone" /\ deadline # 0
Handling == reader \in {"connect", "connack", "connackEncoded", "install", "dispatch"}

\* Bound: an age is counted until it is past what it is compared with.
Older(age, limit) == IF age <= limit THEN age + 1 ELSE age
ReadLimit == IF reader = "await" THEN ConnectTimeout ELSE Timeout
Sooner(t)  == IF t = NoTimer THEN NoTimer ELSE t - 1

Tick ==
    /\ ~Closed
    /\ MayWait \/ Handling
    /\ ticker # 0
    /\ deadline' = Sooner(deadline) /\ ticker' = Sooner(ticker)
    /\ idle' = Older(idle, Timeout) /\ silence' = Older(silence, Timeout)
    /\ waited' = IF Blocked THEN Older(waited, ReadLimit) ELSE 0
    /\ overdue' = IF ticker # NoTimer /\ idle' > Timeout THEN Older(overdue, Interval) ELSE 0
    /\ UNCHANGED <<reader, packet, writeVars, buffer, outbound, closeVars, clientVars,
                   peerVars, owing>>
----------------------------------------------------------------------------
(***************************************************************************)
(* Reading.                                                                *)
(***************************************************************************)
\* ReadPacket, in awaitConnect and in the read loop.  A read deadline that has
\* passed may win over a packet that has arrived, and a packet that is in the
\* bufio.Reader already is read even from a closed socket.
Arrived(p) == inbox # <<>> /\ p = Head(inbox)
TimedOut   == deadline = 0
HungUp     == ~sockOpen \/ (peer = "gone" /\ inbox = <<>>)

\* awaitConnect gives every read error the same reason.
AwaitFails ==
    /\ reader = "await"
    /\ \/ TimedOut /\ Close("network") /\ UNCHANGED inbox
       \/ HungUp /\ Close("network") /\ UNCHANGED inbox
       \/ /\ Arrived("malformed") /\ inbox' = Tail(inbox)
          /\ Close("network")
       \/ /\ \E p \in Kind \ {"connect", "malformed"} : Arrived(p)
          /\ inbox' = Tail(inbox)
          /\ Close("protocol")
    /\ reader' = "closing"
    /\ UNCHANGED <<packet, writeVars, buffer, outbound, sockOpen, clientVars,
                   peer, owing>>

\* The deadline is not looked at again before the read loop's head replaces it.
AwaitConnect ==
    /\ reader = "await" /\ Arrived("connect")
    /\ inbox' = Tail(inbox)
    /\ deadline' = NoTimer /\ waited' = 0
    /\ reader' = "connect"
    /\ UNCHANGED <<packet, writeVars, buffer, outbound, closeVars, clientVars, ticker,
                   idle, silence, overdue, peer, owing>>

\* applyReadDeadline, which also clears the deadline of the CONNECT.
ReadDeadline == IF keepAlive = 0 THEN NoTimer ELSE Timeout

\* The read loop's head.
NextRead ==
    /\ reader = "top" /\ ~Closed
    /\ deadline' = ReadDeadline
    /\ waited' = 0
    /\ reader' = "read"
    /\ UNCHANGED <<packet, writeVars, buffer, outbound, closeVars, clientVars, ticker,
                   idle, silence, overdue, peerVars, owing>>

StopReading ==
    /\ reader = "top" /\ Closed
    /\ reader' = "closing"
    /\ UNCHANGED <<packet, writeVars, buffer, outbound, closeVars, clientVars, timeVars,
                   peerVars, owing>>

\* Mutant: only a PINGREQ, one of the requests, counts as activity.
ReadPingOnly ==
    /\ reader = "read"
    /\ \E p \in Kind \ {"malformed"} : Arrived(p) /\ packet' = p
    /\ inbox' = Tail(inbox)
    /\ idle' = IF packet' = "request" THEN 0 ELSE idle
    /\ deadline' = NoTimer /\ waited' = 0 /\ overdue' = 0
    /\ reader' = "dispatch"
    /\ UNCHANGED <<writeVars, buffer, outbound, closeVars, clientVars, ticker, silence,
                   peer, owing>>

\* A packet is read, and recorded as activity whatever it is.
ReadPacket ==
    /\ reader = "read"
    /\ \E p \in Kind \ {"malformed"} : Arrived(p) /\ packet' = p
    /\ inbox' = Tail(inbox)
    /\ idle' = 0
    /\ deadline' = NoTimer /\ waited' = 0 /\ overdue' = 0
    /\ reader' = "dispatch"
    /\ UNCHANGED <<writeVars, buffer, outbound, closeVars, clientVars, ticker, silence,
                   peer, owing>>

\* handleReadError.
HandleReadError ==
    /\ reader = "read"
    /\ \/ TimedOut /\ Close("keepAlive") /\ UNCHANGED inbox
       \/ HungUp /\ Close("network") /\ UNCHANGED inbox
       \/ /\ Arrived("malformed") /\ inbox' = Tail(inbox)
          /\ Close("protocol")
    /\ reader' = "closing"
    /\ UNCHANGED <<packet, writeVars, buffer, outbound, sockOpen, clientVars,
                   peer, owing>>
----------------------------------------------------------------------------
(***************************************************************************)
(* handleConnect.                                                          *)
(***************************************************************************)
\* ConnectionService.Connect accepts: the client is built, which starts its
\* keep-alive, and the sink is registered.  A resumed session has subscriptions.
Accept ==
    /\ reader = "connect"
    /\ keepAlive' \in KeepAlives
    /\ subscribed' \in BOOLEAN
    /\ registered' = TRUE
    /\ idle' = 0
    /\ reader' = "connack"
    /\ UNCHANGED <<packet, writeVars, buffer, outbound, closeVars, client, deadline,
                   ticker, silence, waited, overdue, peerVars, owing>>

\* It refuses: a CONNACK with a return code, and nothing is registered.
Refuse ==
    /\ reader = "connect"
    /\ reader' = "connack"
    /\ UNCHANGED <<packet, writeVars, buffer, outbound, closeVars, clientVars, timeVars,
                   peerVars, owing>>

\* It fails with an error.
ConnectFails ==
    /\ reader = "connect"
    /\ Close("network")
    /\ reader' = "closing"
    /\ UNCHANGED <<packet, writeVars, buffer, outbound, sockOpen, clientVars,
                   peerVars, owing>>

\* WritePacket encodes into the Writer's one buffer ...
EncodeConnack ==
    /\ reader = "connack"
    /\ buffer' = "reader"
    /\ reader' = "connackEncoded"
    /\ UNCHANGED <<packet, writeVars, outbound, closeVars, clientVars, timeVars,
                   peerVars, owing>>

\* After a write the buffer matters only to a goroutine that has yet to write it.
BufferAfter(pending) == IF pending THEN buffer ELSE "none"

\* ... and then writes what that buffer holds by now.
WriteConnack ==
    /\ reader = "connackEncoded" /\ sockOpen
    /\ buffer' = BufferAfter(writer \in {"writing", "drainWriting"})
    /\ reader' = IF registered THEN "install" ELSE "closing"
    /\ IF registered THEN StayOpen ELSE Close("protocol")
    /\ UNCHANGED <<packet, writeVars, outbound, sockOpen, clientVars, peerVars, owing>>

\* A reset, WriteTimeout, or somebody has closed the connection.
ConnackFails ==
    /\ reader = "connackEncoded"
    /\ buffer' = BufferAfter(writer \in {"writing", "drainWriting"})
    /\ Close("network")
    /\ reader' = "closing"
    /\ UNCHANGED <<packet, writeVars, outbound, sockOpen, clientVars, peerVars, owing>>

\* Mutant: the loop first looks when a client that never spoke would have expired.
StartTickerLate == IF keepAlive = 0 THEN NoTimer ELSE Timeout

\* keepAliveLoop begins, unless keep-alive is off.
StartTicker == IF keepAlive = 0 THEN NoTimer ELSE Interval

\* c.client is set; what Displaced.Close and ResumeSession do is the subject of
\* Takeover and Delivery.  Back in readLoop the keep-alive loop is started.
Install ==
    /\ reader = "install"
    /\ client' = TRUE
    /\ ticker' = StartTicker
    /\ reader' = "top"
    /\ UNCHANGED <<packet, writeVars, buffer, outbound, closeVars, keepAlive, registered,
                   subscribed, deadline, idle, silence, waited, overdue, peerVars, owing>>
----------------------------------------------------------------------------
(***************************************************************************)
(* dispatch.                                                               *)
(***************************************************************************)
\* Mutant: an answer the queue has no room for is dropped like a message.
AnswerDroppable ==
    /\ reader = "dispatch" /\ packet \in {"subscribe", "request"}
    /\ subscribed' = (subscribed \/ packet = "subscribe")
    /\ owing' = owing + 1
    /\ outbound' = IF CanSend THEN Append(outbound, "answer") ELSE outbound
    /\ reader' = "top" /\ StayOpen
    /\ packet' = "none"
    /\ UNCHANGED <<writeVars, buffer, sockOpen, keepAlive, client, registered,
                   peerVars>>

\* handlePublish, handleSubscribe, handleUnsubscribe and PINGREQ end in send,
\* whose error closes the connection.
Answer ==
    /\ reader = "dispatch" /\ packet \in {"subscribe", "request"}
    /\ subscribed' = (subscribed \/ packet = "subscribe")
    /\ owing' = owing + 1
    /\ \/ /\ CanSend
          /\ outbound' = Append(outbound, "answer")
          /\ reader' = "top" /\ StayOpen
       \/ /\ ~CanSend
          /\ Close("protocol")
          /\ reader' = "closing" /\ UNCHANGED outbound
    /\ packet' = "none"
    /\ UNCHANGED <<writeVars, buffer, sockOpen, keepAlive, client, registered,
                   peerVars>>

DispatchOneway ==
    /\ reader = "dispatch" /\ packet = "oneway"
    /\ reader' = "top" /\ packet' = "none"
    /\ UNCHANGED <<writeVars, buffer, outbound, closeVars, clientVars, timeVars, peerVars,
                   owing>>

DispatchDisconnect ==
    /\ reader = "dispatch" /\ packet = "disconnect"
    /\ Close("disconnect")
    /\ reader' = "top" /\ packet' = "none"
    /\ UNCHANGED <<writeVars, buffer, outbound, sockOpen, clientVars, peerVars,
                   owing>>

\* A second CONNECT, QoS 2, a packet only a server sends, a topic or payload
\* that is refused, an error of the service.
DispatchWrong ==
    /\ reader = "dispatch" /\ packet = "connect"
    /\ Close("protocol")
    /\ reader' = "closing" /\ packet' = "none"
    /\ UNCHANGED <<writeVars, buffer, outbound, sockOpen, clientVars, peerVars,
                   owing>>
----------------------------------------------------------------------------
(***************************************************************************)
(* The end of Serve: Close has returned, wg.Wait, teardown.                *)
(***************************************************************************)
ReaderStops ==
    /\ reader = "closing" /\ Closed /\ ~sockOpen
    /\ reader' = "wait"
    /\ UNCHANGED <<packet, writeVars, buffer, outbound, closeVars, clientVars, timeVars,
                   peerVars, owing>>

\* A CONNACK that failed leaves c.client nil, so the sink stays registered.
Teardown ==
    /\ reader = "wait" /\ writer = "gone"
    /\ registered' = (registered /\ ~client)
    /\ reader' = "ended"
    /\ UNCHANGED <<packet, writeVars, buffer, outbound, closeVars, keepAlive, client,
                   subscribed, timeVars, peerVars, owing>>
----------------------------------------------------------------------------
(***************************************************************************)
(* writeLoop and drainOutbound.                                            *)
(***************************************************************************)
\* Taking a packet from the queue and encoding it.  With done closed as well,
\* select may still choose the queue.
TakeOutbound ==
    /\ writer \in {"select", "draining"} /\ outbound # <<>>
    /\ inHand' = Head(outbound) /\ outbound' = Tail(outbound)
    /\ buffer' = "writer"
    /\ writer' = IF writer = "select" THEN "writing" ELSE "drainWriting"
    /\ UNCHANGED <<reader, packet, closeVars, clientVars, timeVars, peerVars, owing>>

WriteOutbound ==
    /\ writer \in {"writing", "drainWriting"} /\ sockOpen
    /\ owing' = IF inHand = "answer" THEN owing - 1 ELSE owing
    /\ inHand' = "none" /\ buffer' = BufferAfter(reader = "connackEncoded")
    /\ writer' = IF writer = "writing" THEN "select" ELSE "draining"
    /\ UNCHANGED <<reader, packet, outbound, closeVars, clientVars, timeVars, peerVars>>

\* WriteTimeout, a reset, or a socket that is closed already.
WriteFails ==
    /\ writer \in {"writing", "drainWriting"}
    /\ inHand' = "none" /\ buffer' = BufferAfter(reader = "connackEncoded")
    /\ IF writer = "writing"
       THEN Close("network") /\ writer' = "closing"
       ELSE StayOpen /\ writer' = "gone"
    /\ UNCHANGED <<reader, packet, outbound, sockOpen, clientVars, peerVars, owing>>

\* Mutant: the writer only ever waits for its queue.
WriterIgnoresDone ==
    /\ \/ writer = "draining" /\ outbound = <<>>
       \/ writer = "closing" /\ ~sockOpen
    /\ writer' = "gone"
    /\ UNCHANGED <<reader, packet, inHand, buffer, outbound, closeVars, clientVars,
                   timeVars, peerVars, owing>>

WriterStops ==
    /\ \/ writer = "select" /\ Closed /\ writer' = "draining"
       \/ writer = "draining" /\ outbound = <<>> /\ writer' = "gone"
       \/ writer = "closing" /\ ~sockOpen /\ writer' = "gone"
    /\ UNCHANGED <<reader, packet, inHand, buffer, outbound, closeVars, clientVars,
                   timeVars, peerVars, owing>>
----------------------------------------------------------------------------
(***************************************************************************)
(* keepAliveLoop.                                                          *)
(***************************************************************************)
\* Client.IsKeepAliveExpired.
IsKeepAliveExpired == keepAlive # 0 /\ idle > Timeout

KeepAliveTick ==
    /\ ticker = 0 /\ ~Closed
    /\ IF IsKeepAliveExpired
       THEN Close("keepAlive")
       ELSE /\ ticker' = Interval
            /\ UNCHANGED <<reason, deadline, idle, silence, waited, overdue>>
    /\ UNCHANGED <<reader, packet, writeVars, buffer, outbound, sockOpen, clientVars,
                   peerVars, owing>>

\* The listener's Stop cancels the context, and the loop returns; the connection
\* itself may slip past Stop (module Server).
KeepAliveCancelled ==
    /\ ticker # NoTimer /\ ~Closed
    /\ ticker' = NoTimer /\ overdue' = 0
    /\ UNCHANGED <<reader, packet, writeVars, buffer, outbound, closeVars, clientVars,
                   deadline, idle, silence, waited, peerVars, owing>>
----------------------------------------------------------------------------
(***************************************************************************)
(* The client.                                                             *)
(***************************************************************************)
PeerSends(p) ==
    /\ peer = "up" /\ ~Closed /\ Len(inbox) < InboxSize
    /\ inbox' = Append(inbox, p)
    /\ silence' = 0
    /\ UNCHANGED <<reader, packet, writeVars, buffer, outbound, closeVars, clientVars,
                   deadline, ticker, idle, waited, overdue, peer, owing>>

\* It hangs, is cut off without a FIN, or closes its end.
PeerStops ==
    /\ \/ peer = "up" /\ peer' \in {"mute", "gone"}
       \/ peer = "mute" /\ peer' = "gone"
    /\ UNCHANGED <<reader, packet, writeVars, buffer, outbound, closeVars, clientVars,
                   timeVars, inbox, owing>>
----------------------------------------------------------------------------
ReaderStep ==
    \/ AwaitFails \/ AwaitConnect
    \/ Accept \/ Refuse \/ ConnectFails
    \/ EncodeConnack \/ WriteConnack \/ ConnackFails \/ Install
    \/ NextRead \/ StopReading \/ ReadPacket \/ HandleReadError
    \/ Answer \/ DispatchOneway \/ DispatchDisconnect \/ DispatchWrong
    \/ ReaderStops \/ Teardown

WriterStep == TakeOutbound \/ WriteOutbound \/ WriteFails \/ WriterStops

Next ==
    \/ ReaderStep \/ WriterStep \/ KeepAliveTick \/ KeepAliveCancelled
    \/ CloseSocket \/ CloseFromOutside \/ SendPublish \/ Tick
    \/ \E p \in Kind : PeerSends(p)
    \/ PeerStops

(***************************************************************************)
(* Goroutines run, handlers return (they wait for locks, never for a       *)
(* socket), a socket write ends within WriteTimeout, and time passes.      *)
(* Nothing is assumed of the client, nor of those who call Close.          *)
(***************************************************************************)
Fairness ==
    /\ WF_vars(ReaderStep) /\ WF_vars(WriterStep)
    /\ WF_vars(CloseSocket) /\ WF_vars(KeepAliveTick) /\ WF_vars(Tick)

Spec == Init /\ [][Next]_vars /\ Fairness
----------------------------------------------------------------------------
(***************************************************************************)
(* Properties.                                                             *)
(***************************************************************************)
Count(s, x) == Cardinality({i \in 1..Len(s) : s[i] = x})

\* While the connection is open every answer a handler promised is in the queue
\* or in the writer's hand: unlike a message, a PUBACK, SUBACK or PINGRESP is
\* never dropped for want of room (the comment on send).
AnswersKept ==
    ~Closed => owing = Count(outbound, "answer") + (IF inHand = "answer" THEN 1 ELSE 0)

\* A connection is closed for a missed keep-alive only if the client asked for
\* one and has been silent for one and a half of it - or what it sent is still
\* unread, because a handler has kept the reader busy or because it arrived in
\* that very instant.
KeepAliveFair ==
    [][~Closed /\ reason' = "keepAlive" =>
          /\ keepAlive # 0
          /\ silence >= Timeout \/ inbox # <<>>]_vars

\* Silence is noticed in time: no CONNECT within ConnectTimeout, and no packet
\* within one and a half keep-alives of asking for it.  While a handler keeps the
\* reader from asking, the keep-alive loop lets an expired client live for one of
\* its intervals at most, counted from its own start where the handshake has
\* already used up the keep-alive.  The interval is half a keep-alive and never
\* less than a second: a whole one more for a keep-alive of one second.
SilenceNoticed ==
    /\ reader = "await" /\ ConnectTimeout > 0 => waited <= ConnectTimeout
    /\ reader = "read" /\ keepAlive # 0 => waited <= Timeout
    /\ overdue <= Interval

\* Serve returns: after any Close, and for a client that has stopped speaking
\* unless it turned keep-alive off.
ServeEnds ==
    (Closed \/ peer = "gone" \/ (peer = "mute" /\ reader = "read" /\ keepAlive # 0))
        ~> reader = "ended"

\* Whoever has encoded a packet still finds it in the Writer's buffer when it
\* writes: one goroutine at a time uses the Writer, so what reaches the client is
\* packets.
WireIntact ==
    /\ reader = "connackEncoded" => buffer = "reader"
    /\ writer \in {"writing", "drainWriting"} => buffer = "writer"
============================================================================
