------------------------------ MODULE Delivery ------------------------------
(***************************************************************************)
(* QoS 1 delivery to one subscriber that holds a persistent session:       *)
(* PublishingService (pkg/application/publishing/service.go) driving the   *)
(* session aggregate (module Session), the connection's bounded outbound   *)
(* queue and writer goroutine (pkg/infrastructure/transport/connection.go) *)
(* and the subscriber, which disconnects and reconnects.                   *)
(*                                                                         *)
(* Who runs: any number of publishers' reader goroutines, the subscriber's *)
(* own reader goroutine and writer goroutine, the retransmission loop, the *)
(* clock and the peer.  They meet at the session's lock (SessionStore's    *)
(* Update) and at the sink map, which is read OUTSIDE that lock.  A locked *)
(* section that sends more than one packet is a loop here too, one packet  *)
(* per step with the lock held, because the writer drains the outbound     *)
(* queue meanwhile.                                                        *)
(*                                                                         *)
(* The subscriber's connections follow one another; two connections of one *)
(* client that overlap are the subject of module Takeover.                 *)
(***************************************************************************)
EXTENDS Session

CONSTANTS Publishers,          \* connections that publish to the subscriber
          MaxConns,            \* bound: connections the subscriber opens
          OutboundQueueSize,   \* ConnectionConfig.OutboundQueueSize
          PipeSize,            \* bound: PUBACKs the network holds
          RetransmitTimeout    \* argument of RetransmitExpired

ASSUME DeliveryAssumption ==
    /\ MaxConns \in Nat
    /\ OutboundQueueSize \in Nat
    /\ PipeSize \in Nat
    /\ RetransmitTimeout \in Nat

VARIABLES
    sink,       \* the registered sink: a connection, or NoSink
    conn,       \* the latest connection; connections are numbered from 1
    phase,      \* where that connection's reader goroutine is
    open,       \* its done channel is not closed
    outbound,   \* its queue of packets for the writer
    peer,       \* the client's end
    toBroker,   \* PUBACKs on their way to the broker
    pubMsg,     \* the QoS 1 message each publisher is delivering, or NoMsg
    pubSink,    \* the sink it looked up before taking the session's lock
    lock,       \* which locked section is running
    todo,       \* identifiers that section still has to retransmit
    retxSink,   \* the sink the retransmission loop looked up, or NoSink
    retxLate,   \* how long ago that loop read its clock
    published,  \* messages offered so far
    \* history, for the properties only
    owed,       \* QoS 1 messages the broker took responsibility for
    acked,      \* ... and released on a PUBACK
    lost,       \* ... and dropped from the full offline queue
    refused,    \* ... and dropped and counted by deliver, for want of an identifier
    forgotten,  \* ... and dropped by DeliverRetained for the same reason, uncounted
    received    \* messages the client has read

connVars == <<sink, conn, phase, open, peer>>
wireVars == <<outbound, toBroker, received>>
pubVars  == <<pubMsg, pubSink, published>>
retxVars == <<retxSink, retxLate>>
lockVars == <<lock, todo>>
custody  == <<owed, acked, lost, refused, forgotten>>
vars == <<sessionVars, connVars, wireVars, pubVars, retxVars, lockVars, custody>>

NoSink  == 0
Conn    == 1..MaxConns
Packet  == [pid : {0} \cup PacketID, msg : Message, dup : BOOLEAN]
Puback  == [pid : PacketID, msg : Message]   \* msg is what the client acknowledges
Phase   == {"offline", "resolved", "registered", "connacked", "live", "unregistered"}

TypeOK ==
    /\ SessionTypeOK
    /\ sink \in Conn \cup {NoSink}
    /\ conn \in Conn \cup {0}
    /\ phase \in Phase
    /\ open \in BOOLEAN
    /\ outbound \in Seq(Packet)
    /\ peer \in {"none", "waiting", "ready", "gone"}
    /\ toBroker \in Seq(Puback)
    /\ pubMsg \in [Publishers -> Message \cup {NoMsg}]
    /\ pubSink \in [Publishers -> Conn \cup {NoSink}]
    /\ lock \in {"free", "ack", "resume", "draining", "retransmit"}
    /\ todo \in SUBSET PacketID
    /\ retxSink \in Conn \cup {NoSink}
    /\ retxLate \in 0..MaxAge
    /\ published \in Message \cup {0}
    /\ owed \in SUBSET Message
    /\ acked \in SUBSET Message
    /\ lost \in SUBSET Message
    /\ refused \in SUBSET Message
    /\ forgotten \in SUBSET Message
    /\ received \in SUBSET Message

\* The subscriber has subscribed, and disconnected before anything was sent.
Init ==
    /\ connected = FALSE
    /\ NewSession
    /\ sink = NoSink /\ conn = 0 /\ phase = "offline" /\ open = FALSE
    /\ outbound = <<>> /\ peer = "none" /\ toBroker = <<>>
    /\ pubMsg = [p \in Publishers |-> NoMsg]
    /\ pubSink = [p \in Publishers |-> NoSink]
    /\ lock = "free" /\ todo = {}
    /\ retxSink = NoSink /\ retxLate = 0
    /\ published = 0
    /\ owed = {} /\ acked = {} /\ lost = {} /\ refused = {} /\ forgotten = {}
    /\ received = {}
----------------------------------------------------------------------------
(***************************************************************************)
(* Connection.Send never blocks: a closed connection or a full queue is an *)
(* error, and sendPublish only counts it.                                  *)
(***************************************************************************)
Send(s, packet) ==
    outbound' = IF s = conn /\ open /\ Len(outbound) < OutboundQueueSize
                THEN Append(outbound, packet)
                ELSE outbound

\* Allocate an identifier, record the message as in flight, hand it to the
\* writer: the part deliver, promoteQueued and DeliverRetained share.
TrackAndSend(s, m) ==
    \E pid \in PacketID :
        /\ NextPacketID(pid)
        /\ TrackInflight(pid, m)
        /\ Send(s, [pid |-> pid, msg |-> m, dup |-> FALSE])

\* Enqueue, remembering which message a full queue dropped.
Hold(m) ==
    /\ Enqueue(m)
    /\ lost' = IF QueueFull THEN lost \cup {Head(queued)} ELSE lost
----------------------------------------------------------------------------
(***************************************************************************)
(* Publishers.                                                             *)
(***************************************************************************)
\* deliver at QoS 0: no session, no promise.  Losing the connection between
\* the lookup and the send has the same effect as a failed send.
DeliverQoS0 ==
    /\ published < MaxMessages
    /\ published' = published + 1
    /\ Send(sink, [pid |-> 0, msg |-> published + 1, dup |-> FALSE])
    /\ UNCHANGED <<sessionVars, connVars, toBroker, received, pubMsg, pubSink,
                   retxVars, lockVars, custody>>

\* deliver at QoS 1 begins by looking up the subscriber's sink.
LookupSink(p) ==
    /\ pubMsg[p] = NoMsg
    /\ published < MaxMessages
    /\ published' = published + 1
    /\ pubMsg' = [pubMsg EXCEPT ![p] = published + 1]
    /\ pubSink' = [pubSink EXCEPT ![p] = sink]
    /\ UNCHANGED <<sessionVars, connVars, wireVars, retxVars, lockVars, custody>>

\* The rest of deliver runs under the session's lock, with the sink it saw.
Deliver(p) ==
    /\ pubMsg[p] # NoMsg
    /\ lock = "free"
    /\ \/ /\ pubSink[p] = NoSink \/ ~HasInflightCapacity
          /\ Hold(pubMsg[p])
          /\ UNCHANGED <<windowVars, outbound, refused>>
       \/ /\ pubSink[p] # NoSink /\ HasInflightCapacity
          /\ PacketIDsExhausted
          /\ refused' = refused \cup {pubMsg[p]}
          /\ UNCHANGED <<windowVars, queueVars, outbound, lost>>
       \/ /\ pubSink[p] # NoSink /\ HasInflightCapacity
          /\ TrackAndSend(pubSink[p], pubMsg[p])
          /\ UNCHANGED <<queueVars, lost, refused>>
    /\ owed' = owed \cup {pubMsg[p]}
    /\ pubMsg' = [pubMsg EXCEPT ![p] = NoMsg]
    /\ pubSink' = [pubSink EXCEPT ![p] = NoSink]
    /\ UNCHANGED <<connected, connVars, toBroker, received, published, retxVars,
                   lockVars, acked, forgotten>>
----------------------------------------------------------------------------
(***************************************************************************)
(* The subscriber's reader goroutine.                                      *)
(***************************************************************************)
\* ConnectionService.Connect on a stored persistent session.
Connect ==
    /\ phase = "offline" /\ conn < MaxConns
    /\ lock = "free"
    /\ Resume
    /\ conn' = conn + 1 /\ phase' = "resolved"
    /\ open' = TRUE /\ peer' = "waiting"
    /\ outbound' = <<>> /\ toBroker' = <<>>
    /\ UNCHANGED <<windowVars, queueVars, sink, received, pubVars, retxVars,
                   lockVars, custody>>

\* From here on publishers can send, although no CONNACK has been written.
RegisterSink ==
    /\ phase = "resolved"
    /\ sink' = conn /\ phase' = "registered"
    /\ UNCHANGED <<sessionVars, conn, open, peer, wireVars, pubVars, retxVars,
                   lockVars, custody>>

WriteConnack ==
    /\ phase = "registered" /\ open
    /\ phase' = "connacked"
    /\ peer' = IF peer = "waiting" THEN "ready" ELSE peer
    /\ UNCHANGED <<sessionVars, sink, conn, open, wireVars, pubVars, retxVars,
                   lockVars, custody>>

\* handleConnect gives up before it has set c.client, so teardown returns at
\* once: the sink stays registered and the session stays marked connected.
ConnackFails ==
    /\ phase = "registered" /\ peer = "gone"
    /\ phase' = "offline" /\ open' = FALSE
    /\ outbound' = <<>> /\ toBroker' = <<>>
    /\ UNCHANGED <<sessionVars, sink, conn, peer, received, pubVars, retxVars,
                   lockVars, custody>>

\* ResumeSession takes the lock and lists the in-flight messages.
ResumeSession ==
    /\ phase = "connacked" /\ lock = "free"
    /\ lock' = "resume" /\ todo' = InUse
    /\ UNCHANGED <<sessionVars, connVars, wireVars, pubVars, retxVars, custody>>

ResumeRetransmit ==
    /\ lock = "resume"
    /\ \E pid \in PacketID :
          /\ Oldest(todo, pid)
          /\ MarkRetransmitted(pid, 0)
          /\ Send(conn, [pid |-> pid, msg |-> inflight[pid], dup |-> TRUE])
          /\ todo' = todo \ {pid}
    /\ UNCHANGED <<connected, queueVars, connVars, toBroker, received, pubVars,
                   retxVars, lock, custody>>

\* An inbound PUBACK.  The reader's own sink is registered until its own
\* teardown, so the lookup before the lock cannot be stale here.  An unknown
\* identifier is logged and tolerated.
HandlePuback ==
    /\ phase = "live" /\ open /\ lock = "free"
    /\ toBroker # <<>>
    /\ toBroker' = Tail(toBroker)
    /\ LET pid == Head(toBroker).pid IN
          \/ /\ Acknowledge(pid)
             /\ acked' = acked \cup {inflight[pid]}
             /\ lock' = "ack"
          \/ /\ pid \notin InUse
             /\ UNCHANGED <<windowVars, acked, lock>>
    /\ UNCHANGED <<connected, queueVars, connVars, outbound, received, pubVars,
                   retxVars, todo, owed, lost, refused, forgotten>>

\* promoteQueued is called with the lock held, after an acknowledgement and in
\* the loop that follows ResumeSession's retransmissions; there "draining" says
\* that the call in progress has shortened the queue.
Promoting == lock \in {"ack", "resume", "draining"} /\ todo = {}

ReleaseLock ==
    /\ lock' = "free"
    /\ phase' = IF lock = "ack" THEN phase ELSE "live"
    /\ UNCHANGED <<todo, sink, conn, open, peer>>

PromoteQueued ==
    /\ Promoting
    /\ HasInflightCapacity /\ queued # <<>>
    /\ TrackAndSend(conn, Head(queued))
    /\ DrainQueue
    /\ lock' = IF lock = "resume" THEN "draining" ELSE lock
    /\ UNCHANGED <<connected, droppedFromQueue, connVars, toBroker, received,
                   pubVars, retxVars, todo, owed, acked, lost, refused, forgotten>>

\* Mutant: without an identifier the drained message is forgotten.
PromoteForgets ==
    /\ Promoting
    /\ HasInflightCapacity /\ queued # <<>>
    /\ PacketIDsExhausted
    /\ queued' = Tail(queued)
    /\ ReleaseLock
    /\ UNCHANGED <<connected, windowVars, droppedFromQueue, wireVars, pubVars,
                   retxVars, custody>>

\* No identifier: the message goes back, to the end of the queue.  ResumeSession
\* calls promoteQueued again after a call that shortened the queue, unless that
\* call reached ResumeBatchSize.
PromotePutsBack ==
    /\ Promoting
    /\ HasInflightCapacity /\ queued # <<>>
    /\ PacketIDsExhausted
    /\ queued' = Append(Tail(queued), Head(queued))
    /\ \/ ReleaseLock
       \/ /\ lock = "draining" /\ lock' = "resume"
          /\ UNCHANGED <<todo, connVars>>
    /\ UNCHANGED <<connected, windowVars, droppedFromQueue, wireVars, pubVars,
                   retxVars, custody>>

\* A full window or an empty queue: calling it again would change nothing.
PromoteEnds ==
    /\ Promoting
    /\ ~HasInflightCapacity \/ queued = <<>>
    /\ ReleaseLock
    /\ UNCHANGED <<sessionVars, wireVars, pubVars, retxVars, custody>>

\* A SUBSCRIBE from this client makes its reader deliver a retained message.
\* The identifier is taken before the window is checked, and without one the
\* update returns at once: the message is neither sent, queued nor counted.
DeliverRetained ==
    /\ phase = "live" /\ open /\ lock = "free"
    /\ published < MaxMessages
    /\ LET m == published + 1 IN
          /\ \/ /\ PacketIDsExhausted
                /\ forgotten' = forgotten \cup {m}
                /\ UNCHANGED <<windowVars, queueVars, outbound, lost>>
             \/ /\ TrackAndSend(conn, m)
                /\ UNCHANGED <<queueVars, lost, forgotten>>
             \/ /\ ~HasInflightCapacity
                /\ \E pid \in PacketID : NextPacketID(pid)
                /\ Hold(m)
                /\ UNCHANGED <<inflight, sentAge, outbound, forgotten>>
          /\ owed' = owed \cup {m}
    /\ published' = published + 1
    /\ UNCHANGED <<connected, connVars, toBroker, received, pubMsg, pubSink,
                   retxVars, lockVars, acked, refused>>

\* teardown, once the read loop has noticed that the connection is closed.
UnregisterSink ==
    /\ phase = "live" /\ ~open /\ lock # "ack"
    /\ sink' = IF sink = conn THEN NoSink ELSE sink
    /\ phase' = "unregistered"
    /\ outbound' = <<>> /\ toBroker' = <<>>
    /\ UNCHANGED <<sessionVars, conn, open, peer, received, pubVars, retxVars,
                   lockVars, custody>>

MarkDisconnected ==
    /\ phase = "unregistered" /\ lock = "free"
    /\ Disconnect
    /\ phase' = "offline"
    /\ UNCHANGED <<sink, conn, open, peer, wireVars, pubVars, retxVars,
                   lockVars, custody>>
----------------------------------------------------------------------------
(***************************************************************************)
(* The writer goroutine, the peer, and the ways a connection ends.         *)
(***************************************************************************)
\* The client answers a QoS 1 PUBLISH with a PUBACK as it reads it.  A client
\* still waiting for its CONNACK takes any other packet for a broken broker.
WriteLoop ==
    /\ open /\ outbound # <<>>
    /\ LET packet == Head(outbound) IN
          \/ /\ peer = "ready" /\ packet.pid # 0
             /\ Len(toBroker) < PipeSize
             /\ toBroker' = Append(toBroker, [pid |-> packet.pid, msg |-> packet.msg])
             /\ received' = received \cup {packet.msg}
             /\ UNCHANGED peer
          \/ /\ peer = "ready" /\ packet.pid = 0
             /\ received' = received \cup {packet.msg}
             /\ UNCHANGED <<toBroker, peer>>
          \/ /\ peer \in {"waiting", "gone"}
             /\ peer' = "gone"
             /\ UNCHANGED <<toBroker, received>>
    /\ outbound' = Tail(outbound)
    /\ UNCHANGED <<sessionVars, sink, conn, phase, open, pubVars, retxVars,
                   lockVars, custody>>

\* The client crashes, or the network between them fails.
PeerGone ==
    /\ peer \in {"waiting", "ready"}
    /\ peer' = "gone"
    /\ UNCHANGED <<sessionVars, sink, conn, phase, open, wireVars, pubVars,
                   retxVars, lockVars, custody>>

\* Close: by the writer on a failed write, or once the client is set up by the
\* reader on a read error or by the keep-alive loop.  It closes the socket, so
\* what the writer then drains from the queue reaches nobody.
Close ==
    /\ open /\ peer = "gone"
    /\ \/ phase = "live"
       \/ phase \in {"registered", "connacked"} /\ outbound # <<>>
    /\ open' = FALSE
    /\ outbound' = <<>>
    /\ UNCHANGED <<sessionVars, sink, conn, phase, peer, toBroker, received,
                   pubVars, retxVars, lockVars, custody>>
----------------------------------------------------------------------------
(***************************************************************************)
(* The retransmission loop and the clock.                                  *)
(***************************************************************************)
\* RetransmitExpired reads the clock, the connected flag and the sink without
\* the session's lock.
RetransmitScan ==
    /\ retxSink = NoSink
    /\ connected /\ sink # NoSink
    /\ retxSink' = sink /\ retxLate' = 0
    /\ UNCHANGED <<sessionVars, connVars, wireVars, pubVars, lockVars, custody>>

RetransmitExpired ==
    /\ retxSink # NoSink /\ lock = "free"
    /\ lock' = "retransmit"
    /\ todo' = ExpiredInflight(RetransmitTimeout, retxLate)
    /\ UNCHANGED <<sessionVars, connVars, wireVars, pubVars, retxVars, custody>>

\* Mutant: the copy goes out under a new identifier that nobody recorded.
RetransmitRenumbered ==
    /\ lock = "retransmit"
    /\ \E pid \in PacketID :
          /\ Oldest(todo, pid)
          /\ MarkRetransmitted(pid, retxLate)
          /\ Send(retxSink, [pid |-> nextPacketID, msg |-> inflight[pid], dup |-> TRUE])
          /\ todo' = todo \ {pid}
    /\ UNCHANGED <<connected, queueVars, connVars, toBroker, received, pubVars,
                   retxVars, lock, custody>>

RetransmitOne ==
    /\ lock = "retransmit"
    /\ \E pid \in PacketID :
          /\ Oldest(todo, pid)
          /\ MarkRetransmitted(pid, retxLate)
          /\ Send(retxSink, [pid |-> pid, msg |-> inflight[pid], dup |-> TRUE])
          /\ todo' = todo \ {pid}
    /\ UNCHANGED <<connected, queueVars, connVars, toBroker, received, pubVars,
                   retxVars, lock, custody>>

RetransmitEnds ==
    /\ lock = "retransmit" /\ todo = {}
    /\ lock' = "free"
    /\ retxSink' = NoSink /\ retxLate' = 0
    /\ UNCHANGED <<sessionVars, connVars, wireVars, pubVars, todo, custody>>

Tick ==
    /\ AgeInflight
    /\ retxSink # NoSink => retxLate < MaxAge
    /\ retxLate' = IF retxSink # NoSink THEN retxLate + 1 ELSE retxLate
    /\ UNCHANGED <<connected, queueVars, connVars, wireVars, pubVars, retxSink,
                   lockVars, custody>>
----------------------------------------------------------------------------
Reader ==
    \/ Connect \/ RegisterSink \/ WriteConnack \/ ConnackFails
    \/ ResumeSession \/ ResumeRetransmit
    \/ HandlePuback \/ PromoteQueued \/ PromotePutsBack \/ PromoteEnds
    \/ DeliverRetained \/ UnregisterSink \/ MarkDisconnected

Retransmitter ==
    RetransmitScan \/ RetransmitExpired \/ RetransmitOne \/ RetransmitEnds

Next ==
    \/ DeliverQoS0
    \/ \E p \in Publishers : LookupSink(p) \/ Deliver(p)
    \/ Reader
    \/ WriteLoop \/ PeerGone \/ Close
    \/ Retransmitter \/ Tick

Spec == Init /\ [][Next]_vars
----------------------------------------------------------------------------
(***************************************************************************)
(* Safety.                                                                 *)
(***************************************************************************)
InflightMessages == {inflight[p] : p \in InUse}
QueuedMessages   == {queued[i] : i \in 1..Len(queued)}

\* Messages the broker has given up.
GivenUp == lost \cup refused \cup forgotten

\* Flow control: whatever deliver, promoteQueued and DeliverRetained do in
\* whatever order, the window and the offline queue keep to their limits, and a
\* window below the number of identifiers never leaves a message without one:
\* deliver's counted drop needs a larger window, DeliverRetained's uncounted
\* one a window at least as large (the code checks only that it is positive).
WindowBounds ==
    /\ Cardinality(InUse) <= MaxInflight
    /\ Len(queued) <= MaxQueued
    /\ MaxInflight <= MaxPacketID => refused = {}
    /\ MaxInflight < MaxPacketID => forgotten = {}

\* Where a message can go: every QoS 1 message the broker took responsibility
\* for is acknowledged, in flight, queued, or was given up in one of three
\* places - pushed out of a full queue, which droppedFromQueue counts one for
\* one, refused by deliver, which counts it too, or a retained message that
\* DeliverRetained found no identifier for and does NOT count.  Reconnects,
\* failed CONNACKs, put-backs and retransmissions lose nothing.
Custody ==
    /\ owed = acked \cup GivenUp \cup InflightMessages \cup QueuedMessages
    /\ droppedFromQueue = Cardinality(lost)

\* ... and it is in one place only: never queued and in flight at once, never
\* under two identifiers, never kept after its PUBACK.
SingleCustody ==
    /\ \A p, q \in InUse : inflight[p] = inflight[q] => p = q
    /\ \A i, j \in 1..Len(queued) : queued[i] = queued[j] => i = j
    /\ InflightMessages \cap QueuedMessages = {}
    /\ (acked \cup GivenUp) \cap (InflightMessages \cup QueuedMessages) = {}

\* The in-flight record of a PUBLISH exists before its PUBACK can arrive: a
\* packet on its way out is in flight under its identifier, or acknowledged
\* already.  A retransmitting section only lists messages still in flight.
SentIsTracked ==
    /\ \A i \in 1..Len(outbound) :
          LET packet == outbound[i] IN
          packet.pid # 0 => \/ inflight[packet.pid] = packet.msg
                            \/ packet.msg \in acked
    /\ todo \subseteq InUse

\* QoS 1 is at least once: what the client has not received is still held for
\* it, unless it was given up as Custody says.  A late PUBACK must not release
\* the next message under the same identifier.
AtLeastOnce ==
    owed \ (received \cup GivenUp) \subseteq InflightMessages \cup QueuedMessages

\* The session as the channel it is meant to be: which identifier a message is
\* in flight under, and whether it is in flight or queued, does not show.
Ch == INSTANCE Channel WITH
        offered  <- owed,
        held     <- InflightMessages \cup QueuedMessages,
        received <- received \cap owed,
        dropped  <- GivenUp,
        Room     <- IF MaxQueued < MaxPacketID THEN MaxQueued ELSE MaxPacketID,
        Limit    <- MaxInflight + MaxQueued

\* Seen from outside, deliver, promoteQueued, DeliverRetained, HandlePuback,
\* retransmission and reconnecting add up to a channel that holds a message until
\* it is received and acknowledged, and drops one only when it is full.
ImplementsChannel == Ch!ChannelSpec

\* deliver queues a message when the client is offline or its window is full:
\* with the client there, its backlog resumed, nobody mid-delivery and room in
\* the window, nothing is left in the queue.
NothingStranded ==
    /\ phase = "live" /\ open /\ lock = "free"
    /\ \A p \in Publishers : pubMsg[p] = NoMsg
    /\ HasInflightCapacity
    => queued = <<>>
----------------------------------------------------------------------------
(***************************************************************************)
(* Liveness.  The goroutines keep running and the retransmission ticker    *)
(* keeps ticking (weak fairness); a goroutine waiting for the session's    *)
(* mutex gets it in the end, which Go's mutex promises even under          *)
(* contention (strong fairness where the lock is taken).  Nothing is       *)
(* assumed of publishers, of reconnecting, or of the peer staying.         *)
(***************************************************************************)
Fairness ==
    /\ WF_vars(WriteLoop)
    /\ WF_vars(ResumeRetransmit)
    /\ WF_vars(PromoteQueued) /\ WF_vars(PromotePutsBack) /\ WF_vars(PromoteEnds)
    /\ SF_vars(HandlePuback)
    /\ WF_vars(RetransmitScan) /\ SF_vars(RetransmitExpired)
    /\ WF_vars(RetransmitOne) /\ WF_vars(RetransmitEnds)
    /\ WF_vars(Tick)

FairSpec == Spec /\ Fairness

\* A PUBLISH the full outbound queue refused is retransmitted until it is
\* acknowledged: on a connection that stays up the window drains, once the
\* publishers have stopped (the messages of the model are finitely many).
WindowDrains ==
    <>[](phase = "live" /\ peer = "ready") => <>[](InUse = {})
============================================================================
