--------------------------- MODULE DeliveryProofs ---------------------------
(***************************************************************************)
(* Theorems about Delivery, for every value of its constants: first what   *)
(* the session keeps (types, the window, the queue, custody), then what it *)
(* puts on the wire: a PUBLISH is recorded before it can be answered, no   *)
(* message is released unseen while no identifier is reused under an       *)
(* answer, and a session is then the channel of module Channel.            *)
(***************************************************************************)
EXTENDS Delivery, FiniteSetTheorems, TLAPS

\* The assumptions on the constants and the tuples that frame conditions are
\* written with are visible in every proof below.
USE SessionAssumption, DeliveryAssumption
    DEF SessionAssumption, DeliveryAssumption,
        sessionVars, windowVars, queueVars, connVars, wireVars, pubVars,
        retxVars, lockVars, custody
----------------------------------------------------------------------------
(***************************************************************************)
(* Types of what the building blocks assign.                               *)
(***************************************************************************)
\* Advancing the cursor wraps inside the identifier space.
LEMMA CandidateType ==
    ASSUME nextPacketID \in PacketID, NEW k \in 0..MaxPacketID
    PROVE  Candidate(k) \in PacketID
BY DEF Candidate, PacketID

\* The scan of NextPacketID returns an identifier and leaves the cursor on one.
LEMMA NextPacketIDType ==
    ASSUME nextPacketID \in PacketID, NEW pid, NextPacketID(pid)
    PROVE  pid \in PacketID /\ nextPacketID' \in PacketID
<1>1. PICK k \in 0..(MaxPacketID - 1) :
         pid = Candidate(k) /\ nextPacketID' = Candidate(k + 1)
  BY DEF NextPacketID
<1>2. k \in 0..MaxPacketID /\ k + 1 \in 0..MaxPacketID
  OBVIOUS
<1> QED BY <1>1, <1>2, CandidateType

\* A PUBLISH built from typed parts is a packet.
LEMMA PacketType ==
    ASSUME NEW pid \in PacketID \cup {0}, NEW m \in Message, NEW d \in BOOLEAN
    PROVE  [pid |-> pid, msg |-> m, dup |-> d] \in Packet
BY DEF Packet

\* Connection.Send keeps the outbound queue a sequence of packets.
LEMMA SendType ==
    ASSUME outbound \in Seq(Packet), NEW s, NEW packet \in Packet,
           Send(s, packet)
    PROVE  outbound' \in Seq(Packet)
BY DEF Send

\* Allocating, recording and sending keeps the window and the queue typed.
LEMMA TrackAndSendType ==
    ASSUME TypeOK, NEW s, NEW m \in Message, TrackAndSend(s, m)
    PROVE  /\ inflight' \in [PacketID -> Message \cup {NoMsg}]
           /\ sentAge' \in [PacketID -> 0..MaxAge]
           /\ nextPacketID' \in PacketID
           /\ outbound' \in Seq(Packet)
<1>1. PICK pid \in PacketID :
         /\ NextPacketID(pid)
         /\ TrackInflight(pid, m)
         /\ Send(s, [pid |-> pid, msg |-> m, dup |-> FALSE])
  BY DEF TrackAndSend
<1>2. [pid |-> pid, msg |-> m, dup |-> FALSE] \in Packet
  BY PacketType
<1>3. outbound' \in Seq(Packet)
  BY <1>1, <1>2, SendType DEF TypeOK
<1>4. nextPacketID' \in PacketID
  BY <1>1, NextPacketIDType DEF TypeOK, SessionTypeOK
<1>5. /\ inflight' \in [PacketID -> Message \cup {NoMsg}]
      /\ sentAge' \in [PacketID -> 0..MaxAge]
  BY <1>1 DEF TrackInflight, TypeOK, SessionTypeOK
<1> QED BY <1>3, <1>4, <1>5

\* Holding a message back keeps the queue typed; what a full queue drops is
\* its oldest message.
LEMMA HoldType ==
    ASSUME TypeOK, NEW m \in Message, Hold(m)
    PROVE  /\ queued' \in Seq(Message)
           /\ droppedFromQueue' \in Nat
           /\ lost' \in SUBSET Message
<1>1. QueueFull => queued # <<>> /\ Head(queued) \in Message /\ Tail(queued) \in Seq(Message)
  BY DEF QueueFull, TypeOK, SessionTypeOK
<1> QED BY <1>1 DEF Hold, Enqueue, TypeOK, SessionTypeOK

\* A retransmission restamps the message and may queue a copy of it.
LEMMA RetransmissionType ==
    ASSUME TypeOK, NEW s, NEW pid \in InUse, NEW age \in 0..MaxAge,
           MarkRetransmitted(pid, age),
           Send(s, [pid |-> pid, msg |-> inflight[pid], dup |-> TRUE])
    PROVE  /\ inflight' \in [PacketID -> Message \cup {NoMsg}]
           /\ sentAge' \in [PacketID -> 0..MaxAge]
           /\ nextPacketID' \in PacketID
           /\ outbound' \in Seq(Packet)
<1>1. pid \in PacketID /\ inflight[pid] \in Message
  BY DEF InUse, TypeOK, SessionTypeOK
<1>2. [pid |-> pid, msg |-> inflight[pid], dup |-> TRUE] \in Packet
  BY <1>1, PacketType
<1>3. outbound' \in Seq(Packet)
  BY <1>2, SendType DEF TypeOK
<1> QED BY <1>1, <1>3 DEF MarkRetransmitted, TypeOK, SessionTypeOK
----------------------------------------------------------------------------
(***************************************************************************)
(* Types.  TypeOK alone is not inductive: a retransmitting section sends   *)
(* the message recorded under each identifier on its list, so the list     *)
(* must name identifiers in flight, and no other section may run between.  *)
(***************************************************************************)
LockInv ==
    /\ todo \subseteq InUse
    /\ lock \in {"free", "ack"} => todo = {}

TypeInv == TypeOK /\ LockInv

\* TrackAndSend only adds an identifier in flight.
LEMMA TrackKeepsInUse ==
    ASSUME TypeOK, NEW s, NEW m \in Message, TrackAndSend(s, m)
    PROVE  InUse \subseteq InUse'
<1>1. PICK pid \in PacketID : TrackInflight(pid, m)
  BY DEF TrackAndSend
<1> QED BY <1>1 DEF TrackInflight, InUse, TypeOK, SessionTypeOK, Message, NoMsg

\* The locked part of deliver, at each of its three outcomes.
LEMMA DeliverType ==
    ASSUME TypeInv, NEW p \in Publishers, Deliver(p)
    PROVE  TypeInv'
<1> USE DEF TypeInv
<1>1. pubMsg[p] \in Message
  BY DEF Deliver, TypeOK, NoMsg
<1>2. /\ pubMsg' \in [Publishers -> Message \cup {NoMsg}]
      /\ pubSink' \in [Publishers -> Conn \cup {NoSink}]
      /\ owed' \in SUBSET Message
  BY <1>1 DEF Deliver, TypeOK
<1>3. CASE /\ Hold(pubMsg[p])
           /\ UNCHANGED <<windowVars, outbound, refused>>
  <2>1. SessionTypeOK' /\ lost' \in SUBSET Message
    BY <1>1, <1>3, HoldType DEF Deliver, TypeOK, SessionTypeOK
  <2>2. LockInv'
    BY <1>3 DEF Deliver, LockInv, InUse
  <2> QED BY <1>2, <1>3, <2>1, <2>2 DEF Deliver, TypeOK
<1>4. CASE /\ refused' = refused \cup {pubMsg[p]}
           /\ UNCHANGED <<windowVars, queueVars, outbound, lost>>
  <2>1. SessionTypeOK' /\ refused' \in SUBSET Message
    BY <1>1, <1>4 DEF Deliver, TypeOK, SessionTypeOK
  <2>2. LockInv'
    BY <1>4 DEF Deliver, LockInv, InUse
  <2> QED BY <1>2, <1>4, <2>1, <2>2 DEF Deliver, TypeOK
<1>5. CASE /\ TrackAndSend(pubSink[p], pubMsg[p])
           /\ UNCHANGED <<queueVars, lost, refused>>
  <2>1. SessionTypeOK' /\ outbound' \in Seq(Packet)
    BY <1>1, <1>5, TrackAndSendType DEF Deliver, TypeOK, SessionTypeOK
  <2>2. LockInv'
    BY <1>1, <1>5, TrackKeepsInUse DEF Deliver, LockInv
  <2> QED BY <1>2, <1>5, <2>1, <2>2 DEF Deliver, TypeOK
<1> QED BY <1>3, <1>4, <1>5 DEF Deliver

\* DeliverRetained, at each of its three outcomes.
LEMMA DeliverRetainedType ==
    ASSUME TypeInv, DeliverRetained
    PROVE  TypeInv'
<1> USE DEF TypeInv
<1> DEFINE m == published + 1
<1>1. m \in Message /\ published' \in Message \cup {0} /\ owed' \in SUBSET Message
  BY DEF DeliverRetained, TypeOK, Message
<1> HIDE DEF m
<1>2. CASE /\ forgotten' = forgotten \cup {m}
           /\ UNCHANGED <<windowVars, queueVars, outbound, lost>>
  <2>1. SessionTypeOK' /\ forgotten' \in SUBSET Message
    BY <1>1, <1>2 DEF DeliverRetained, TypeOK, SessionTypeOK
  <2>2. LockInv'
    BY <1>2 DEF DeliverRetained, LockInv, InUse
  <2> QED BY <1>1, <1>2, <2>1, <2>2 DEF DeliverRetained, TypeOK
<1>3. CASE /\ TrackAndSend(conn, m)
           /\ UNCHANGED <<queueVars, lost, forgotten>>
  <2>1. SessionTypeOK' /\ outbound' \in Seq(Packet)
    BY <1>1, <1>3, TrackAndSendType DEF DeliverRetained, TypeOK, SessionTypeOK
  <2>2. LockInv'
    BY <1>1, <1>3, TrackKeepsInUse DEF DeliverRetained, LockInv
  <2> QED BY <1>1, <1>3, <2>1, <2>2 DEF DeliverRetained, TypeOK
<1>4. CASE /\ \E pid \in PacketID : NextPacketID(pid)
           /\ Hold(m)
           /\ UNCHANGED <<inflight, sentAge, outbound, forgotten>>
  <2>1. nextPacketID' \in PacketID
    BY <1>4, NextPacketIDType DEF TypeOK, SessionTypeOK
  <2>2. SessionTypeOK' /\ lost' \in SUBSET Message
    BY <1>1, <1>4, <2>1, HoldType DEF DeliverRetained, TypeOK, SessionTypeOK
  <2>3. LockInv'
    BY <1>4 DEF DeliverRetained, LockInv, InUse
  <2> QED BY <1>1, <1>4, <2>2, <2>3 DEF DeliverRetained, TypeOK
<1> QED BY <1>2, <1>3, <1>4 DEF DeliverRetained, m

\* Actions that send a queued message or a retransmission under the lock.
LEMMA LockedSendType ==
    ASSUME TypeInv, ResumeRetransmit \/ RetransmitOne \/ PromoteQueued
    PROVE  TypeInv'
<1> USE DEF TypeInv
<1>1. CASE ResumeRetransmit
  <2>1. PICK pid \in PacketID :
           /\ pid \in todo
           /\ MarkRetransmitted(pid, 0)
           /\ Send(conn, [pid |-> pid, msg |-> inflight[pid], dup |-> TRUE])
           /\ todo' = todo \ {pid}
    BY <1>1 DEF ResumeRetransmit, Oldest
  <2>2. pid \in InUse /\ 0 \in 0..MaxAge
    BY <2>1 DEF LockInv
  <2>3. SessionTypeOK' /\ outbound' \in Seq(Packet)
    BY <1>1, <2>1, <2>2, RetransmissionType
       DEF ResumeRetransmit, TypeOK, SessionTypeOK
  <2>4. LockInv'
    BY <1>1, <2>1 DEF ResumeRetransmit, MarkRetransmitted, LockInv, InUse
  <2> QED BY <1>1, <2>1, <2>3, <2>4 DEF ResumeRetransmit, TypeOK
<1>2. CASE RetransmitOne
  <2>1. PICK pid \in PacketID :
           /\ pid \in todo
           /\ MarkRetransmitted(pid, retxLate)
           /\ Send(retxSink, [pid |-> pid, msg |-> inflight[pid], dup |-> TRUE])
           /\ todo' = todo \ {pid}
    BY <1>2 DEF RetransmitOne, Oldest
  <2>2. pid \in InUse /\ retxLate \in 0..MaxAge
    BY <2>1 DEF LockInv, TypeOK
  <2>3. SessionTypeOK' /\ outbound' \in Seq(Packet)
    BY <1>2, <2>1, <2>2, RetransmissionType
       DEF RetransmitOne, TypeOK, SessionTypeOK
  <2>4. LockInv'
    BY <1>2, <2>1 DEF RetransmitOne, MarkRetransmitted, LockInv, InUse
  <2> QED BY <1>2, <2>1, <2>3, <2>4 DEF RetransmitOne, TypeOK
<1>3. CASE PromoteQueued
  <2>1. Head(queued) \in Message /\ Tail(queued) \in Seq(Message)
    BY <1>3 DEF PromoteQueued, TypeOK, SessionTypeOK
  <2>2. SessionTypeOK' /\ outbound' \in Seq(Packet)
    BY <1>3, <2>1, TrackAndSendType
       DEF PromoteQueued, DrainQueue, TypeOK, SessionTypeOK
  <2>3. LockInv'
    BY <1>3, <2>1, TrackKeepsInUse DEF PromoteQueued, LockInv
  <2> QED BY <1>3, <2>2, <2>3 DEF PromoteQueued, TypeOK
<1> QED BY <1>1, <1>2, <1>3

\* The inbound PUBACK, and the two ways promoteQueued ends.
LEMMA AckType ==
    ASSUME TypeInv, HandlePuback \/ PromotePutsBack \/ PromoteEnds
    PROVE  TypeInv'
<1> USE DEF TypeInv
<1>1. CASE HandlePuback
  <2> DEFINE pid == Head(toBroker).pid
  <2>0. Head(toBroker) \in Puback /\ toBroker' \in Seq(Puback) /\ todo = {}
    BY <1>1 DEF HandlePuback, TypeOK, LockInv
  <2>1. pid \in PacketID /\ toBroker' \in Seq(Puback) /\ todo = {}
    BY <2>0 DEF Puback
  <2> HIDE DEF pid
  <2>2. CASE Acknowledge(pid) /\ acked' = acked \cup {inflight[pid]} /\ lock' = "ack"
    <3>1. inflight[pid] \in Message
      BY <2>1, <2>2 DEF Acknowledge, InUse, TypeOK, SessionTypeOK
    <3>2. SessionTypeOK' /\ acked' \in SUBSET Message
      BY <1>1, <2>1, <2>2, <3>1
         DEF HandlePuback, Acknowledge, TypeOK, SessionTypeOK
    <3> QED BY <1>1, <2>1, <2>2, <3>2 DEF HandlePuback, TypeOK, LockInv
  <2>3. CASE UNCHANGED <<windowVars, acked, lock>>
    BY <1>1, <2>1, <2>3
       DEF HandlePuback, TypeOK, SessionTypeOK, LockInv
  <2> QED BY <1>1, <2>2, <2>3 DEF HandlePuback, pid
<1>2. CASE PromotePutsBack
  <2>1. queued' \in Seq(Message)
    BY <1>2 DEF PromotePutsBack, TypeOK, SessionTypeOK
  <2>2. SessionTypeOK' /\ LockInv'
    BY <1>2, <2>1 DEF PromotePutsBack, Promoting, ReleaseLock, TypeOK,
       SessionTypeOK, LockInv, InUse
  <2> QED BY <1>2, <2>2 DEF PromotePutsBack, ReleaseLock, TypeOK, Phase
<1>3. CASE PromoteEnds
  <2>1. SessionTypeOK' /\ LockInv'
    BY <1>3 DEF PromoteEnds, Promoting, ReleaseLock, TypeOK, SessionTypeOK,
       LockInv, InUse
  <2> QED BY <1>3, <2>1 DEF PromoteEnds, ReleaseLock, TypeOK, Phase
<1> QED BY <1>1, <1>2, <1>3

\* Actions that leave the window alone.
Quiet ==
    \/ Connect \/ RegisterSink \/ WriteConnack \/ ConnackFails
    \/ UnregisterSink \/ MarkDisconnected
    \/ PeerGone \/ Close
    \/ RetransmitScan \/ RetransmitEnds

\* They keep the types: connection state only moves between its phases.
LEMMA QuietType ==
    ASSUME TypeInv, Quiet
    PROVE  TypeInv'
<1> USE DEF TypeInv, TypeOK, SessionTypeOK, LockInv, InUse
<1>1. CASE Connect
  BY <1>1 DEF Connect, Resume, Conn, Phase
<1>2. CASE RegisterSink
  BY <1>2 DEF RegisterSink, Phase, NoSink
<1>3. CASE WriteConnack
  BY <1>3 DEF WriteConnack, Phase
<1>4. CASE ConnackFails
  <2>1. open' \in BOOLEAN
    BY <1>4, Zenon DEF ConnackFails
  <2> QED BY <1>4, <2>1 DEF ConnackFails, Phase
<1>5. CASE UnregisterSink
  BY <1>5 DEF UnregisterSink, Phase
<1>6. CASE MarkDisconnected
  BY <1>6 DEF MarkDisconnected, Disconnect, Phase
<1>7. CASE PeerGone
  BY <1>7 DEF PeerGone
<1>8. CASE Close
  <2>1. open' \in BOOLEAN
    BY <1>8, Zenon DEF Close
  <2> QED BY <1>8, <2>1 DEF Close
<1>9. CASE RetransmitScan
  BY <1>9 DEF RetransmitScan
<1>10. CASE RetransmitEnds
  BY <1>10 DEF RetransmitEnds
<1> QED BY <1>1, <1>2, <1>3, <1>4, <1>5, <1>6, <1>7, <1>8, <1>9, <1>10 DEF Quiet

\* The remaining actions, one lemma for the whole step.
LEMMA TypeStep == TypeInv /\ [Next]_vars => TypeInv'
<1> SUFFICES ASSUME TypeInv, [Next]_vars PROVE TypeInv'
  OBVIOUS
<1>1. CASE DeliverQoS0
  <2>1. published + 1 \in Message
    BY <1>1 DEF DeliverQoS0, TypeInv, TypeOK, Message
  <2>2. [pid |-> 0, msg |-> published + 1, dup |-> FALSE] \in Packet
    BY <2>1, PacketType
  <2>3. outbound' \in Seq(Packet)
    BY <1>1, <2>2, SendType DEF DeliverQoS0, TypeInv, TypeOK
  <2> QED BY <1>1, <2>1, <2>3
          DEF DeliverQoS0, TypeInv, TypeOK, SessionTypeOK, LockInv, InUse
<1>2. ASSUME NEW p \in Publishers, LookupSink(p) PROVE TypeInv'
  BY <1>2, SMTT(60) DEF LookupSink, TypeInv, TypeOK, SessionTypeOK, LockInv, InUse, Message
<1>3. ASSUME NEW p \in Publishers, Deliver(p) PROVE TypeInv'
  BY <1>3, DeliverType
<1>4. CASE ResumeSession
  BY <1>4 DEF ResumeSession, TypeInv, TypeOK, SessionTypeOK, LockInv, InUse
<1>5. CASE RetransmitExpired
  BY <1>5 DEF RetransmitExpired, ExpiredInflight, TypeInv, TypeOK, SessionTypeOK,
              LockInv, InUse
<1>6. CASE WriteLoop
  <2>1. Head(outbound) \in Packet /\ outbound' \in Seq(Packet)
    BY <1>6 DEF WriteLoop, TypeInv, TypeOK
  <2>2. Head(outbound).msg \in Message /\ Head(outbound).pid \in {0} \cup PacketID
    BY <2>1 DEF Packet
  <2>3. Head(outbound).pid # 0 =>
          [pid |-> Head(outbound).pid, msg |-> Head(outbound).msg] \in Puback
    BY <2>2 DEF Puback
  <2>4. toBroker' \in Seq(Puback)
    <3> DEFINE ack == [pid |-> Head(outbound).pid, msg |-> Head(outbound).msg]
    <3>1. \/ Head(outbound).pid # 0 /\ toBroker' = Append(toBroker, ack)
          \/ toBroker' = toBroker
      BY <1>6 DEF WriteLoop
    <3>2. Head(outbound).pid # 0 => ack \in Puback
      BY <2>3
    <3>3. toBroker \in Seq(Puback)
      BY DEF TypeInv, TypeOK
    <3> HIDE DEF ack
    <3>4. CASE Head(outbound).pid # 0 /\ toBroker' = Append(toBroker, ack)
      BY <3>2, <3>3, <3>4
    <3>5. CASE toBroker' = toBroker
      BY <3>3, <3>5
    <3> QED BY <3>1, <3>4, <3>5
  <2>5. received' \in SUBSET Message /\ peer' \in {"none", "waiting", "ready", "gone"}
    BY <1>6, <2>2 DEF WriteLoop, TypeInv, TypeOK
  <2> QED BY <1>6, <2>1, <2>4, <2>5
          DEF WriteLoop, TypeInv, TypeOK, SessionTypeOK, LockInv, InUse
<1>7. CASE Tick
  BY <1>7 DEF Tick, AgeInflight, TypeInv, TypeOK, SessionTypeOK, LockInv, InUse
<1>8. CASE Quiet
  BY <1>8, QuietType
<1>9. CASE ResumeRetransmit \/ RetransmitOne \/ PromoteQueued
  BY <1>9, LockedSendType
<1>10. CASE HandlePuback \/ PromotePutsBack \/ PromoteEnds
  BY <1>10, AckType
<1>11. CASE DeliverRetained
  BY <1>11, DeliverRetainedType
<1>12. CASE UNCHANGED vars
  BY <1>12 DEF vars, TypeInv, TypeOK, SessionTypeOK, LockInv, InUse
<1> QED BY <1>1, <1>2, <1>3, <1>4, <1>5, <1>6, <1>7, <1>8, <1>9, <1>10, <1>11, <1>12
        DEF Next, Reader, Retransmitter, Quiet

\* The stored session of a subscriber that is away is well typed.
LEMMA TypeInit == Init => TypeInv
<1> SUFFICES ASSUME Init PROVE TypeInv
  OBVIOUS
<1>1. connected \in BOOLEAN /\ open \in BOOLEAN
  BY Zenon DEF Init
<1>2. SessionTypeOK
  BY <1>1 DEF Init, NewSession, SessionTypeOK, PacketID
<1>3. /\ sink \in Conn \cup {NoSink} /\ conn \in Conn \cup {0}
      /\ outbound \in Seq(Packet) /\ toBroker \in Seq(Puback)
      /\ pubMsg \in [Publishers -> Message \cup {NoMsg}]
      /\ pubSink \in [Publishers -> Conn \cup {NoSink}]
  BY DEF Init
<1>4. LockInv
  BY DEF Init, LockInv
<1> QED BY <1>1, <1>2, <1>3, <1>4 DEF Init, TypeInv, TypeOK, Phase, NoSink

\* Type correctness: every variable keeps its type, and the list a
\* retransmitting section works through only names messages in flight.
THEOREM TypeCorrect == Spec => [](TypeOK /\ LockInv)
<1>1. TypeInv <=> TypeOK /\ LockInv
  BY DEF TypeInv
<1> QED BY <1>1, TypeInit, TypeStep, PTL DEF Spec
----------------------------------------------------------------------------
(***************************************************************************)
(* Custody.  A message a publisher is still delivering is new to the       *)
(* session, and so is the next retained message.                           *)
(***************************************************************************)
FreshInv ==
    /\ \A p \in Publishers :
          pubMsg[p] # NoMsg => pubMsg[p] <= published /\ pubMsg[p] \notin owed
    /\ \A p, q \in Publishers :
          pubMsg[p] # NoMsg /\ pubMsg[p] = pubMsg[q] => p = q
    /\ \A m \in owed : m <= published

\* Nothing is being delivered at first.
LEMMA FreshInit == Init => FreshInv
BY DEF Init, FreshInv, NoMsg

\* LookupSink takes the next number; Deliver hands over the publisher's own.
LEMMA FreshStep == TypeInv /\ FreshInv /\ [Next]_vars => FreshInv'
<1> SUFFICES ASSUME TypeInv, FreshInv, [Next]_vars PROVE FreshInv'
  OBVIOUS
<1> USE DEF FreshInv
<1>1. published \in Nat /\ owed \subseteq Message /\ Message \subseteq Nat
  BY DEF TypeInv, TypeOK, Message
<1>2. pubMsg \in [Publishers -> Message \cup {NoMsg}]
  BY DEF TypeInv, TypeOK
<1>3. CASE DeliverQoS0
  BY <1>1, <1>2, <1>3 DEF DeliverQoS0, NoMsg, Message
<1>4. ASSUME NEW p \in Publishers, LookupSink(p) PROVE FreshInv'
  BY <1>1, <1>2, <1>4 DEF LookupSink, NoMsg, Message
<1>5. ASSUME NEW p \in Publishers, Deliver(p) PROVE FreshInv'
  BY <1>1, <1>2, <1>5 DEF Deliver, NoMsg, Message
<1>6. CASE DeliverRetained
  BY <1>1, <1>2, <1>6 DEF DeliverRetained, NoMsg, Message
<1>7. CASE UNCHANGED <<pubMsg, published, owed>>
  BY <1>7
<1>8. Reader \/ WriteLoop \/ PeerGone \/ Close \/ Retransmitter \/ Tick
        => DeliverRetained \/ UNCHANGED <<pubMsg, published, owed>>
  BY DEF Reader, Connect, RegisterSink, WriteConnack, ConnackFails, ResumeSession,
         ResumeRetransmit, HandlePuback, PromoteQueued, PromotePutsBack, PromoteEnds,
         UnregisterSink, MarkDisconnected, WriteLoop, PeerGone, Close,
         Retransmitter, RetransmitScan, RetransmitExpired, RetransmitOne,
         RetransmitEnds, Tick
<1> QED BY <1>3, <1>4, <1>5, <1>6, <1>7, <1>8 DEF Next, vars

(***************************************************************************)
(* What a step can do to the messages in the session's care.               *)
(***************************************************************************)
custodyVars == <<inflight, queued, droppedFromQueue, owed, acked, lost, refused, forgotten>>

Takes(m) == m \in Message \ owed /\ owed' = owed \cup {m}

Tracks(m) ==
    /\ HasInflightCapacity
    /\ \E pid \in PacketID \ InUse : inflight' = [inflight EXCEPT ![pid] = m]

SendsNew(m) ==
    Takes(m) /\ Tracks(m) /\ UNCHANGED <<queued, droppedFromQueue, acked, lost, refused, forgotten>>

HoldsNew(m) ==
    Takes(m) /\ Hold(m) /\ UNCHANGED <<inflight, acked, refused, forgotten>>

RefusesNew(m) ==
    /\ Takes(m) /\ PacketIDsExhausted
    /\ \/ HasInflightCapacity /\ refused' = refused \cup {m} /\ UNCHANGED forgotten
       \/ forgotten' = forgotten \cup {m} /\ UNCHANGED refused
    /\ UNCHANGED <<inflight, queued, droppedFromQueue, acked, lost>>

Promotes ==
    /\ queued # <<>>
    /\ Tracks(Head(queued)) /\ queued' = Tail(queued)
    /\ UNCHANGED <<droppedFromQueue, owed, acked, lost, refused, forgotten>>

PutsBack ==
    /\ queued # <<>>
    /\ queued' = Append(Tail(queued), Head(queued))
    /\ UNCHANGED <<inflight, droppedFromQueue, owed, acked, lost, refused, forgotten>>

Releases ==
    \E pid \in InUse :
        /\ inflight' = [inflight EXCEPT ![pid] = NoMsg]
        /\ acked' = acked \cup {inflight[pid]}
        /\ UNCHANGED <<queued, droppedFromQueue, owed, lost, refused, forgotten>>

CustodyNext ==
    \/ \E m \in Message : SendsNew(m) \/ HoldsNew(m) \/ RefusesNew(m)
    \/ Promotes \/ PutsBack \/ Releases
    \/ UNCHANGED custodyVars

\* What TrackAndSend does to the window.
LEMMA TrackAndSendTracks ==
    ASSUME NEW s, NEW m, TrackAndSend(s, m)
    PROVE  Tracks(m)
BY DEF TrackAndSend, TrackInflight, NextPacketID, Tracks

\* Every step of the system is one of these seven, or touches none of it.
LEMMA CustodyStep ==
    ASSUME TypeInv, FreshInv, [Next]_vars
    PROVE  CustodyNext
<1>1. ASSUME NEW p \in Publishers, Deliver(p) PROVE CustodyNext
  <2>1. pubMsg[p] \in Message \ owed /\ owed' = owed \cup {pubMsg[p]}
    BY <1>1 DEF Deliver, FreshInv, TypeInv, TypeOK
  <2>2. CASE Hold(pubMsg[p]) /\ UNCHANGED <<windowVars, outbound, refused>>
    BY <1>1, <2>1, <2>2 DEF Deliver, HoldsNew, Takes, CustodyNext
  <2>3. CASE /\ PacketIDsExhausted /\ HasInflightCapacity
             /\ refused' = refused \cup {pubMsg[p]}
             /\ UNCHANGED <<windowVars, queueVars, outbound, lost>>
    BY <1>1, <2>1, <2>3 DEF Deliver, RefusesNew, Takes, CustodyNext
  <2>4. CASE TrackAndSend(pubSink[p], pubMsg[p]) /\ UNCHANGED <<queueVars, lost, refused>>
    BY <1>1, <2>1, <2>4, TrackAndSendTracks DEF Deliver, SendsNew, Takes, CustodyNext
  <2> QED BY <1>1, <2>2, <2>3, <2>4 DEF Deliver
<1>2. CASE DeliverRetained
  <2> DEFINE m == published + 1
  <2>1. m \in Message \ owed /\ owed' = owed \cup {m}
    BY <1>2 DEF DeliverRetained, FreshInv, TypeInv, TypeOK, Message
  <2>2. CASE Hold(m) /\ UNCHANGED <<inflight, sentAge, outbound, forgotten>>
    BY <1>2, <2>1, <2>2 DEF DeliverRetained, HoldsNew, Takes, CustodyNext
  <2>3. CASE /\ PacketIDsExhausted
             /\ forgotten' = forgotten \cup {m}
             /\ UNCHANGED <<windowVars, queueVars, outbound, lost>>
    BY <1>2, <2>1, <2>3 DEF DeliverRetained, RefusesNew, Takes, CustodyNext
  <2>4. CASE TrackAndSend(conn, m) /\ UNCHANGED <<queueVars, lost, forgotten>>
    BY <1>2, <2>1, <2>4, TrackAndSendTracks DEF DeliverRetained, SendsNew, Takes, CustodyNext
  <2> QED BY <1>2, <2>2, <2>3, <2>4 DEF DeliverRetained
<1>3. CASE PromoteQueued
  BY <1>3, TrackAndSendTracks DEF PromoteQueued, DrainQueue, Promotes, CustodyNext
<1>4. CASE PromotePutsBack
  BY <1>4 DEF PromotePutsBack, PutsBack, CustodyNext
<1>5. CASE HandlePuback
  BY <1>5 DEF HandlePuback, Acknowledge, Releases, custodyVars, CustodyNext
<1>6. CASE UNCHANGED custodyVars
  BY <1>6, Zenon DEF CustodyNext
<1>7. ASSUME NEW p \in Publishers, LookupSink(p) PROVE UNCHANGED custodyVars
  BY <1>7 DEF LookupSink, custodyVars
<1>8. DeliverQoS0 \/ WriteLoop \/ PeerGone \/ Close \/ Retransmitter \/ Tick
         => UNCHANGED custodyVars
  BY DEF DeliverQoS0, WriteLoop, PeerGone, Close, Retransmitter, RetransmitScan,
         RetransmitExpired, RetransmitOne, RetransmitEnds, MarkRetransmitted,
         Tick, AgeInflight, custodyVars
<1>9. Reader => \/ PromoteQueued \/ PromotePutsBack \/ HandlePuback
                \/ DeliverRetained \/ UNCHANGED custodyVars
  BY DEF Reader, Connect, RegisterSink, WriteConnack, ConnackFails, ResumeSession,
         ResumeRetransmit, MarkRetransmitted, PromoteEnds, UnregisterSink,
         MarkDisconnected, Disconnect, custodyVars
<1>10. UNCHANGED vars => UNCHANGED custodyVars
  BY DEF vars, custodyVars
<1>11. ASSUME NEW p \in Publishers, LookupSink(p) PROVE CustodyNext
  BY <1>6, <1>7, <1>11
<1>12. CASE Reader
  BY <1>2, <1>3, <1>4, <1>5, <1>6, <1>9, <1>12
<1>13. CASE DeliverQoS0 \/ WriteLoop \/ PeerGone \/ Close \/ Retransmitter \/ Tick
  BY <1>6, <1>8, <1>13
<1>14. CASE UNCHANGED vars
  BY <1>6, <1>10, <1>14
<1> QED BY <1>1, <1>11, <1>12, <1>13, <1>14 DEF Next
----------------------------------------------------------------------------
(***************************************************************************)
(* The queue and the window as sets of messages.                           *)
(***************************************************************************)
Elems(s) == {s[i] : i \in 1..Len(s)}
Distinct(s) == \A i, j \in 1..Len(s) : s[i] = s[j] => i = j

\* Appending adds one element, and keeps a sequence distinct if it is new.
LEMMA ElemsAppend ==
    ASSUME NEW S, NEW s \in Seq(S), NEW e \in S
    PROVE  /\ Elems(Append(s, e)) = Elems(s) \cup {e}
           /\ Distinct(s) /\ e \notin Elems(s) => Distinct(Append(s, e))
           /\ Len(Append(s, e)) = Len(s) + 1
<1>1. /\ Len(Append(s, e)) = Len(s) + 1 /\ Len(s) \in Nat
      /\ \A i \in 1..Len(s) : Append(s, e)[i] = s[i]
      /\ Append(s, e)[Len(s) + 1] = e
  OBVIOUS
<1>2. 1..(Len(s) + 1) = 1..Len(s) \cup {Len(s) + 1}
  BY <1>1
<1>3. Elems(Append(s, e)) = Elems(s) \cup {e}
  BY <1>1, <1>2 DEF Elems
<1>4. Distinct(s) /\ e \notin Elems(s) => Distinct(Append(s, e))
  BY <1>1, <1>2 DEF Elems, Distinct
<1> QED BY <1>1, <1>3, <1>4

\* Taking the head of a distinct sequence removes exactly that element.
LEMMA ElemsTail ==
    ASSUME NEW S, NEW s \in Seq(S), s # <<>>, Distinct(s)
    PROVE  /\ Elems(Tail(s)) = Elems(s) \ {Head(s)}
           /\ Distinct(Tail(s))
           /\ Head(s) \in Elems(s) /\ Head(s) \in S
           /\ Tail(s) \in Seq(S) /\ Len(Tail(s)) = Len(s) - 1
<1>1. /\ Len(s) \in Nat /\ Len(s) > 0 /\ Head(s) = s[1] /\ s[1] \in S
      /\ Tail(s) \in Seq(S) /\ Len(Tail(s)) = Len(s) - 1
      /\ \A i \in 1..(Len(s) - 1) : Tail(s)[i] = s[i + 1]
  OBVIOUS
<1>2. Distinct(Tail(s))
  BY <1>1 DEF Distinct
<1>3. ASSUME NEW x \in Elems(Tail(s)) PROVE x \in Elems(s) \ {Head(s)}
  <2>1. PICK i \in 1..(Len(s) - 1) : x = s[i + 1]
    BY <1>1, <1>3 DEF Elems
  <2>2. i + 1 \in 1..Len(s) /\ 1 \in 1..Len(s) /\ i + 1 # 1
    BY <1>1
  <2> QED BY <1>1, <2>1, <2>2 DEF Elems, Distinct
<1>4. ASSUME NEW x \in Elems(s) \ {Head(s)} PROVE x \in Elems(Tail(s))
  <2>1. PICK i \in 1..Len(s) : x = s[i]
    BY <1>4 DEF Elems
  <2>2. i # 1
    BY <1>1, <1>4, <2>1
  <2>3. i - 1 \in 1..(Len(s) - 1) /\ Tail(s)[i - 1] = s[i]
    BY <1>1, <2>1, <2>2
  <2> QED BY <1>1, <2>1, <2>3 DEF Elems
<1>5. Head(s) \in Elems(s)
  BY <1>1 DEF Elems
<1> QED BY <1>1, <1>2, <1>3, <1>4, <1>5

\* Moving the head to the end changes neither the elements nor distinctness.
LEMMA ElemsRotate ==
    ASSUME NEW S, NEW s \in Seq(S), s # <<>>, Distinct(s)
    PROVE  /\ Elems(Append(Tail(s), Head(s))) = Elems(s)
           /\ Distinct(Append(Tail(s), Head(s)))
<1>1. PICK t \in Seq(S), e \in S : t = Tail(s) /\ e = Head(s)
  BY ElemsTail
<1>2. Elems(t) = Elems(s) \ {e} /\ Distinct(t) /\ e \in Elems(s)
  BY <1>1, ElemsTail
<1>3. Elems(Append(t, e)) = Elems(t) \cup {e} /\ Distinct(Append(t, e))
  BY <1>2, ElemsAppend
<1> QED BY <1>1, <1>2, <1>3

WindowDistinct == \A p, q \in InUse : inflight[p] = inflight[q] => p = q

\* Recording a message under a free identifier adds it to the window.
LEMMA TracksInflight ==
    ASSUME TypeOK, NEW m \in Message, Tracks(m)
    PROVE  /\ InflightMessages' = InflightMessages \cup {m}
           /\ \E pid \in PacketID \ InUse : InUse' = InUse \cup {pid}
           /\ WindowDistinct /\ m \notin InflightMessages => WindowDistinct'
<1>1. PICK pid \in PacketID \ InUse : inflight' = [inflight EXCEPT ![pid] = m]
  BY DEF Tracks
<1>2. inflight \in [PacketID -> Message \cup {NoMsg}] /\ m # NoMsg
  BY DEF TypeOK, SessionTypeOK, Message, NoMsg
<1>3. InUse' = InUse \cup {pid}
  BY <1>1, <1>2 DEF InUse
<1>4. inflight'[pid] = m /\ \A p \in InUse : inflight'[p] = inflight[p] /\ p # pid
  BY <1>1, <1>2 DEF InUse
<1>5. InflightMessages' = InflightMessages \cup {m}
  BY <1>3, <1>4 DEF InflightMessages
<1>6. WindowDistinct /\ m \notin InflightMessages => WindowDistinct'
  BY <1>3, <1>4 DEF WindowDistinct, InflightMessages
<1> QED BY <1>1, <1>3, <1>5, <1>6

\* A PUBACK takes exactly its message out of the window.
LEMMA ReleasesInflight ==
    ASSUME TypeOK, WindowDistinct, NEW pid \in InUse,
           inflight' = [inflight EXCEPT ![pid] = NoMsg]
    PROVE  /\ InflightMessages' = InflightMessages \ {inflight[pid]}
           /\ InUse' = InUse \ {pid}
           /\ WindowDistinct'
<1>1. inflight \in [PacketID -> Message \cup {NoMsg}]
  BY DEF TypeOK, SessionTypeOK
<1>2. InUse' = InUse \ {pid}
  BY <1>1 DEF InUse
<1>3. \A p \in InUse' : inflight'[p] = inflight[p] /\ p \in InUse
  BY <1>1, <1>2 DEF InUse
<1>4. InflightMessages' = InflightMessages \ {inflight[pid]}
  BY <1>2, <1>3 DEF InflightMessages, WindowDistinct
<1>5. WindowDistinct'
  BY <1>2, <1>3 DEF WindowDistinct
<1> QED BY <1>2, <1>4, <1>5
----------------------------------------------------------------------------
(***************************************************************************)
(* The window and the queue keep to their limits.                          *)
(***************************************************************************)
\* Identifiers are finitely many, so the window has a size.
LEMMA InUseFinite ==
    ASSUME TypeOK
    PROVE  IsFiniteSet(InUse) /\ Cardinality(InUse) \in Nat
<1>1. IsFiniteSet(PacketID)
  BY FS_Interval DEF PacketID
<1>2. IsFiniteSet(InUse)
  BY <1>1, FS_Subset DEF InUse
<1> QED BY <1>2, FS_CardinalityType

\* Only TrackInflight grows the window, and it checks the capacity in the same
\* locked section; Enqueue makes room before it appends.
LEMMA BoundsStep ==
    ASSUME TypeInv, WindowBounds, CustodyNext
    PROVE  WindowBounds'
<1> USE DEF TypeInv
<1>1. queued \in Seq(Message) /\ Len(queued) \in Nat /\ Len(queued) <= MaxQueued
  BY DEF TypeOK, SessionTypeOK, WindowBounds
<1>2. ASSUME NEW m \in Message, Tracks(m) PROVE Cardinality(InUse)' <= MaxInflight
  <2>1. PICK pid \in PacketID \ InUse : InUse' = InUse \cup {pid}
    BY <1>2, TracksInflight
  <2>2. Cardinality(InUse \cup {pid}) = Cardinality(InUse) + 1
    BY <2>1, InUseFinite, FS_AddElement
  <2>3. Cardinality(InUse) < MaxInflight
    BY <1>2 DEF Tracks, HasInflightCapacity
  <2> QED BY <2>1, <2>2, <2>3, InUseFinite
<1>3. ASSUME UNCHANGED inflight PROVE Cardinality(InUse)' <= MaxInflight
  <2>1. InUse' = InUse
    BY <1>3 DEF InUse
  <2> QED BY <2>1 DEF WindowBounds
<1>4. ASSUME NEW m \in Message, SendsNew(m) PROVE WindowBounds'
  BY <1>1, <1>2, <1>4 DEF SendsNew, WindowBounds
<1>5. ASSUME NEW m \in Message, HoldsNew(m) PROVE WindowBounds'
  <2>1. Len(queued)' <= MaxQueued
    BY <1>1, <1>5 DEF HoldsNew, Hold, Enqueue, QueueFull
  <2> QED BY <1>3, <1>5, <2>1 DEF HoldsNew, WindowBounds
<1>6. ASSUME NEW m \in Message, RefusesNew(m) PROVE WindowBounds'
  <2>1. Cardinality(InUse) = MaxPacketID
    BY <1>6, FS_Interval DEF RefusesNew, PacketIDsExhausted, PacketID
  <2>2. MaxPacketID <= MaxInflight
    BY <2>1 DEF WindowBounds
  <2>3. HasInflightCapacity => MaxPacketID < MaxInflight
    BY <2>1 DEF HasInflightCapacity
  <2>4. /\ MaxInflight <= MaxPacketID => refused' = {}
        /\ MaxInflight < MaxPacketID => forgotten' = {}
    BY <1>6, <2>2, <2>3 DEF RefusesNew, WindowBounds
  <2> QED BY <1>1, <1>3, <1>6, <2>4 DEF RefusesNew, WindowBounds
<1>7. CASE Promotes
  <2>1. Head(queued) \in Message /\ Len(Tail(queued)) = Len(queued) - 1
    BY <1>1, <1>7 DEF Promotes
  <2> QED BY <1>1, <1>2, <1>7, <2>1 DEF Promotes, WindowBounds
<1>8. CASE PutsBack
  <2>1. Len(queued)' = Len(queued)
    BY <1>1, <1>8 DEF PutsBack
  <2> QED BY <1>1, <1>3, <1>8, <2>1 DEF PutsBack, WindowBounds
<1>9. CASE Releases
  <2>1. PICK pid \in InUse : /\ inflight' = [inflight EXCEPT ![pid] = NoMsg]
                             /\ UNCHANGED <<queued, refused, forgotten>>
    BY <1>9 DEF Releases
  <2>2. InUse' = InUse \ {pid}
    BY <2>1 DEF InUse, TypeOK, SessionTypeOK
  <2>3. Cardinality(InUse \ {pid}) = Cardinality(InUse) - 1
    BY <2>1, InUseFinite, FS_RemoveElement
  <2> QED BY <1>1, <2>1, <2>2, <2>3, InUseFinite DEF WindowBounds
<1>10. CASE UNCHANGED custodyVars
  BY <1>1, <1>3, <1>10 DEF custodyVars, WindowBounds
<1> QED BY <1>4, <1>5, <1>6, <1>7, <1>8, <1>9, <1>10 DEF CustodyNext

\* The in-flight window and the offline queue never exceed Limits.MaxInflight
\* and Limits.MaxQueued, whatever interleaving of deliver, promoteQueued and
\* DeliverRetained filled them.
THEOREM WindowBounded == Spec => []WindowBounds
<1>1. Init => TypeInv /\ FreshInv /\ WindowBounds
  <2> SUFFICES ASSUME Init PROVE TypeInv /\ FreshInv /\ WindowBounds
    OBVIOUS
  <2>1. InUse = {} /\ Len(queued) = 0 /\ refused = {} /\ forgotten = {}
    BY DEF Init, NewSession, InUse
  <2>2. WindowBounds
    BY <2>1, FS_EmptySet DEF WindowBounds
  <2> QED BY <2>2, TypeInit, FreshInit
<1>2. TypeInv /\ FreshInv /\ WindowBounds /\ [Next]_vars
        => (TypeInv /\ FreshInv /\ WindowBounds)'
  BY TypeStep, FreshStep, CustodyStep, BoundsStep
<1> QED BY <1>1, <1>2, PTL DEF Spec
----------------------------------------------------------------------------
(***************************************************************************)
(* Custody and SingleCustody are inductive together: a message may only be *)
(* taken out of one place if it is not in another, and a dropped message   *)
(* is counted once because it was never dropped before.                    *)
(***************************************************************************)
CustodyInv == Custody /\ SingleCustody

\* Everything dropped is a message, so there are finitely many of them.
LEMMA LostFinite ==
    ASSUME TypeOK
    PROVE  IsFiniteSet(lost) /\ Cardinality(lost) \in Nat
<1>1. IsFiniteSet(Message)
  BY FS_Interval DEF Message
<1>2. IsFiniteSet(lost)
  BY <1>1, FS_Subset DEF TypeOK
<1> QED BY <1>2, FS_CardinalityType

\* A message is given up by being pushed out of the queue, or by being refused.
LEMMA GivenUpStep ==
    /\ UNCHANGED <<lost, refused, forgotten>> => GivenUp' = GivenUp
    /\ \A d : lost' = lost \cup {d} /\ UNCHANGED <<refused, forgotten>>
                => GivenUp' = GivenUp \cup {d}
    /\ \A m : RefusesNew(m) => GivenUp' = GivenUp \cup {m}
BY DEF GivenUp, RefusesNew

\* SingleCustody in terms of the vocabulary of these proofs.
LEMMA SingleCustodyParts ==
    /\ SingleCustody <=>
          /\ WindowDistinct
          /\ Distinct(queued)
          /\ InflightMessages \cap Elems(queued) = {}
          /\ (acked \cup GivenUp) \cap (InflightMessages \cup Elems(queued)) = {}
    /\ SingleCustody' <=>
          /\ WindowDistinct'
          /\ Distinct(queued')
          /\ InflightMessages' \cap Elems(queued') = {}
          /\ (acked' \cup GivenUp') \cap (InflightMessages' \cup Elems(queued')) = {}
    /\ QueuedMessages = Elems(queued)
    /\ QueuedMessages' = Elems(queued')
<1>1. QueuedMessages = Elems(queued) /\ QueuedMessages' = Elems(queued')
  BY DEF QueuedMessages, Elems
<1> QED BY <1>1 DEF SingleCustody, WindowDistinct, Distinct

\* Enqueue on a full and on a free queue.
LEMMA HoldKeepsCustody ==
    ASSUME TypeInv, CustodyInv, NEW m \in Message, HoldsNew(m)
    PROVE  CustodyInv'
<1> USE DEF TypeInv, CustodyInv
<1>1. /\ queued \in Seq(Message) /\ Distinct(queued)
      /\ QueuedMessages = Elems(queued) /\ QueuedMessages' = Elems(queued')
      /\ InflightMessages' = InflightMessages
      /\ m \notin owed /\ owed' = owed \cup {m}
      /\ acked' = acked /\ refused' = refused /\ forgotten' = forgotten
  BY SingleCustodyParts DEF TypeOK, SessionTypeOK, QueuedMessages, Elems, HoldsNew, Takes,
     InflightMessages, InUse
<1>2. WindowDistinct'
  BY SingleCustodyParts DEF HoldsNew, WindowDistinct, InUse
<1>3. m \notin Elems(queued) /\ m \notin acked \cup GivenUp \cup InflightMessages
  BY <1>1 DEF Custody
<1>4. CASE QueueFull
  <2>1. queued # <<>>
    BY <1>1, <1>4 DEF QueueFull
  <2>2. /\ Elems(Tail(queued)) = Elems(queued) \ {Head(queued)}
        /\ Distinct(Tail(queued)) /\ Tail(queued) \in Seq(Message)
        /\ Head(queued) \in Elems(queued)
    BY <1>1, <2>1, ElemsTail
  <2>3. /\ queued' = Append(Tail(queued), m)
        /\ droppedFromQueue' = droppedFromQueue + 1
        /\ lost' = lost \cup {Head(queued)} /\ GivenUp' = GivenUp \cup {Head(queued)}
    BY <1>1, <1>4, GivenUpStep DEF HoldsNew, Hold, Enqueue
  <2>4. Elems(queued') = (Elems(queued) \ {Head(queued)}) \cup {m} /\ Distinct(queued')
    BY <1>3, <2>2, <2>3, ElemsAppend
  <2>5. Head(queued) \notin lost
    BY <2>2, SingleCustodyParts DEF GivenUp
  <2>6. Cardinality(lost') = Cardinality(lost) + 1
    BY <2>3, <2>5, LostFinite, FS_AddElement
  <2>7. Custody'
    BY <1>1, <2>2, <2>3, <2>4, <2>6 DEF Custody
  <2>8. SingleCustody'
    BY <1>1, <1>2, <1>3, <2>2, <2>3, <2>4, SingleCustodyParts
  <2> QED BY <2>7, <2>8
<1>5. CASE ~QueueFull
  <2>1. /\ queued' = Append(queued, m)
        /\ droppedFromQueue' = droppedFromQueue
        /\ lost' = lost /\ GivenUp' = GivenUp
    BY <1>1, <1>5, GivenUpStep DEF HoldsNew, Hold, Enqueue
  <2>2. Elems(queued') = Elems(queued) \cup {m} /\ Distinct(queued')
    BY <1>1, <1>3, <2>1, ElemsAppend
  <2>3. Custody'
    BY <1>1, <2>1, <2>2 DEF Custody
  <2>4. SingleCustody'
    BY <1>1, <1>2, <1>3, <2>1, <2>2, SingleCustodyParts
  <2> QED BY <2>3, <2>4
<1> QED BY <1>4, <1>5

\* Every step keeps every message in exactly one place.
LEMMA CustodyInvStep ==
    ASSUME TypeInv, CustodyInv, CustodyNext
    PROVE  CustodyInv'
<1> USE DEF TypeInv, CustodyInv
<1>1. queued \in Seq(Message) /\ Distinct(queued) /\ WindowDistinct
  BY SingleCustodyParts DEF TypeOK, SessionTypeOK
<1>2. UNCHANGED inflight => InflightMessages' = InflightMessages /\ WindowDistinct'
  BY <1>1 DEF InflightMessages, WindowDistinct, InUse
<1>3. ASSUME NEW m \in Message, SendsNew(m) PROVE CustodyInv'
  <2>1. /\ m \notin owed /\ owed' = owed \cup {m} /\ Tracks(m)
        /\ UNCHANGED <<queued, droppedFromQueue, acked, lost, GivenUp>>
    BY <1>3, GivenUpStep DEF SendsNew, Takes
  <2>2. m \notin acked \cup GivenUp \cup InflightMessages \cup Elems(queued)
    BY <2>1, SingleCustodyParts DEF Custody
  <2>3. InflightMessages' = InflightMessages \cup {m} /\ WindowDistinct'
    BY <1>1, <2>1, <2>2, TracksInflight
  <2>4. Custody'
    BY <2>1, <2>3, SingleCustodyParts DEF Custody
  <2>5. SingleCustody'
    BY <1>1, <2>1, <2>2, <2>3, SingleCustodyParts
  <2> QED BY <2>4, <2>5
<1>4. ASSUME NEW m \in Message, RefusesNew(m) PROVE CustodyInv'
  <2>1. /\ m \notin owed /\ owed' = owed \cup {m} /\ GivenUp' = GivenUp \cup {m}
        /\ UNCHANGED <<inflight, queued, droppedFromQueue, acked, lost>>
    BY <1>4, GivenUpStep DEF RefusesNew, Takes
  <2>2. m \notin InflightMessages \cup Elems(queued)
    BY <2>1, SingleCustodyParts DEF Custody
  <2>3. Custody'
    BY <1>2, <2>1, SingleCustodyParts DEF Custody
  <2>4. SingleCustody'
    BY <1>1, <1>2, <2>1, <2>2, SingleCustodyParts
  <2> QED BY <2>3, <2>4
<1>5. CASE Promotes
  <2> DEFINE m == Head(queued)
  <2>1. /\ queued # <<>> /\ Tracks(m) /\ queued' = Tail(queued)
        /\ UNCHANGED <<droppedFromQueue, owed, acked, lost, GivenUp>>
    BY <1>5, GivenUpStep DEF Promotes
  <2>2. /\ Elems(Tail(queued)) = Elems(queued) \ {m}
        /\ Distinct(Tail(queued)) /\ m \in Elems(queued) /\ m \in Message
    BY <1>1, <2>1, ElemsTail
  <2> HIDE DEF m
  <2>3. m \notin InflightMessages
    BY <2>2, SingleCustodyParts
  <2>4. InflightMessages' = InflightMessages \cup {m} /\ WindowDistinct'
    BY <1>1, <2>1, <2>2, <2>3, TracksInflight
  <2>5. Custody'
    BY <2>1, <2>2, <2>4, SingleCustodyParts DEF Custody
  <2>6. SingleCustody'
    BY <2>1, <2>2, <2>3, <2>4, SingleCustodyParts
  <2> QED BY <2>5, <2>6
<1>6. CASE PutsBack
  <2>1. /\ queued # <<>> /\ queued' = Append(Tail(queued), Head(queued))
        /\ UNCHANGED <<inflight, droppedFromQueue, owed, acked, lost, GivenUp>>
    BY <1>6, GivenUpStep DEF PutsBack
  <2>3. Elems(queued') = Elems(queued) /\ Distinct(queued')
    BY <1>1, <2>1, ElemsRotate
  <2>4. Custody'
    BY <1>2, <2>1, <2>3, SingleCustodyParts DEF Custody
  <2>5. SingleCustody'
    BY <1>2, <2>1, <2>3, SingleCustodyParts
  <2> QED BY <2>4, <2>5
<1>7. CASE Releases
  <2>1. PICK pid \in InUse :
           /\ inflight' = [inflight EXCEPT ![pid] = NoMsg]
           /\ acked' = acked \cup {inflight[pid]}
           /\ UNCHANGED <<queued, droppedFromQueue, owed, lost, GivenUp>>
    BY <1>7, GivenUpStep DEF Releases
  <2>2. /\ InflightMessages' = InflightMessages \ {inflight[pid]} /\ WindowDistinct'
        /\ inflight[pid] \in InflightMessages
    BY <1>1, <2>1, ReleasesInflight DEF InflightMessages
  <2>3. Custody'
    BY <2>1, <2>2, SingleCustodyParts DEF Custody
  <2>4. SingleCustody'
    BY <1>1, <2>1, <2>2, SingleCustodyParts
  <2> QED BY <2>3, <2>4
<1>8. CASE UNCHANGED custodyVars
  <2>1. UNCHANGED <<inflight, queued, droppedFromQueue, owed, acked, lost, GivenUp>>
    BY <1>8, GivenUpStep DEF custodyVars
  <2>2. Custody'
    BY <1>2, <2>1, SingleCustodyParts DEF Custody
  <2>3. SingleCustody'
    BY <1>1, <1>2, <2>1, SingleCustodyParts
  <2> QED BY <2>2, <2>3
<1> QED BY <1>3, <1>4, <1>5, <1>6, <1>7, <1>8, HoldKeepsCustody DEF CustodyNext

\* A new session holds nothing and owes nothing.
LEMMA CustodyInit == Init => CustodyInv
<1> SUFFICES ASSUME Init PROVE CustodyInv
  OBVIOUS
<1>1. /\ InUse = {} /\ Len(queued) = 0
      /\ owed = {} /\ acked = {} /\ GivenUp = {} /\ lost = {} /\ droppedFromQueue = 0
  BY DEF Init, NewSession, InUse, GivenUp
<1>2. InflightMessages = {} /\ QueuedMessages = {}
  BY <1>1 DEF InflightMessages, QueuedMessages
<1> QED BY <1>1, <1>2, FS_EmptySet DEF CustodyInv, Custody, SingleCustody

\* Every QoS 1 message the broker took responsibility for is in the window, in
\* the queue, acknowledged, or was given up - pushed out of a full queue, or
\* left without an identifier - and is in one of these places only, across
\* disconnects, resumptions and retransmissions.
THEOREM CustodyKept == Spec => [](Custody /\ SingleCustody)
<1>1. Init => TypeInv /\ FreshInv /\ CustodyInv
  BY TypeInit, FreshInit, CustodyInit
<1>2. TypeInv /\ FreshInv /\ CustodyInv /\ [Next]_vars
        => (TypeInv /\ FreshInv /\ CustodyInv)'
  BY TypeStep, FreshStep, CustodyStep, CustodyInvStep
<1>3. CustodyInv <=> Custody /\ SingleCustody
  BY DEF CustodyInv
<1> QED BY <1>1, <1>2, <1>3, PTL DEF Spec

\* With a window smaller than the identifier space (32 against 65535 as the
\* broker is configured by default) the queue is the only place where a message
\* is given up: nothing but an acknowledgement or a counted drop ends its stay.
\* A larger window takes this away, see WindowBounds.
THEOREM LossIsCounted ==
    ASSUME MaxInflight < MaxPacketID
    PROVE  Spec => [](/\ Custody
                      /\ owed = acked \cup lost \cup InflightMessages \cup QueuedMessages)
<1>1. Custody /\ WindowBounds
        => owed = acked \cup lost \cup InflightMessages \cup QueuedMessages
  BY DEF Custody, WindowBounds, GivenUp
<1> QED BY <1>1, CustodyKept, WindowBounded, PTL
----------------------------------------------------------------------------
(***************************************************************************)
(* What a step can do to the packets on their way.                         *)
(***************************************************************************)
\* Dropping the head of a sequence adds no element.
LEMMA ElemsOfTail ==
    ASSUME NEW S, NEW s \in Seq(S), s # <<>>
    PROVE  Elems(Tail(s)) \subseteq Elems(s) /\ Head(s) \in Elems(s)
<1>1. /\ Len(s) \in Nat /\ Len(s) > 0 /\ Head(s) = s[1]
      /\ Len(Tail(s)) = Len(s) - 1
      /\ \A i \in 1..(Len(s) - 1) : Tail(s)[i] = s[i + 1] /\ i + 1 \in 1..Len(s)
  OBVIOUS
<1> QED BY <1>1 DEF Elems

\* The elements of a typed sequence have its type.
LEMMA ElemsType ==
    ASSUME NEW S, NEW s \in Seq(S)
    PROVE  Elems(s) \subseteq S
BY DEF Elems

\* A packet recorded in the window by the step that queues it.
Recorded(k) == k.pid \in PacketID /\ k.msg \in Message /\ inflight'[k.pid] = k.msg

\* A QoS 0 packet: the broker promises nothing for its message.
Unpromised(k) ==
    /\ k.pid = 0 /\ k.msg = published + 1 /\ published' = published + 1
    /\ UNCHANGED <<pubMsg, owed>>

\* Connection.Send queues the packet or drops it.
LEMMA SendElems ==
    ASSUME TypeOK, NEW s, NEW packet \in Packet, Send(s, packet)
    PROVE  Elems(outbound') \subseteq Elems(outbound) \cup {packet}
<1>1. outbound \in Seq(Packet)
  BY DEF TypeOK
<1>2. Elems(Append(outbound, packet)) = Elems(outbound) \cup {packet}
  BY <1>1, ElemsAppend
<1> QED BY <1>2 DEF Send

\* Whatever identifier NextPacketID hands out, the packet TrackAndSend queues
\* carries it and is in the window by then.
LEMMA TrackAndSendRecords ==
    ASSUME TypeOK, NEW s, NEW m \in Message, TrackAndSend(s, m)
    PROVE  \A k \in Elems(outbound') : k \in Elems(outbound) \/ Recorded(k)
<1>1. PICK pid \in PacketID :
         /\ TrackInflight(pid, m)
         /\ Send(s, [pid |-> pid, msg |-> m, dup |-> FALSE])
  BY DEF TrackAndSend
<1> DEFINE packet == [pid |-> pid, msg |-> m, dup |-> FALSE]
<1>2. packet \in Packet
  BY PacketType
<1>3. inflight'[pid] = m
  BY <1>1 DEF TrackInflight, TypeOK, SessionTypeOK
<1>4. Recorded(packet)
  BY <1>3 DEF Recorded
<1>5. Elems(outbound') \subseteq Elems(outbound) \cup {packet}
  BY <1>1, <1>2, SendElems
<1> QED BY <1>4, <1>5

\* A retransmission carries what the window holds under its identifier.
LEMMA RetransmissionRecords ==
    ASSUME TypeOK, NEW s, NEW pid \in InUse, UNCHANGED inflight,
           Send(s, [pid |-> pid, msg |-> inflight[pid], dup |-> TRUE])
    PROVE  \A k \in Elems(outbound') : k \in Elems(outbound) \/ Recorded(k)
<1> DEFINE packet == [pid |-> pid, msg |-> inflight[pid], dup |-> TRUE]
<1>1. pid \in PacketID /\ inflight[pid] \in Message
  BY DEF InUse, TypeOK, SessionTypeOK
<1>2. packet \in Packet
  BY <1>1, PacketType
<1>3. Recorded(packet)
  BY <1>1 DEF Recorded
<1>4. Elems(outbound') \subseteq Elems(outbound) \cup {packet}
  BY <1>2, SendElems
<1> QED BY <1>3, <1>4

\* Every step: a packet in the connection's queue was there before, or has
\* just been recorded in the window, or is a QoS 0 packet.
LEMMA OutboundStep ==
    ASSUME TypeInv, [Next]_vars
    PROVE  \A k \in Elems(outbound') :
              k \in Elems(outbound) \/ Recorded(k) \/ Unpromised(k)
<1> USE DEF TypeInv
<1> DEFINE Goal == \A k \in Elems(outbound') :
                      k \in Elems(outbound) \/ Recorded(k) \/ Unpromised(k)
<1>0. outbound \in Seq(Packet)
  BY DEF TypeOK
<1>1. CASE UNCHANGED outbound
  BY <1>1
<1>2. CASE outbound' = <<>>
  BY <1>2 DEF Elems
<1>3. CASE DeliverQoS0
  <2> DEFINE packet == [pid |-> 0, msg |-> published + 1, dup |-> FALSE]
  <2>1. published + 1 \in Message
    BY <1>3 DEF DeliverQoS0, TypeOK, Message
  <2>2. packet \in Packet
    BY <2>1, PacketType
  <2>3. Send(sink, packet)
    BY <1>3 DEF DeliverQoS0
  <2>4. Elems(outbound') \subseteq Elems(outbound) \cup {packet}
    BY <2>2, <2>3, SendElems
  <2>5. Unpromised(packet)
    BY <1>3 DEF DeliverQoS0, Unpromised
  <2> QED BY <2>4, <2>5
<1>4. ASSUME NEW p \in Publishers, Deliver(p) PROVE Goal
  <2>1. pubMsg[p] \in Message
    BY <1>4 DEF Deliver, TypeOK, NoMsg
  <2> QED BY <1>1, <1>4, <2>1, TrackAndSendRecords DEF Deliver
<1>5. CASE DeliverRetained
  <2> DEFINE m == published + 1
  <2>1. m \in Message
    BY <1>5 DEF DeliverRetained, TypeOK, Message
  <2>2. UNCHANGED outbound \/ TrackAndSend(conn, m)
    BY <1>5 DEF DeliverRetained
  <2> HIDE DEF m
  <2> QED BY <1>1, <2>1, <2>2, TrackAndSendRecords
<1>6. CASE PromoteQueued
  <2>1. Head(queued) \in Message
    BY <1>6 DEF PromoteQueued, TypeOK, SessionTypeOK
  <2> QED BY <1>6, <2>1, TrackAndSendRecords DEF PromoteQueued
<1>7. CASE ResumeRetransmit
  <2>1. PICK pid \in InUse :
           /\ UNCHANGED inflight
           /\ Send(conn, [pid |-> pid, msg |-> inflight[pid], dup |-> TRUE])
    BY <1>7 DEF ResumeRetransmit, Oldest, MarkRetransmitted, LockInv
  <2> QED BY <2>1, RetransmissionRecords
<1>8. CASE RetransmitOne
  <2>1. PICK pid \in InUse :
           /\ UNCHANGED inflight
           /\ Send(retxSink, [pid |-> pid, msg |-> inflight[pid], dup |-> TRUE])
    BY <1>8 DEF RetransmitOne, Oldest, MarkRetransmitted, LockInv
  <2> QED BY <2>1, RetransmissionRecords
<1>9. CASE WriteLoop
  <2>1. outbound # <<>> /\ outbound' = Tail(outbound)
    BY <1>9 DEF WriteLoop
  <2> QED BY <1>0, <2>1, ElemsOfTail
<1>10. ASSUME NEW p \in Publishers, LookupSink(p) PROVE UNCHANGED outbound
  BY <1>10 DEF LookupSink
<1>11. PeerGone \/ Close \/ RetransmitScan \/ RetransmitExpired \/ RetransmitEnds \/ Tick
         => UNCHANGED outbound \/ outbound' = <<>>
  BY DEF PeerGone, Close, RetransmitScan, RetransmitExpired, RetransmitEnds, Tick
<1>12. Connect \/ RegisterSink \/ WriteConnack \/ ConnackFails \/ ResumeSession
         \/ HandlePuback \/ PromotePutsBack \/ PromoteEnds
         \/ UnregisterSink \/ MarkDisconnected
         => UNCHANGED outbound \/ outbound' = <<>>
  BY DEF Connect, RegisterSink, WriteConnack, ConnackFails, ResumeSession,
         HandlePuback, PromotePutsBack, PromoteEnds, UnregisterSink, MarkDisconnected
<1>13. UNCHANGED vars => UNCHANGED outbound
  BY DEF vars
<1> HIDE DEF Goal
<1>14. Reader => Goal
  BY <1>1, <1>2, <1>5, <1>6, <1>7, <1>12 DEF Reader, Goal
<1>15. Retransmitter => Goal
  BY <1>1, <1>2, <1>8, <1>11 DEF Retransmitter, Goal
<1>16. ASSUME NEW p \in Publishers, LookupSink(p) PROVE Goal
  BY <1>1, <1>10, <1>16 DEF Goal
<1>17. CASE WriteLoop \/ PeerGone \/ Close \/ Tick \/ DeliverQoS0 \/ UNCHANGED vars
  BY <1>1, <1>2, <1>3, <1>9, <1>11, <1>13, <1>17
<1> QED BY <1>4, <1>14, <1>15, <1>16, <1>17 DEF Next, Goal

\* Every step: a PUBACK on its way was there before, or answers a packet the
\* client has just read; the client reads nothing else.
LEMMA PubackStep ==
    ASSUME TypeInv, [Next]_vars
    PROVE  /\ \A a \in Elems(toBroker') :
                 \/ a \in Elems(toBroker)
                 \/ /\ a.msg \in received' /\ UNCHANGED inflight
                    /\ \E k \in Elems(outbound) : k.pid # 0 /\ a.pid = k.pid /\ a.msg = k.msg
           /\ received \subseteq received'
           /\ \A m \in received' : m \in received \/ \E k \in Elems(outbound) : m = k.msg
<1> USE DEF TypeInv
<1> DEFINE Goal ==
        /\ \A a \in Elems(toBroker') :
              \/ a \in Elems(toBroker)
              \/ /\ a.msg \in received' /\ UNCHANGED inflight
                 /\ \E k \in Elems(outbound) : k.pid # 0 /\ a.pid = k.pid /\ a.msg = k.msg
        /\ received \subseteq received'
        /\ \A m \in received' : m \in received \/ \E k \in Elems(outbound) : m = k.msg
<1>0. outbound \in Seq(Packet) /\ toBroker \in Seq(Puback)
  BY DEF TypeOK
<1>1. CASE UNCHANGED received /\ (UNCHANGED toBroker \/ toBroker' = <<>>)
  BY <1>1 DEF Elems
<1>2. CASE HandlePuback
  <2>1. toBroker # <<>> /\ toBroker' = Tail(toBroker) /\ UNCHANGED received
    BY <1>2 DEF HandlePuback
  <2> QED BY <1>0, <2>1, ElemsOfTail
<1>3. CASE WriteLoop
  <2> DEFINE packet == Head(outbound)
             ack == [pid |-> packet.pid, msg |-> packet.msg]
  <2>1. packet \in Elems(outbound) /\ packet \in Packet
    BY <1>0, <1>3, ElemsOfTail, ElemsType DEF WriteLoop
  <2>2. packet.pid \in PacketID \cup {0} /\ packet.msg \in Message
    BY <2>1 DEF Packet
  <2>3. CASE /\ packet.pid # 0
             /\ toBroker' = Append(toBroker, ack)
             /\ received' = received \cup {packet.msg}
    <3>1. ack \in Puback
      BY <2>2, <2>3 DEF Puback
    <3>2. Elems(toBroker') = Elems(toBroker) \cup {ack}
      BY <1>0, <2>3, <3>1, ElemsAppend
    <3>3. ack.pid = packet.pid /\ ack.msg = packet.msg
      OBVIOUS
    <3>4. UNCHANGED inflight
      BY <1>3 DEF WriteLoop
    <3> HIDE DEF packet, ack
    <3> QED BY <2>1, <2>3, <3>2, <3>3, <3>4
  <2>4. CASE UNCHANGED toBroker /\ received' = received \cup {packet.msg}
    BY <2>1, <2>4
  <2>5. CASE UNCHANGED <<toBroker, received>>
    BY <2>5
  <2> QED BY <1>3, <2>3, <2>4, <2>5 DEF WriteLoop
<1>4. /\ Connect \/ RegisterSink \/ WriteConnack \/ ConnackFails \/ ResumeSession
            \/ ResumeRetransmit \/ PromoteQueued \/ PromotePutsBack \/ PromoteEnds
            \/ DeliverRetained \/ UnregisterSink \/ MarkDisconnected
         => UNCHANGED received /\ (UNCHANGED toBroker \/ toBroker' = <<>>)
      /\ Retransmitter \/ PeerGone \/ Close \/ Tick \/ DeliverQoS0
         => UNCHANGED received /\ UNCHANGED toBroker
  BY DEF Connect, RegisterSink, WriteConnack, ConnackFails, ResumeSession,
         ResumeRetransmit, PromoteQueued, PromotePutsBack, PromoteEnds,
         DeliverRetained, UnregisterSink, MarkDisconnected, Retransmitter,
         RetransmitScan, RetransmitExpired, RetransmitOne, RetransmitEnds,
         PeerGone, Close, Tick, DeliverQoS0
<1>5. ASSUME NEW p \in Publishers, LookupSink(p) \/ Deliver(p)
      PROVE  UNCHANGED received /\ UNCHANGED toBroker
  BY <1>5 DEF LookupSink, Deliver
<1>6. UNCHANGED vars => UNCHANGED received /\ UNCHANGED toBroker
  BY DEF vars
<1> HIDE DEF Goal
<1>7. UNCHANGED received /\ (UNCHANGED toBroker \/ toBroker' = <<>>) => Goal
  BY <1>1 DEF Goal
<1>8. HandlePuback \/ WriteLoop => Goal
  BY <1>2, <1>3 DEF Goal
<1> QED BY <1>4, <1>5, <1>6, <1>7, <1>8 DEF Next, Reader, Goal
----------------------------------------------------------------------------
(***************************************************************************)
(* A PUBLISH on its way is in flight, or acknowledged already.             *)
(***************************************************************************)
OnRecord(k) == k.pid # 0 => inflight[k.pid] = k.msg \/ k.msg \in acked

OutboundOnRecord == \A k \in Elems(outbound) : OnRecord(k)

\* A step lets a message out of the window only into acked.
LEMMA WindowStep ==
    ASSUME TypeInv, CustodyNext
    PROVE  /\ acked \subseteq acked'
           /\ \A p \in InUse : inflight'[p] = inflight[p] \/ inflight[p] \in acked'
<1>1. inflight \in [PacketID -> Message \cup {NoMsg}]
  BY DEF TypeInv, TypeOK, SessionTypeOK
<1>2. ASSUME NEW m, Tracks(m)
      PROVE  \A p \in InUse : inflight'[p] = inflight[p]
  BY <1>1, <1>2 DEF Tracks, InUse
<1>3. CASE Releases
  BY <1>1, <1>3 DEF Releases, InUse
<1> QED BY <1>2, <1>3
        DEF CustodyNext, SendsNew, HoldsNew, RefusesNew, Promotes, PutsBack, custodyVars

\* TrackInflight comes before Send, and only a PUBACK ends a record.
LEMMA OnRecordStep ==
    ASSUME TypeInv, FreshInv, OutboundOnRecord, [Next]_vars
    PROVE  OutboundOnRecord'
<1> SUFFICES ASSUME NEW k \in Elems(outbound'), k.pid # 0
             PROVE  inflight'[k.pid] = k.msg \/ k.msg \in acked'
  BY DEF OutboundOnRecord, OnRecord, Elems
<1>1. CASE Recorded(k)
  BY <1>1 DEF Recorded
<1>2. CASE k \in Elems(outbound)
  <2>1. k \in Packet
    BY <1>2, ElemsType DEF TypeInv, TypeOK
  <2>2. k.pid \in PacketID /\ k.msg \in Message
    BY <2>1 DEF Packet
  <2>3. inflight[k.pid] = k.msg \/ k.msg \in acked
    BY <1>2 DEF OutboundOnRecord, OnRecord
  <2>4. inflight[k.pid] = k.msg => k.pid \in InUse
    BY <2>2 DEF InUse, NoMsg, Message
  <2> QED BY <2>3, <2>4, WindowStep, CustodyStep
<1> QED BY <1>1, <1>2, OutboundStep DEF Unpromised

WireInv == TypeInv /\ FreshInv /\ OutboundOnRecord

\* The record of a PUBLISH exists before its PUBACK can arrive, on every
\* connection the session goes through: what the connection's queue holds is in
\* the session's window under the identifier it carries, or acknowledged.
THEOREM RecordedBeforeSent == Spec => []SentIsTracked
<1>1. Init => WireInv
  <2>1. Init => OutboundOnRecord
    BY DEF Init, OutboundOnRecord, Elems
  <2> QED BY <2>1, TypeInit, FreshInit DEF WireInv
<1>2. WireInv /\ [Next]_vars => WireInv'
  BY TypeStep, FreshStep, OnRecordStep DEF WireInv
<1>3. WireInv => SentIsTracked
  BY DEF WireInv, TypeInv, LockInv, OutboundOnRecord, OnRecord, Elems, SentIsTracked
<1> QED BY <1>1, <1>2, <1>3, PTL DEF Spec
----------------------------------------------------------------------------
(***************************************************************************)
(* What the client has read is in flight or acknowledged, or was promised  *)
(* to nobody; every PUBACK on its way answers something the client read.   *)
(***************************************************************************)
NeverOwed(m) ==
    /\ m <= published /\ m \notin owed
    /\ \A p \in Publishers : pubMsg[p] # m

ReadInv ==
    /\ \A k \in Elems(outbound) : k.pid = 0 => NeverOwed(k.msg)
    /\ \A m \in received : m \in InflightMessages \cup acked \/ NeverOwed(m)
    /\ \A a \in Elems(toBroker) : a.msg \in received

\* No PUBACK on its way names an identifier that has meanwhile been given to
\* another message: what 65535 identifiers and a rotating cursor are there for.
NoStaleAck ==
    \A a \in Elems(toBroker) : a.pid \in InUse => inflight[a.pid] = a.msg

AckedWasRead == acked \subseteq received

\* Publishers hand over what they hold, and the next message is a new one.
LEMMA NeverOwedStays ==
    ASSUME TypeInv, FreshInv, [Next]_vars, NEW m \in Message, NeverOwed(m)
    PROVE  NeverOwed(m)'
<1>1. published \in Nat /\ m \in Nat
  BY DEF TypeInv, TypeOK, Message
<1>2. pubMsg \in [Publishers -> Message \cup {NoMsg}] /\ m # NoMsg
  BY DEF TypeInv, TypeOK, Message, NoMsg
<1>3. CASE UNCHANGED <<pubMsg, published, owed>>
  BY <1>3 DEF NeverOwed
<1>4. CASE DeliverQoS0
  BY <1>1, <1>4 DEF DeliverQoS0, NeverOwed
<1>5. ASSUME NEW p \in Publishers, LookupSink(p) PROVE NeverOwed(m)'
  BY <1>1, <1>2, <1>5 DEF LookupSink, NeverOwed
<1>6. ASSUME NEW p \in Publishers, Deliver(p) PROVE NeverOwed(m)'
  BY <1>1, <1>2, <1>6 DEF Deliver, NeverOwed
<1>7. CASE DeliverRetained
  BY <1>1, <1>7 DEF DeliverRetained, NeverOwed
<1>8. Reader \/ WriteLoop \/ PeerGone \/ Close \/ Retransmitter \/ Tick
        => DeliverRetained \/ UNCHANGED <<pubMsg, published, owed>>
  BY DEF Reader, Connect, RegisterSink, WriteConnack, ConnackFails, ResumeSession,
         ResumeRetransmit, HandlePuback, PromoteQueued, PromotePutsBack, PromoteEnds,
         UnregisterSink, MarkDisconnected, WriteLoop, PeerGone, Close,
         Retransmitter, RetransmitScan, RetransmitExpired, RetransmitOne,
         RetransmitEnds, Tick
<1>9. UNCHANGED vars => UNCHANGED <<pubMsg, published, owed>>
  BY DEF vars
<1> QED BY <1>3, <1>4, <1>5, <1>6, <1>7, <1>8, <1>9 DEF Next

\* A message in the window or acknowledged is one or the other after a step.
LEMMA InHandStays ==
    ASSUME TypeInv, FreshInv, [Next]_vars, NEW m \in InflightMessages \cup acked
    PROVE  m \in InflightMessages' \cup acked'
<1>1. /\ acked \subseteq acked'
      /\ \A p \in InUse : inflight'[p] = inflight[p] \/ inflight[p] \in acked'
  BY CustodyStep, WindowStep
<1>2. CASE m \in acked
  BY <1>1, <1>2
<1>3. CASE m \in InflightMessages
  <2>1. PICK p \in InUse : m = inflight[p]
    BY <1>3 DEF InflightMessages
  <2>2. CASE inflight'[p] = inflight[p]
    BY <2>1, <2>2 DEF InUse, InflightMessages
  <2> QED BY <1>1, <2>1, <2>2
<1> QED BY <1>2, <1>3

\* The client reads what its connection's queue held, and nothing else.
LEMMA ReadStep ==
    ASSUME WireInv, ReadInv, [Next]_vars
    PROVE  ReadInv'
<1> USE DEF WireInv
<1>0. Elems(outbound) \subseteq Packet
  BY ElemsType DEF TypeInv, TypeOK
<1>1. \A k \in Elems(outbound) : k.pid \in PacketID \cup {0} /\ k.msg \in Message
  BY <1>0 DEF Packet
<1>2. received \subseteq Message
  BY DEF TypeInv, TypeOK
<1>3. ASSUME NEW k \in Elems(outbound'), k.pid = 0 PROVE NeverOwed(k.msg)'
  <2>1. CASE k \in Elems(outbound)
    <3>1. PICK m \in Message : m = k.msg
      BY <1>1, <2>1
    <3>2. NeverOwed(m)
      BY <1>3, <2>1, <3>1 DEF ReadInv
    <3>3. NeverOwed(m)'
      BY <3>2, NeverOwedStays
    <3> QED BY <3>1, <3>3 DEF NeverOwed
  <2>2. CASE Unpromised(k)
    <3>1. published \in Nat /\ \A m \in owed : m <= published
      BY DEF TypeInv, TypeOK, FreshInv, Message
    <3>2. \A p \in Publishers : pubMsg[p] # published + 1
      BY <3>1 DEF TypeInv, TypeOK, FreshInv, Message, NoMsg
    <3>3. published + 1 \notin owed
      BY <3>1
    <3> QED BY <2>2, <3>1, <3>2, <3>3 DEF Unpromised, NeverOwed
  <2>3. ~Recorded(k)
    BY <1>3 DEF Recorded, PacketID
  <2> QED BY <2>1, <2>2, <2>3, OutboundStep
<1>4. ASSUME NEW m \in received' PROVE m \in InflightMessages' \cup acked' \/ NeverOwed(m)'
  <2>1. CASE m \in received
    <3>1. m \in Message
      BY <1>2, <2>1
    <3>2. CASE m \in InflightMessages \cup acked
      BY <3>2, InHandStays
    <3>3. CASE NeverOwed(m)
      BY <3>1, <3>3, NeverOwedStays
    <3> QED BY <2>1, <3>2, <3>3 DEF ReadInv
  <2>2. CASE \E k \in Elems(outbound) : m = k.msg
    <3>1. PICK k \in Elems(outbound) : m = k.msg
      BY <2>2
    <3>2. m \in Message
      BY <1>1, <3>1
    <3>3. CASE k.pid = 0
      <4>1. NeverOwed(m)
        BY <3>1, <3>3 DEF ReadInv
      <4> QED BY <3>2, <4>1, NeverOwedStays
    <3>4. CASE k.pid # 0
      <4>1. inflight[k.pid] = m \/ m \in acked
        BY <3>1, <3>4 DEF OutboundOnRecord, OnRecord
      <4>2. inflight[k.pid] = m => m \in InflightMessages
        BY <1>1, <3>1, <3>2, <3>4 DEF InflightMessages, InUse, Message, NoMsg
      <4> QED BY <4>1, <4>2, InHandStays
    <3> QED BY <3>3, <3>4
  <2> QED BY <2>1, <2>2, PubackStep
<1>5. ASSUME NEW a \in Elems(toBroker') PROVE a.msg \in received'
  BY PubackStep DEF ReadInv
<1>6. /\ Elems(outbound') = Elems(outbound)' /\ Elems(toBroker') = Elems(toBroker)'
  BY DEF Elems
<1> QED BY <1>3, <1>4, <1>5, <1>6 DEF ReadInv

\* Only a PUBACK releases; one that is not stale releases what it answers.
LEMMA AckedStep ==
    ASSUME TypeInv, ReadInv, NoStaleAck, AckedWasRead, [Next]_vars
    PROVE  AckedWasRead'
<1>1. received \subseteq received'
  BY PubackStep
<1>2. CASE UNCHANGED acked
  BY <1>1, <1>2 DEF AckedWasRead
<1>3. CASE HandlePuback
  <2> DEFINE a == Head(toBroker)
  <2>1. a \in Elems(toBroker)
    BY <1>3, ElemsOfTail DEF HandlePuback, TypeInv, TypeOK
  <2>2. \/ UNCHANGED acked
        \/ a.pid \in InUse /\ acked' = acked \cup {inflight[a.pid]}
    BY <1>3 DEF HandlePuback, Acknowledge
  <2>3. a.pid \in InUse => inflight[a.pid] \in received
    BY <2>1 DEF NoStaleAck, ReadInv
  <2> QED BY <1>1, <2>2, <2>3 DEF AckedWasRead
<1>4. Reader => HandlePuback \/ UNCHANGED acked
  BY DEF Reader, Connect, RegisterSink, WriteConnack, ConnackFails, ResumeSession,
         ResumeRetransmit, PromoteQueued, PromotePutsBack, PromoteEnds,
         DeliverRetained, UnregisterSink, MarkDisconnected
<1>5. WriteLoop \/ PeerGone \/ Close \/ Retransmitter \/ Tick \/ DeliverQoS0
        => UNCHANGED acked
  BY DEF WriteLoop, PeerGone, Close, Retransmitter, RetransmitScan,
         RetransmitExpired, RetransmitOne, RetransmitEnds, Tick, DeliverQoS0
<1>6. ASSUME NEW p \in Publishers, LookupSink(p) \/ Deliver(p) PROVE UNCHANGED acked
  BY <1>6 DEF LookupSink, Deliver
<1>7. UNCHANGED vars => UNCHANGED acked
  BY DEF vars
<1> QED BY <1>2, <1>3, <1>4, <1>5, <1>6, <1>7 DEF Next

\* What is acknowledged was read, so what was not read is still held.
LEMMA AtLeastOnceFrom ==
    ASSUME Custody, AckedWasRead
    PROVE  AtLeastOnce
BY DEF Custody, AckedWasRead, AtLeastOnce

HeldInv == WireInv /\ CustodyInv /\ ReadInv

\* At first nothing is on its way and nothing has been read.
LEMMA HeldInit == Init => HeldInv /\ AckedWasRead
<1> SUFFICES ASSUME Init PROVE HeldInv /\ AckedWasRead
  OBVIOUS
<1>1. Elems(outbound) = {} /\ Elems(toBroker) = {} /\ received = {} /\ acked = {}
  BY DEF Init, Elems
<1>2. WireInv
  BY <1>1, TypeInit, FreshInit DEF WireInv, OutboundOnRecord
<1>3. ReadInv
  BY <1>1 DEF ReadInv
<1>4. AckedWasRead
  BY <1>1 DEF AckedWasRead
<1> QED BY <1>2, <1>3, <1>4, CustodyInit DEF HeldInv

\* The parts of HeldInv are preserved together.
LEMMA HeldStep ==
    ASSUME HeldInv, [Next]_vars
    PROVE  HeldInv'
<1>1. WireInv'
  BY TypeStep, FreshStep, OnRecordStep DEF HeldInv, WireInv
<1>2. CustodyInv'
  BY CustodyStep, CustodyInvStep DEF HeldInv, WireInv
<1>3. ReadInv'
  BY ReadStep DEF HeldInv
<1> QED BY <1>1, <1>2, <1>3 DEF HeldInv

\* At least once, as long as no PUBACK is taken for another message's: what the
\* client has not received is still in flight or queued, or was given up as
\* Custody says.  Retransmission, reconnecting and full queues endanger nothing else.
THEOREM OnlyStaleAcksLose == Spec /\ []NoStaleAck => []AtLeastOnce
<1>1. HeldInv /\ AckedWasRead /\ NoStaleAck /\ [Next]_vars => (HeldInv /\ AckedWasRead)'
  BY HeldStep, AckedStep DEF HeldInv, WireInv
<1>2. HeldInv /\ AckedWasRead => AtLeastOnce
  BY AtLeastOnceFrom DEF HeldInv, CustodyInv
<1> QED BY <1>1, <1>2, HeldInit, PTL DEF Spec
----------------------------------------------------------------------------
(***************************************************************************)
(* A session is a channel: every step is a step of Channel, or changes     *)
(* nothing that Channel speaks of.                                         *)
(***************************************************************************)
Held == InflightMessages \cup QueuedMessages

\* A sequence without repetitions has as many elements as places.
LEMMA DistinctCardinality ==
    ASSUME NEW S, NEW s \in Seq(S), Distinct(s)
    PROVE  IsFiniteSet(Elems(s)) /\ Cardinality(Elems(s)) = Len(s)
<1> DEFINE f == [i \in 1..Len(s) |-> s[i]]
<1>1. Len(s) \in Nat
  OBVIOUS
<1>2. IsFiniteSet(1..Len(s)) /\ Cardinality(1..Len(s)) = Len(s)
  BY <1>1, FS_Interval, SMTT(60)
<1>3. f \in Surjection(1..Len(s), Elems(s))
  BY DEF Surjection, Elems
<1>4. f \in Injection(1..Len(s), Elems(s))
  BY <1>3 DEF Injection, IsInjective, Surjection, Distinct
<1> QED BY <1>2, <1>3, <1>4, FS_Surjection

\* The window holds one message per identifier in use.
LEMMA WindowCardinality ==
    ASSUME TypeOK, WindowDistinct
    PROVE  /\ IsFiniteSet(InflightMessages)
           /\ Cardinality(InflightMessages) = Cardinality(InUse)
<1> DEFINE f == [p \in InUse |-> inflight[p]]
<1>1. f \in Surjection(InUse, InflightMessages)
  BY DEF Surjection, InflightMessages
<1>2. f \in Injection(InUse, InflightMessages)
  BY <1>1 DEF Injection, IsInjective, Surjection, WindowDistinct
<1> QED BY <1>1, <1>2, InUseFinite, FS_Surjection

\* How many messages the session holds.
LEMMA HeldCardinality ==
    ASSUME TypeOK, SingleCustody
    PROVE  /\ IsFiniteSet(Held)
           /\ Cardinality(Held) = Cardinality(InUse) + Len(queued)
<1>1. queued \in Seq(Message) /\ Distinct(queued) /\ QueuedMessages = Elems(queued)
  BY SingleCustodyParts DEF TypeOK, SessionTypeOK
<1>2. IsFiniteSet(QueuedMessages) /\ Cardinality(QueuedMessages) = Len(queued)
  BY <1>1, DistinctCardinality
<1>3. /\ IsFiniteSet(InflightMessages)
      /\ Cardinality(InflightMessages) = Cardinality(InUse)
  BY WindowCardinality, SingleCustodyParts
<1>4. InflightMessages \cap QueuedMessages = {}
  BY DEF SingleCustody
<1>5. /\ IsFiniteSet(Held)
      /\ Cardinality(Held) = Cardinality(InflightMessages) + Cardinality(QueuedMessages)
                             - Cardinality(InflightMessages \cap QueuedMessages)
  BY <1>2, <1>3, FS_Union DEF Held
<1>6. Cardinality(InflightMessages \cap QueuedMessages) = 0
  BY <1>4, FS_EmptySet
<1>7. Cardinality(InUse) \in Nat /\ Len(queued) \in Nat
  BY <1>1, InUseFinite
<1> QED BY <1>2, <1>3, <1>5, <1>6, <1>7

\* The limits of the window and of the queue bound what the session holds.
LEMMA HeldBound ==
    TypeOK /\ SingleCustody /\ WindowBounds
      => Cardinality(Held) <= MaxInflight + MaxQueued
<1> SUFFICES ASSUME TypeOK, SingleCustody, WindowBounds
             PROVE  Cardinality(Held) <= MaxInflight + MaxQueued
  OBVIOUS
<1>1. Cardinality(InUse) \in Nat /\ Len(queued) \in Nat
  BY InUseFinite DEF TypeOK, SessionTypeOK
<1> QED BY <1>1, HeldCardinality DEF WindowBounds

\* What a step takes responsibility for, the client cannot have read before.
LEMMA TakenUnread ==
    ASSUME TypeInv, FreshInv, CustodyInv, ReadInv, [Next]_vars,
           NEW m \in Message \ owed, owed' = owed \cup {m}
    PROVE  m \notin received
<1>1. InflightMessages \cup acked \subseteq owed
  BY DEF CustodyInv, Custody
<1>2. published \in Nat
  BY DEF TypeInv, TypeOK, Message
<1>3. ~NeverOwed(m)
  <2>1. ASSUME NEW p \in Publishers, Deliver(p) PROVE ~NeverOwed(m)
    <3>1. m = pubMsg[p]
      BY <2>1 DEF Deliver
    <3> QED BY <3>1 DEF NeverOwed
  <2>2. CASE DeliverRetained
    <3>1. m = published + 1
      BY <2>2 DEF DeliverRetained
    <3> QED BY <1>2, <3>1 DEF NeverOwed
  <2>3. Reader => DeliverRetained \/ UNCHANGED owed
    BY DEF Reader, Connect, RegisterSink, WriteConnack, ConnackFails, ResumeSession,
           ResumeRetransmit, HandlePuback, PromoteQueued, PromotePutsBack,
           PromoteEnds, UnregisterSink, MarkDisconnected
  <2>4. WriteLoop \/ PeerGone \/ Close \/ Retransmitter \/ Tick \/ DeliverQoS0
          => UNCHANGED owed
    BY DEF WriteLoop, PeerGone, Close, Retransmitter, RetransmitScan,
           RetransmitExpired, RetransmitOne, RetransmitEnds, Tick, DeliverQoS0
  <2>5. ASSUME NEW p \in Publishers, LookupSink(p) PROVE UNCHANGED owed
    BY <2>5 DEF LookupSink
  <2>6. UNCHANGED vars => UNCHANGED owed
    BY DEF vars
  <2>7. ~UNCHANGED owed
    OBVIOUS
  <2> QED BY <2>1, <2>2, <2>3, <2>4, <2>5, <2>6, <2>7 DEF Next
<1> QED BY <1>1, <1>3 DEF ReadInv

\* The client reads in a step of the writer, which moves no message.
LEMMA ReadOrMove ==
    ASSUME TypeInv, [Next]_vars
    PROVE  \/ UNCHANGED received
           \/ /\ UNCHANGED custodyVars
              /\ \E k \in Elems(outbound) : received' = received \cup {k.msg}
<1>1. CASE WriteLoop
  <2>1. Head(outbound) \in Elems(outbound)
    BY <1>1, ElemsOfTail DEF WriteLoop, TypeInv, TypeOK
  <2>2. received' = received \cup {Head(outbound).msg} \/ UNCHANGED received
    BY <1>1 DEF WriteLoop
  <2>3. UNCHANGED custodyVars
    BY <1>1 DEF WriteLoop, custodyVars
  <2> QED BY <2>1, <2>2, <2>3
<1>2. Reader \/ PeerGone \/ Close \/ Retransmitter \/ Tick \/ DeliverQoS0
        => UNCHANGED received
  BY DEF Reader, Connect, RegisterSink, WriteConnack, ConnackFails, ResumeSession,
         ResumeRetransmit, HandlePuback, PromoteQueued, PromotePutsBack, PromoteEnds,
         DeliverRetained, UnregisterSink, MarkDisconnected, PeerGone, Close,
         Retransmitter, RetransmitScan, RetransmitExpired, RetransmitOne,
         RetransmitEnds, Tick, DeliverQoS0
<1>3. ASSUME NEW p \in Publishers, LookupSink(p) \/ Deliver(p) PROVE UNCHANGED received
  BY <1>3 DEF LookupSink, Deliver
<1>4. UNCHANGED vars => UNCHANGED received
  BY DEF vars
<1> QED BY <1>1, <1>2, <1>3, <1>4 DEF Next

ChannelInv == HeldInv /\ WindowBounds /\ AckedWasRead

Room == IF MaxQueued < MaxPacketID THEN MaxQueued ELSE MaxPacketID

\* The channel counts the way the session does.
LEMMA ChannelCardinality ==
    ASSUME NEW S
    PROVE  Ch!Cardinality(S) = Cardinality(S)
BY DEF Ch!Cardinality, Cardinality

\* The channel's Offer in terms of the session's state.
LEMMA OfferFrom ==
    ASSUME NEW m \in Message, m \notin owed, owed' = owed \cup {m}, acked' = acked,
           received' \cap owed' = received \cap owed,
           Cardinality(Held') <= MaxInflight + MaxQueued,
           \/ Held' = Held \cup {m} /\ GivenUp' = GivenUp
           \/ /\ Cardinality(Held) >= Room
              /\ \E d \in (Held \cup {m}) \ received :
                    /\ Held' = (Held \cup {m}) \ {d}
                    /\ GivenUp' = GivenUp \cup {d}
    PROVE  Ch!Offer(m)
<1>1. /\ Held = InflightMessages \cup QueuedMessages
      /\ Held' = InflightMessages' \cup QueuedMessages'
  BY DEF Held
<1>2. Ch!Cardinality(Held) = Cardinality(Held) /\ Ch!Cardinality(Held') = Cardinality(Held')
  <2>1. \A S : Ch!Cardinality(S) = Cardinality(S)
    BY ChannelCardinality
  <2> QED BY <2>1
<1>3. CASE Held' = Held \cup {m} /\ GivenUp' = GivenUp
  BY <1>1, <1>3, <1>2 DEF Ch!Offer
<1>4. ASSUME Cardinality(Held) >= Room, NEW d \in (Held \cup {m}) \ received,
             Held' = (Held \cup {m}) \ {d},
             GivenUp' = GivenUp \cup {d}
      PROVE  Ch!Offer(m)
  <2>1. d \in (Held \cup {m}) \ (received \cap owed)
    BY <1>4
  <2> QED BY <1>1, <1>4, <1>2, <2>1 DEF Ch!Offer, Room
<1> QED BY <1>3, <1>4

\* Taking a message on: kept, or dropped in its place or another's if the
\* channel is full.
LEMMA OfferStep ==
    ASSUME ChannelInv, ChannelInv', [Next]_vars, UNCHANGED received,
           NEW m \in Message, SendsNew(m) \/ HoldsNew(m) \/ RefusesNew(m)
    PROVE  Ch!Offer(m)
<1> USE DEF ChannelInv, HeldInv, WireInv, CustodyInv, TypeInv
<1>1. /\ m \notin owed /\ owed' = owed \cup {m} /\ acked' = acked
  BY DEF SendsNew, HoldsNew, RefusesNew, Takes
<1>2. received' \cap owed' = received \cap owed
  BY <1>1, TakenUnread
<1>3. m \notin Held /\ Held \subseteq owed /\ GivenUp \cap Held = {}
  BY <1>1 DEF Custody, SingleCustody, Held
<1>4. /\ Cardinality(Held) = Cardinality(InUse) + Len(queued)
      /\ Cardinality(InUse) \in Nat /\ Len(queued) \in Nat
  <2>1. Cardinality(Held) = Cardinality(InUse) + Len(queued)
    BY HeldCardinality
  <2>2. Cardinality(InUse) \in Nat
    BY InUseFinite
  <2>3. Len(queued) \in Nat
    BY DEF TypeOK, SessionTypeOK
  <2> QED BY <2>1, <2>2, <2>3
<1>5. Cardinality(Held') <= MaxInflight + MaxQueued
  <2>1. TypeOK' /\ SingleCustody' /\ WindowBounds'
    OBVIOUS
  <2>2. (Cardinality(Held) <= MaxInflight + MaxQueued)'
    BY <2>1, HeldBound, PTL
  <2> QED BY <2>2
<1>6. /\ Held = InflightMessages \cup QueuedMessages
      /\ Held' = InflightMessages' \cup QueuedMessages'
  BY DEF Held
<1>7. UNCHANGED inflight => InflightMessages' = InflightMessages
  BY DEF InflightMessages, InUse
<1>8. queued \in Seq(Message) /\ Distinct(queued) /\ WindowDistinct
  BY SingleCustodyParts DEF TypeOK, SessionTypeOK
<1>9. CASE SendsNew(m)
  <2>1. Held' = Held \cup {m}
    BY <1>6, <1>9, TracksInflight DEF SendsNew, QueuedMessages
  <2>2. GivenUp' = GivenUp
    BY <1>9, GivenUpStep DEF SendsNew
  <2> QED BY <1>1, <1>2, <1>5, <2>1, <2>2, OfferFrom
<1>10. CASE HoldsNew(m) /\ ~QueueFull
  <2>1. /\ queued' = Append(queued, m) /\ GivenUp' = GivenUp
        /\ UNCHANGED inflight
    BY <1>10, GivenUpStep DEF HoldsNew, Hold, Enqueue
  <2>2. QueuedMessages' = QueuedMessages \cup {m}
    BY <1>8, <2>1, SingleCustodyParts, ElemsAppend
  <2>3. Held' = Held \cup {m}
    BY <1>6, <1>7, <2>1, <2>2
  <2> QED BY <1>1, <1>2, <1>5, <2>1, <2>3, OfferFrom
<1>11. CASE HoldsNew(m) /\ QueueFull
  <2> DEFINE d == Head(queued)
  <2>0. queued # <<>>
    BY <1>8, <1>11 DEF QueueFull
  <2>1. /\ queued' = Append(Tail(queued), m) /\ GivenUp' = GivenUp \cup {d}
        /\ UNCHANGED inflight
    BY <1>11, GivenUpStep DEF HoldsNew, Hold, Enqueue
  <2>2. /\ Elems(Tail(queued)) = Elems(queued) \ {d} /\ d \in Elems(queued)
        /\ Tail(queued) \in Seq(Message)
    BY <1>8, <2>0, ElemsTail
  <2> HIDE DEF d
  <2>3. Elems(queued') = (Elems(queued) \ {d}) \cup {m}
    <3>1. PICK t \in Seq(Message) : t = Tail(queued)
      BY <2>2
    <3>2. Elems(Append(t, m)) = Elems(t) \cup {m}
      BY ElemsAppend
    <3> QED BY <2>1, <2>2, <3>1, <3>2
  <2>4. d \in Held /\ d \notin InflightMessages \cup acked /\ d \in owed /\ d # m
    BY <1>1, <1>3, <1>6, <2>2, SingleCustodyParts
  <2>5. Held' = (Held \cup {m}) \ {d}
    BY <1>6, <1>7, <2>1, <2>3, <2>4, SingleCustodyParts
  <2>6. d \notin received
    BY <2>4 DEF ReadInv, NeverOwed
  <2>7. Cardinality(Held) >= MaxQueued
    BY <1>4, <1>11 DEF QueueFull
  <2>8. Cardinality(Held) >= Room
    BY <1>4, <2>7 DEF Room
  <2>9. d \in (Held \cup {m}) \ received /\ GivenUp' = GivenUp \cup {d}
    BY <2>1, <2>4, <2>6
  <2> QED BY <1>1, <1>2, <1>5, <2>5, <2>8, <2>9, OfferFrom
<1>12. CASE RefusesNew(m)
  <2>1. /\ InUse = PacketID /\ UNCHANGED <<inflight, queued>>
        /\ GivenUp' = GivenUp \cup {m}
    BY <1>12, GivenUpStep DEF RefusesNew, PacketIDsExhausted
  <2>2. Held' = Held
    BY <1>6, <1>7, <2>1 DEF QueuedMessages
  <2>3. Held = (Held \cup {m}) \ {m} /\ m \notin received
    BY <1>1, <1>3, TakenUnread
  <2>4. Cardinality(Held) >= MaxPacketID
    BY <1>4, <2>1, FS_Interval DEF PacketID
  <2>5. Cardinality(Held) >= Room
    BY <1>4, <2>4 DEF Room
  <2>6. m \in (Held \cup {m}) \ received /\ GivenUp' = GivenUp \cup {m}
    BY <2>1, <2>3
  <2> QED BY <1>1, <1>2, <1>5, <2>2, <2>3, <2>5, <2>6, OfferFrom
<1> QED BY <1>9, <1>10, <1>11, <1>12

\* Every step of the session is a step of the channel.
LEMMA SessionStepIsChannelStep ==
    ASSUME ChannelInv, ChannelInv', [Next]_vars
    PROVE  [Ch!ChannelNext]_(Ch!channelVars)
<1> USE DEF ChannelInv, HeldInv, WireInv, CustodyInv, TypeInv
<1>0. CustodyNext
  BY CustodyStep
<1>1. UNCHANGED inflight => InflightMessages' = InflightMessages
  BY DEF InflightMessages, InUse
<1>2. queued \in Seq(Message) /\ Distinct(queued) /\ WindowDistinct
  BY SingleCustodyParts DEF TypeOK, SessionTypeOK
<1>3. ASSUME Held' = Held, UNCHANGED <<owed, acked, GivenUp>>,
             received' \cap owed' = received \cap owed
      PROVE  UNCHANGED Ch!channelVars
  BY <1>3 DEF Ch!channelVars, Held
<1>4. CASE ~UNCHANGED received
  <2>1. PICK k \in Elems(outbound) :
           UNCHANGED custodyVars /\ received' = received \cup {k.msg}
    BY <1>4, ReadOrMove
  <2>2. Held' = Held /\ UNCHANGED <<owed, acked, GivenUp>>
    BY <1>1, <2>1, GivenUpStep DEF custodyVars, Held, QueuedMessages
  <2>3. k \in Packet
    BY <2>1, ElemsType DEF TypeOK
  <2>4. k.pid \in PacketID \cup {0} /\ k.msg \in Message
    BY <2>3 DEF Packet
  <2>5. CASE k.pid = 0
    <3>1. k.msg \notin owed
      BY <2>5 DEF ReadInv, NeverOwed
    <3> QED BY <1>3, <2>1, <2>2, <3>1
  <2>6. CASE k.pid # 0
    <3>1. k.msg \in InflightMessages \cup acked
      BY <2>4, <2>6 DEF OutboundOnRecord, OnRecord, InflightMessages, InUse, Message, NoMsg
    <3>2. k.msg \in Held \cup acked /\ k.msg \in owed
      BY <3>1 DEF Held, Custody
    <3>3. received' \cap owed' = (received \cap owed) \cup {k.msg}
      BY <2>1, <2>2, <3>2
    <3>4. Ch!Receive(k.msg)
      BY <2>2, <3>2, <3>3 DEF Ch!Receive, Held
    <3> QED BY <2>4, <3>4 DEF Ch!ChannelNext
  <2> QED BY <2>4, <2>5, <2>6
<1>5. ASSUME UNCHANGED received, NEW m \in Message, SendsNew(m) \/ HoldsNew(m) \/ RefusesNew(m)
      PROVE  Ch!ChannelNext
  BY <1>5, OfferStep DEF Ch!ChannelNext
<1>6. CASE UNCHANGED received /\ Promotes
  <2> DEFINE m == Head(queued)
  <2>1. /\ queued # <<>> /\ Tracks(m) /\ queued' = Tail(queued)
        /\ UNCHANGED <<owed, acked, GivenUp>>
    BY <1>6, GivenUpStep DEF Promotes
  <2>2. Elems(queued') = Elems(queued) \ {m} /\ m \in Elems(queued) /\ m \in Message
    BY <1>2, <2>1, ElemsTail
  <2> HIDE DEF m
  <2>3. InflightMessages' = InflightMessages \cup {m}
    BY <2>1, <2>2, TracksInflight
  <2>4. Held' = Held
    BY <2>2, <2>3, SingleCustodyParts DEF Held
  <2> QED BY <1>3, <1>6, <2>1, <2>4
<1>7. CASE UNCHANGED received /\ PutsBack
  <2>1. Elems(queued') = Elems(queued)
    BY <1>2, <1>7, ElemsRotate DEF PutsBack
  <2>2. Held' = Held
    BY <1>1, <1>7, <2>1, SingleCustodyParts DEF Held, PutsBack
  <2> QED BY <1>3, <1>7, <2>2, GivenUpStep DEF PutsBack
<1>8. CASE UNCHANGED received /\ Releases
  <2>1. PICK pid \in InUse :
           /\ inflight' = [inflight EXCEPT ![pid] = NoMsg]
           /\ acked' = acked \cup {inflight[pid]}
           /\ UNCHANGED <<queued, owed, GivenUp>>
    BY <1>8, GivenUpStep DEF Releases
  <2> DEFINE m == inflight[pid]
  <2>2. /\ InflightMessages' = InflightMessages \ {m} /\ m \in InflightMessages
        /\ m \in Message
    BY <1>2, <2>1, ReleasesInflight DEF InflightMessages, InUse, TypeOK, SessionTypeOK
  <2> HIDE DEF m
  <2>3. QueuedMessages' = QueuedMessages /\ m \notin QueuedMessages /\ m \in owed
    BY <2>1, <2>2 DEF QueuedMessages, SingleCustody, Custody
  <2>4. Held' = Held \ {m} /\ m \in Held
    BY <2>2, <2>3 DEF Held
  <2>5. m \in received
    BY <1>8, <2>1 DEF AckedWasRead, m
  <2>6. Ch!Release(m)
    BY <1>8, <2>1, <2>3, <2>4, <2>5 DEF Ch!Release, Held, m
  <2> QED BY <2>2, <2>6 DEF Ch!ChannelNext
<1>9. CASE UNCHANGED received /\ UNCHANGED custodyVars
  <2>1. Held' = Held /\ UNCHANGED <<owed, acked, GivenUp>>
    BY <1>1, <1>9, GivenUpStep DEF custodyVars, Held, QueuedMessages
  <2> QED BY <1>3, <1>9, <2>1
<1> QED BY <1>0, <1>4, <1>5, <1>6, <1>7, <1>8, <1>9 DEF CustodyNext

\* The new session is the empty channel.
LEMMA ChannelInitially == Init => ChannelInv /\ Ch!ChannelInit
<1> SUFFICES ASSUME Init PROVE ChannelInv /\ Ch!ChannelInit
  OBVIOUS
<1>1. /\ InUse = {} /\ Len(queued) = 0
      /\ GivenUp = {} /\ refused = {} /\ forgotten = {}
  BY DEF Init, NewSession, InUse, GivenUp
<1>2. InflightMessages = {} /\ QueuedMessages = {}
  BY <1>1 DEF InflightMessages, QueuedMessages
<1>3. WindowBounds
  BY <1>1, FS_EmptySet DEF WindowBounds
<1>4. Ch!ChannelInit
  BY <1>1, <1>2 DEF Init, Ch!ChannelInit
<1> QED BY <1>3, <1>4, HeldInit DEF ChannelInv

\* The invariant behind the refinement.
LEMMA ChannelInvStep ==
    ASSUME ChannelInv, NoStaleAck, [Next]_vars
    PROVE  ChannelInv'
BY HeldStep, AckedStep, CustodyStep, BoundsStep DEF ChannelInv, HeldInv, WireInv

\* While no PUBACK is taken for another message's, the session implements the
\* channel: identifiers, window, queue, retransmission and reconnecting do not
\* show, and a message is dropped only when the session is full and unread.
THEOREM OnlyStaleAcksShow == Spec /\ []NoStaleAck => ImplementsChannel
<1>1. ChannelInv /\ NoStaleAck /\ [Next]_vars => ChannelInv'
  BY ChannelInvStep
<1>2. ChannelInv /\ ChannelInv' /\ [Next]_vars => [Ch!ChannelNext]_(Ch!channelVars)
  BY SessionStepIsChannelStep
<1> QED BY <1>1, <1>2, ChannelInitially, PTL DEF Spec, ImplementsChannel, Ch!ChannelSpec
----------------------------------------------------------------------------
(***************************************************************************)
(* The cursor before it wraps.                                             *)
(***************************************************************************)
Delivering == {p \in Publishers : pubMsg[p] # NoMsg}

\* A message takes an identifier when it is sent, and a retained message that
\* finds the window full takes one more before it is queued.
CursorInv ==
    /\ IsFiniteSet(Delivering)
    /\ nextPacketID + Len(queued) + Cardinality(Delivering) <= 2 * published + 1

\* Until the cursor wraps, every identifier it has handed out is behind it.
BehindInv ==
    /\ \A p \in InUse : p < nextPacketID
    /\ \A k \in Elems(outbound) :
          k.pid < nextPacketID /\ (k.pid \in InUse => inflight[k.pid] = k.msg)
    /\ \A a \in Elems(toBroker) :
          a.pid < nextPacketID /\ (a.pid \in InUse => inflight[a.pid] = a.msg)

\* Enough identifiers for the cursor never to wrap.
IdentifiersLast == 2 * MaxMessages < MaxPacketID

\* A scan that starts on a free identifier takes it.
LEMMA TakesCursor ==
    ASSUME TypeOK, BehindInv, nextPacketID < MaxPacketID, NEW pid, NextPacketID(pid)
    PROVE  pid = nextPacketID /\ nextPacketID' = nextPacketID + 1
<1>1. nextPacketID \in 1..MaxPacketID
  BY DEF TypeOK, SessionTypeOK, PacketID
<1>2. nextPacketID \notin InUse
  BY <1>1 DEF BehindInv
<1>3. Candidate(0) = nextPacketID /\ Candidate(1) = nextPacketID + 1
  BY <1>1 DEF Candidate
<1>4. PICK k \in 0..(MaxPacketID - 1) :
         /\ pid = Candidate(k)
         /\ \A j \in 0..(k - 1) : Candidate(j) \in InUse
         /\ nextPacketID' = Candidate(k + 1)
  BY DEF NextPacketID
<1>5. k = 0
  <2>1. k # 0 => 0 \in 0..(k - 1)
    BY <1>4
  <2> QED BY <1>2, <1>3, <1>4, <2>1
<1> QED BY <1>3, <1>4, <1>5

\* What a step does to the window while the cursor only moves on.
WindowAhead ==
    \/ nextPacketID' \in {nextPacketID, nextPacketID + 1} /\ UNCHANGED inflight
    \/ /\ nextPacketID' = nextPacketID + 1
       /\ \E m \in Message : inflight' = [inflight EXCEPT ![nextPacketID] = m]
    \/ /\ nextPacketID' = nextPacketID
       /\ \E pid \in PacketID : inflight' = [inflight EXCEPT ![pid] = NoMsg]

\* Allocating moves the cursor on by one.
LEMMA TrackAndSendAhead ==
    ASSUME TypeOK, BehindInv, nextPacketID < MaxPacketID,
           NEW s, NEW m \in Message, TrackAndSend(s, m)
    PROVE  WindowAhead /\ nextPacketID' = nextPacketID + 1
<1>1. PICK pid \in PacketID : NextPacketID(pid) /\ TrackInflight(pid, m)
  BY DEF TrackAndSend
<1>2. pid = nextPacketID /\ nextPacketID' = nextPacketID + 1
  BY <1>1, TakesCursor
<1> QED BY <1>1, <1>2 DEF TrackInflight, WindowAhead

\* Every allocation is paid for: by a message a publisher or the queue gives up,
\* or by a retained message's two.
LEMMA CursorStep ==
    ASSUME IdentifiersLast, TypeInv, CursorInv, BehindInv, [Next]_vars
    PROVE  CursorInv' /\ WindowAhead
<1> USE DEF TypeInv
<1>1. /\ nextPacketID \in Nat /\ published \in Nat /\ published <= MaxMessages
      /\ queued \in Seq(Message) /\ Len(queued) \in Nat
      /\ IsFiniteSet(Delivering) /\ Cardinality(Delivering) \in Nat
  BY FS_CardinalityType DEF TypeOK, SessionTypeOK, PacketID, Message, CursorInv
<1>2. nextPacketID + Len(queued) + Cardinality(Delivering) <= 2 * published + 1
  BY DEF CursorInv
<1>3. 2 * MaxMessages < MaxPacketID
  BY DEF IdentifiersLast
<1>4. pubMsg \in [Publishers -> Message \cup {NoMsg}]
  BY DEF TypeOK
<1>5. ASSUME UNCHANGED <<inflight, nextPacketID, pubMsg>>, Len(queued)' = Len(queued),
             published' \in {published, published + 1}
      PROVE  CursorInv' /\ WindowAhead
  <2>1. Delivering' = Delivering
    BY <1>5 DEF Delivering
  <2> QED BY <1>1, <1>2, <1>5, <2>1 DEF CursorInv, WindowAhead
<1>6. ASSUME NEW p \in Publishers, LookupSink(p) PROVE CursorInv' /\ WindowAhead
  <2>1. Delivering' = Delivering \cup {p} /\ p \notin Delivering
    BY <1>1, <1>4, <1>6 DEF LookupSink, Delivering, NoMsg
  <2>2. IsFiniteSet(Delivering') /\ Cardinality(Delivering') = Cardinality(Delivering) + 1
    BY <1>1, <2>1, FS_AddElement
  <2> QED BY <1>1, <1>2, <1>6, <2>2 DEF LookupSink, CursorInv, WindowAhead
<1>7. ASSUME NEW p \in Publishers, Deliver(p) PROVE CursorInv' /\ WindowAhead
  <2>1. Delivering' = Delivering \ {p} /\ p \in Delivering
    BY <1>4, <1>7 DEF Deliver, Delivering, NoMsg
  <2>2. IsFiniteSet(Delivering') /\ Cardinality(Delivering') = Cardinality(Delivering) - 1
    BY <1>1, <2>1, FS_RemoveElement
  <2>3. Cardinality(Delivering') \in Nat
    BY <2>2, FS_CardinalityType
  <2>4. published' = published /\ pubMsg[p] \in Message
    BY <1>4, <1>7 DEF Deliver
  <2>5. CASE Hold(pubMsg[p]) /\ UNCHANGED windowVars
    <3>1. Len(queued') <= Len(queued) + 1 /\ Len(queued') \in Nat
      BY <1>1, <2>4, <2>5 DEF Hold, Enqueue, QueueFull
    <3> QED BY <1>1, <1>2, <2>2, <2>3, <2>4, <2>5, <3>1 DEF CursorInv, WindowAhead
  <2>6. CASE UNCHANGED <<windowVars, queueVars>>
    BY <1>1, <1>2, <2>2, <2>3, <2>4, <2>6 DEF CursorInv, WindowAhead
  <2>7. CASE TrackAndSend(pubSink[p], pubMsg[p]) /\ UNCHANGED queueVars
    <3>1. nextPacketID < MaxPacketID
      BY <1>1, <1>2, <1>3, <2>2, <2>3
    <3>2. WindowAhead /\ nextPacketID' = nextPacketID + 1
      BY <2>4, <2>7, <3>1, TrackAndSendAhead
    <3> QED BY <1>1, <1>2, <2>2, <2>3, <2>4, <2>7, <3>2 DEF CursorInv
  <2> QED BY <1>7, <2>5, <2>6, <2>7 DEF Deliver
<1>8. CASE DeliverRetained
  <2> DEFINE m == published + 1
  <2>1. /\ m \in Message /\ published' = published + 1 /\ Delivering' = Delivering
        /\ published + 1 <= MaxMessages
    BY <1>1, <1>8 DEF DeliverRetained, Message, Delivering
  <2>2. nextPacketID < MaxPacketID
    BY <1>1, <1>2, <1>3, <2>1
  <2> HIDE DEF m
  <2>3. CASE UNCHANGED <<windowVars, queueVars>>
    BY <1>1, <1>2, <2>1, <2>3 DEF CursorInv, WindowAhead
  <2>4. CASE TrackAndSend(conn, m) /\ UNCHANGED queueVars
    <3>1. WindowAhead /\ nextPacketID' = nextPacketID + 1
      BY <2>1, <2>2, <2>4, TrackAndSendAhead
    <3> QED BY <1>1, <1>2, <2>1, <2>4, <3>1 DEF CursorInv
  <2>5. CASE /\ \E pid \in PacketID : NextPacketID(pid)
             /\ Hold(m) /\ UNCHANGED inflight
    <3>1. Len(queued') <= Len(queued) + 1 /\ Len(queued') \in Nat
      BY <1>1, <2>1, <2>5 DEF Hold, Enqueue, QueueFull
    <3>2. nextPacketID' = nextPacketID + 1
      BY <2>2, <2>5, TakesCursor
    <3> QED BY <1>1, <1>2, <2>1, <2>5, <3>1, <3>2 DEF CursorInv, WindowAhead
  <2> QED BY <1>8, <2>3, <2>4, <2>5 DEF DeliverRetained, m
<1>9. CASE PromoteQueued
  <2>1. /\ Head(queued) \in Message /\ Len(queued) > 0
        /\ Len(queued') = Len(queued) - 1 /\ TrackAndSend(conn, Head(queued))
    BY <1>1, <1>9 DEF PromoteQueued, DrainQueue
  <2>2. published' = published /\ Delivering' = Delivering
    BY <1>9 DEF PromoteQueued, Delivering
  <2>3. nextPacketID < MaxPacketID
    BY <1>1, <1>2, <1>3, <2>1
  <2>4. WindowAhead /\ nextPacketID' = nextPacketID + 1
    BY <2>1, <2>3, TrackAndSendAhead
  <2> QED BY <1>1, <1>2, <2>1, <2>2, <2>4 DEF CursorInv
<1>10. CASE HandlePuback
  <2> DEFINE a == Head(toBroker)
  <2>1. Delivering' = Delivering /\ published' = published /\ queued' = queued
    BY <1>10 DEF HandlePuback, Delivering
  <2>2. CASE Acknowledge(a.pid)
    BY <1>1, <1>2, <2>1, <2>2 DEF Acknowledge, InUse, CursorInv, WindowAhead
  <2>3. CASE UNCHANGED windowVars
    BY <1>1, <1>2, <2>1, <2>3 DEF CursorInv, WindowAhead
  <2> QED BY <1>10, <2>2, <2>3 DEF HandlePuback
<1>11. CASE PromotePutsBack
  <2>1. Len(queued)' = Len(queued)
    BY <1>1, <1>11 DEF PromotePutsBack
  <2> QED BY <1>5, <1>11, <2>1 DEF PromotePutsBack
<1>12. Reader => \/ DeliverRetained \/ PromoteQueued \/ HandlePuback \/ PromotePutsBack
                 \/ UNCHANGED <<inflight, nextPacketID, pubMsg, queued, published>>
  BY DEF Reader, Connect, RegisterSink, WriteConnack, ConnackFails, ResumeSession,
         ResumeRetransmit, MarkRetransmitted, PromoteEnds, UnregisterSink,
         MarkDisconnected, Disconnect
<1>13. WriteLoop \/ PeerGone \/ Close \/ Retransmitter \/ Tick
         => UNCHANGED <<inflight, nextPacketID, pubMsg, queued, published>>
  BY DEF WriteLoop, PeerGone, Close, Retransmitter, RetransmitScan,
         RetransmitExpired, RetransmitOne, MarkRetransmitted, RetransmitEnds,
         Tick, AgeInflight
<1>14. DeliverQoS0 => /\ UNCHANGED <<inflight, nextPacketID, pubMsg, queued>>
                      /\ published' = published + 1
  BY DEF DeliverQoS0
<1>15. UNCHANGED vars => UNCHANGED <<inflight, nextPacketID, pubMsg, queued, published>>
  BY DEF vars
<1>16. UNCHANGED <<inflight, nextPacketID, pubMsg, queued, published>> \/ DeliverQoS0
         => CursorInv' /\ WindowAhead
  BY <1>5, <1>14
<1> QED BY <1>6, <1>7, <1>8, <1>9, <1>10, <1>11, <1>12, <1>13, <1>15, <1>16 DEF Next

\* A new identifier is one that no packet and no PUBACK carries yet.
LEMMA BehindStep ==
    ASSUME TypeInv, TypeInv', BehindInv, WindowAhead, [Next]_vars
    PROVE  BehindInv'
<1>1. /\ inflight \in [PacketID -> Message \cup {NoMsg}]
      /\ nextPacketID \in PacketID /\ PacketID \subseteq Nat /\ nextPacketID' \in PacketID
  <2>1. PacketID \subseteq Nat
    BY DEF PacketID
  <2> QED BY <2>1 DEF TypeInv, TypeOK, SessionTypeOK
<1>2. nextPacketID <= nextPacketID'
  BY <1>1 DEF WindowAhead
<1>3. \A p \in InUse' : /\ p < nextPacketID'
                        /\ p < nextPacketID => p \in InUse /\ inflight'[p] = inflight[p]
  BY <1>1, <1>2 DEF WindowAhead, BehindInv, InUse, NoMsg, Message
<1>4. /\ \A k \in Elems(outbound) : k.pid \in PacketID \cup {0}
      /\ \A a \in Elems(toBroker) : a.pid \in PacketID
  <2>1. Elems(outbound) \subseteq Packet /\ Elems(toBroker) \subseteq Puback
    BY ElemsType DEF TypeInv, TypeOK
  <2> QED BY <2>1 DEF Packet, Puback
<1>5. ASSUME NEW x \in PacketID \cup {0}, NEW m,
             x < nextPacketID, x \in InUse => inflight[x] = m
      PROVE  x < nextPacketID' /\ (x \in InUse' => inflight'[x] = m)
  BY <1>1, <1>2, <1>3, <1>5
<1>6. ASSUME NEW k \in Elems(outbound')
      PROVE  k.pid < nextPacketID' /\ (k.pid \in InUse' => inflight'[k.pid] = k.msg)
  <2>1. CASE k \in Elems(outbound)
    BY <1>4, <1>5, <2>1 DEF BehindInv
  <2>2. CASE Recorded(k)
    <3>1. k.pid \in InUse'
      BY <2>2 DEF Recorded, InUse, Message, NoMsg
    <3> QED BY <1>3, <2>2, <3>1 DEF Recorded
  <2>3. CASE Unpromised(k)
    <3>1. k.pid = 0 /\ 0 \notin InUse' /\ 0 < nextPacketID'
      BY <1>1, <2>3 DEF Unpromised, InUse, PacketID
    <3> QED BY <3>1
  <2> QED BY <2>1, <2>2, <2>3, OutboundStep
<1>7. ASSUME NEW a \in Elems(toBroker')
      PROVE  a.pid < nextPacketID' /\ (a.pid \in InUse' => inflight'[a.pid] = a.msg)
  <2>1. CASE a \in Elems(toBroker)
    BY <1>4, <1>5, <2>1 DEF BehindInv
  <2>2. CASE \E k \in Elems(outbound) : k.pid # 0 /\ a.pid = k.pid /\ a.msg = k.msg
    BY <1>4, <1>5, <2>2 DEF BehindInv
  <2> QED BY <2>1, <2>2, PubackStep
<1>8. Elems(outbound') = Elems(outbound)' /\ Elems(toBroker') = Elems(toBroker)'
  BY DEF Elems
<1> QED BY <1>3, <1>6, <1>7, <1>8 DEF BehindInv

\* With identifiers to last, no PUBACK is ever stale.
LEMMA NeverStale ==
    ASSUME IdentifiersLast
    PROVE  Spec => []NoStaleAck
<1>1. Init => TypeInv /\ CursorInv /\ BehindInv
  <2> SUFFICES ASSUME Init PROVE CursorInv /\ BehindInv
    BY TypeInit
  <2>1. Delivering = {} /\ InUse = {} /\ Elems(outbound) = {} /\ Elems(toBroker) = {}
    BY DEF Init, NewSession, Delivering, InUse, Elems
  <2>2. nextPacketID = 1 /\ Len(queued) = 0 /\ published = 0
    BY DEF Init, NewSession
  <2> QED BY <2>1, <2>2, FS_EmptySet DEF CursorInv, BehindInv
<1>2. TypeInv /\ CursorInv /\ BehindInv /\ [Next]_vars => (TypeInv /\ CursorInv /\ BehindInv)'
  BY TypeStep, CursorStep, BehindStep
<1>3. BehindInv => NoStaleAck
  BY DEF BehindInv, NoStaleAck
<1> QED BY <1>1, <1>2, <1>3, PTL DEF Spec

\* QoS 1 is at least once for as many messages as the 65535 identifiers last
\* without coming round (a message takes two at most): what the client has not
\* received is still held for it, or was given up as Custody says.
THEOREM DeliveredAtLeastOnce ==
    ASSUME IdentifiersLast
    PROVE  Spec => []AtLeastOnce
BY NeverStale, OnlyStaleAcksLose, PTL

\* For as many messages the session, with its publishers, its retransmission loop
\* and a subscriber that comes and goes, implements the channel.
THEOREM SessionIsChannel ==
    ASSUME IdentifiersLast
    PROVE  Spec => ImplementsChannel
BY NeverStale, OnlyStaleAcksShow, PTL
============================================================================
