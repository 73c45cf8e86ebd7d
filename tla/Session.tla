------------------------------ MODULE Session ------------------------------
(***************************************************************************)
(* The delivery half of the session aggregate                              *)
(* (pkg/domain/session_aggregate/session.go): the in-flight window, the    *)
(* rotating packet identifier cursor and the offline queue of one client.  *)
(*                                                                         *)
(* Every operator below is one method of the aggregate, written as the     *)
(* change it makes to the aggregate's fields.  The application services    *)
(* call them under the session's lock; module Delivery does the same.      *)
(*                                                                         *)
(* A message is a number, NoMsg marks an identifier that is not in flight. *)
(* The instant SentAt is kept as the age of the transmission, now - SentAt,*)
(* which is all the aggregate ever computes from it.                       *)
(***************************************************************************)
EXTENDS Integers, Sequences, FiniteSets

CONSTANTS MaxPacketID,   \* largest identifier (65535 in value_objects/packet_id.go)
          MaxInflight,   \* Limits.MaxInflight
          MaxQueued,     \* Limits.MaxQueued
          MaxMessages,   \* bound: messages offered to the session
          MaxAge         \* bound: how old a transmission may grow

ASSUME SessionAssumption ==
    /\ MaxPacketID \in Nat \ {0}
    /\ MaxInflight \in Nat \ {0}
    /\ MaxQueued \in Nat \ {0}
    /\ MaxMessages \in Nat
    /\ MaxAge \in Nat

VARIABLES connected,         \* a client currently holds the session
          inflight,          \* identifier -> unacknowledged message, or NoMsg
          sentAge,           \* identifier -> age of its latest transmission
          nextPacketID,      \* the allocation cursor
          queued,            \* messages held back, oldest first
          droppedFromQueue   \* messages dropped because the queue was full

windowVars == <<inflight, sentAge, nextPacketID>>
queueVars  == <<queued, droppedFromQueue>>
sessionVars == <<connected, windowVars, queueVars>>

PacketID == 1..MaxPacketID
NoMsg    == 0
Message  == 1..MaxMessages
----------------------------------------------------------------------------
NewSession ==
    /\ inflight = [p \in PacketID |-> NoMsg]
    /\ sentAge = [p \in PacketID |-> 0]
    /\ nextPacketID = 1
    /\ queued = <<>>
    /\ droppedFromQueue = 0

InUse == {p \in PacketID : inflight[p] # NoMsg}

HasInflightCapacity == Cardinality(InUse) < MaxInflight

\* Mutant: the cursor runs past the largest identifier.
CandidateUnwrapped(k) == nextPacketID + k

\* The identifier k places after the cursor; zero is reserved, so
\* MaxPacketID is followed by 1.
Candidate(k) ==
    IF nextPacketID + k <= MaxPacketID
    THEN nextPacketID + k
    ELSE nextPacketID + k - MaxPacketID

\* Mutant: the lowest free identifier instead of a rotating cursor.
NextPacketIDLowest(pid) ==
    /\ pid \in PacketID \ InUse
    /\ \A q \in PacketID \ InUse : pid <= q
    /\ UNCHANGED nextPacketID

\* The scan takes the first identifier from the cursor on that is not in
\* flight, and leaves the cursor behind it.
NextPacketID(pid) ==
    \E k \in 0..(MaxPacketID - 1) :
        /\ pid = Candidate(k)
        /\ pid \notin InUse
        /\ \A j \in 0..(k - 1) : Candidate(j) \in InUse
        /\ nextPacketID' = Candidate(k + 1)

\* The scan went once around and found every identifier in flight: an error.
\* The cursor is back where it started.
PacketIDsExhausted == InUse = PacketID

\* Mutant: the window's capacity is not checked.
TrackInflightUnbounded(pid, m) ==
    /\ inflight' = [inflight EXCEPT ![pid] = m]
    /\ sentAge' = [sentAge EXCEPT ![pid] = 0]

TrackInflight(pid, m) ==
    /\ HasInflightCapacity
    /\ inflight' = [inflight EXCEPT ![pid] = m]
    /\ sentAge' = [sentAge EXCEPT ![pid] = 0]

Acknowledge(pid) ==
    /\ pid \in InUse
    /\ inflight' = [inflight EXCEPT ![pid] = NoMsg]
    /\ sentAge' = [sentAge EXCEPT ![pid] = 0]
    /\ UNCHANGED nextPacketID

\* The order in which InflightMessages and ExpiredInflight list messages:
\* by SentAt, ties by identifier.
ListedBefore(p, q) ==
    \/ sentAge[p] > sentAge[q]
    \/ sentAge[p] = sentAge[q] /\ p < q

Oldest(pids, p) ==
    /\ p \in pids
    /\ \A q \in pids \ {p} : ListedBefore(p, q)

MarkRetransmitted(pid, age) ==
    /\ sentAge' = [sentAge EXCEPT ![pid] = age]
    /\ UNCHANGED <<inflight, nextPacketID>>

\* Mutant: nothing is ever old enough to be sent again.
ExpiredInflightNone(timeout, late) == {}

\* late is how long ago the caller read its clock.
ExpiredInflight(timeout, late) ==
    {p \in InUse : sentAge[p] - late > timeout}

\* A full queue drops its oldest message to make room.
QueueFull == Len(queued) >= MaxQueued

Enqueue(m) ==
    /\ queued' = Append(IF QueueFull THEN Tail(queued) ELSE queued, m)
    /\ droppedFromQueue' =
           IF QueueFull THEN droppedFromQueue + 1 ELSE droppedFromQueue

\* Mutant: the head of the queue is read and left there.
DrainQueuePeeks ==
    /\ queued # <<>>
    /\ UNCHANGED queued

\* One message at a time, as promoteQueued asks for it.
DrainQueue ==
    /\ queued # <<>>
    /\ queued' = Tail(queued)

Resume == connected' = TRUE

\* Mutant: losing the connection empties the window.
DisconnectForgets ==
    /\ connected' = FALSE
    /\ inflight' = [p \in PacketID |-> NoMsg]
    /\ UNCHANGED <<sentAge, nextPacketID, queueVars>>

\* The window and the queue outlive the connection.
Disconnect ==
    /\ connected' = FALSE
    /\ UNCHANGED <<windowVars, queueVars>>

\* Time passes for every transmission alike.
AgeInflight ==
    /\ \A p \in InUse : sentAge[p] < MaxAge
    /\ sentAge' = [p \in PacketID |->
                     IF p \in InUse THEN sentAge[p] + 1 ELSE sentAge[p]]
    /\ UNCHANGED <<inflight, nextPacketID>>
----------------------------------------------------------------------------
SessionTypeOK ==
    /\ connected \in BOOLEAN
    /\ inflight \in [PacketID -> Message \cup {NoMsg}]
    /\ sentAge \in [PacketID -> 0..MaxAge]
    /\ nextPacketID \in PacketID
    /\ queued \in Seq(Message)
    /\ droppedFromQueue \in Nat
============================================================================
