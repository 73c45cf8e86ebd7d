---------------------------- MODULE ClientProofs ----------------------------
(***************************************************************************)
(* Theorems about Client, for every set of goroutines, every number of     *)
(* requests and every range of packet identifiers.                         *)
(***************************************************************************)
EXTENDS Client, TLAPS

USE ClientAssumption DEF ClientAssumption
----------------------------------------------------------------------------
(***************************************************************************)
(* The invariants.                                                         *)
(***************************************************************************)
Places == {"off", "idle", "expect", "lock", "sending", "wait", "forget",
           "read", "deliver", "tick", "close", "closing", "ended"}

Results == {"none", "ok", "failed", "malformed", "refused",
            "timeout", "readErr", "notConnected"}

Call == [kind : Kinds \cup {"none"}, id : 0 .. MaxPacketID, request : 0 .. MaxRequests,
         got : 0 .. MaxRequests, result : Results]

\* The types of the variables, those of call and of the two queues in full.
RequestTypes ==
    /\ cursor \in 0 .. MaxPacketID /\ requests \in 0 .. MaxRequests
    /\ pending \in [PacketID -> 0 .. MaxRequests]
    /\ answer \in [Request -> Packet]
    /\ call \in [Callers -> Call]
    /\ sharing \subseteq Request

WireTypes ==
    /\ out \in Seq(Packet) /\ Len(out) <= SendBuffer /\ in \in Seq(Packet)
    /\ inbound \in 0 .. MaxInbound /\ hungUp \in BOOLEAN

WriteTypes == writeMu \in Procs \cup {NoOne} /\ buf \in Packet /\ written \subseteq Request

CloseTypes ==
    /\ conn \in {"none", "open", "closed"} /\ closer \in Procs \cup {NoOne}
    /\ done \in BOOLEAN /\ readErr \in BOOLEAN

ReadTypes == inHand \in [channel : 0 .. MaxRequests, ack : Packet] /\ heard \subseteq Request

TypeInv ==
    /\ RequestTypes /\ WireTypes /\ WriteTypes /\ CloseTypes /\ ReadTypes
    /\ pc \in [Procs -> Places]

\* The packets of a queue.
On(s) == {s[i] : i \in 1 .. Len(s)}

\* A call has an identifier and a request while it awaits an answer, and is
\* only where its kind takes it.
CallerInv(c) ==
    /\ call[c].kind \in Awaiting => call[c].id \in PacketID /\ call[c].request \in 1 .. requests
    /\ call[c].kind \notin Awaiting => call[c].id = 0 /\ call[c].request = 0
    /\ pc[c] \in {"idle", "expect", "lock", "sending", "wait", "forget", "close", "closing"}
    /\ pc[c] = "idle" => call[c].kind = "none"
    /\ pc[c] \in {"expect", "wait", "forget"} => call[c].kind \in Awaiting
    /\ pc[c] \in {"lock", "sending"} => call[c].kind \in Awaiting \cup {"disconnect"}
    /\ pc[c] \in {"close", "closing"} => call[c].kind \in {"disconnect", "close"}

LoopInv ==
    /\ pc[ReadLoop] \in {"off", "read", "lock", "sending", "deliver", "close", "closing", "ended"}
    /\ pc[KeepAlive] \in {"off", "tick", "sending", "ended"}
    /\ pc[ReadLoop] = "deliver" => inHand.channel \in Request /\ IsAck(inHand.ack)
    /\ pc[ReadLoop] # "deliver" => inHand.channel = 0
    /\ pc[ReadLoop] = "off" => conn # "open" /\ out = <<>> /\ in = <<>>

ControlInv == LoopInv /\ \A c \in Callers : CallerInv(c)

\* Who is writing holds writeMu, and the buffer is his packet.
WriteInv == \A p \in Procs : pc[p] = "sending" => writeMu = p /\ buf = PacketOf(p)

\* What is under way.
WireInv ==
    /\ \A p \in On(out) :
         IF p.type \in Awaiting THEN p.id \in PacketID ELSE p.request = 0
    /\ \A p \in On(in) :
         IF IsAck(p) THEN p.id \in PacketID ELSE p.type = "received" /\ p.request = 0

\* No two calls have the same request, and only one that has been sent has
\* packets under way, which carry its identifier.
SentInv ==
    /\ \A c, d \in Callers : call[c].request = call[d].request /\ call[c].request # 0 => c = d
    /\ \A p \in On(out) \cup On(in) :
         /\ p.request <= requests
         /\ \A c \in Callers : p.request = call[c].request /\ p.request # 0 =>
               p.id = call[c].id /\ pc[c] \in {"wait", "forget"}
    /\ \A r \in heard : r <= requests
    /\ \A c \in Callers : call[c].request \in heard => pc[c] \in {"wait", "forget"}

\* The table of those who wait.  What it holds belongs to a call in progress; and
\* a call that shares its identifier with nobody is in it.
Registered(c) == pc[c] \in {"lock", "sending", "wait", "forget"} /\ call[c].kind \in Awaiting

PendingInv ==
    /\ \A i \in PacketID : pending[i] # 0 =>
         \E c \in Callers : Registered(c) /\ call[c].id = i /\ call[c].request = pending[i]
    /\ \A c, d \in Callers : c # d /\ call[c].id = call[d].id /\ call[c].id # 0 =>
         call[c].request \in sharing
    /\ \A c \in Callers : Registered(c) /\ call[c].request \notin sharing =>
         pending[call[c].id] = call[c].request
    /\ \A r \in Request : answer[r] # Empty => r \in Live

\* Identifiers go round: with n of them handed out, the last one k, request r
\* was given i, so many rounds ago.
Rounds(i, r, n, k) == \E z \in Int : i + (n - r) - k = z * MaxPacketID

Numbered(i, r) == Rounds(i, r, requests, cursor)

NumberInv ==
    /\ \A c \in Callers : call[c].request # 0 => Numbered(call[c].id, call[c].request)
    /\ \A p \in On(out) : p.type \in Awaiting => Numbered(p.id, p.request)
    /\ \A p \in On(in) : IsAck(p) => Numbered(p.id, p.request)
    /\ inHand.channel # 0 => /\ Numbered(inHand.ack.id, inHand.channel)
                             /\ Numbered(inHand.ack.id, inHand.ack.request)
    /\ \A r \in Request : answer[r] # Empty => /\ Numbered(answer[r].id, r)
                                               /\ Numbered(answer[r].id, answer[r].request)

\* Why the client was closed.
CloseInv ==
    /\ done => closer # NoOne
    /\ closer # KeepAlive
    /\ pc[ReadLoop] \in {"close", "closing"} \/ closer = ReadLoop => readErr
    /\ ClosedByUs
----------------------------------------------------------------------------
(***************************************************************************)
(* Identifiers, queues and records.                                        *)
(***************************************************************************)
\* The goroutines are different ones.
LEMMA Different ==
    /\ ReadLoop # KeepAlive /\ ReadLoop # NoOne /\ KeepAlive # NoOne
    /\ ReadLoop \notin Callers /\ KeepAlive \notin Callers /\ NoOne \notin Callers
    /\ ReadLoop \in Procs /\ KeepAlive \in Procs /\ Callers \subseteq Procs /\ NoOne \notin Procs
BY DEF Procs

\* allocatePacketID: the next identifier, and after the last one the first.
LEMMA Allocated ==
    ASSUME cursor \in 0 .. MaxPacketID
    PROVE  /\ AllocatePacketID \in PacketID
           /\ AllocatePacketID = IF cursor = MaxPacketID THEN 1 ELSE cursor + 1
<1>1. \A x, y \in Nat : y > 0 /\ x < y => x % y = x
  OBVIOUS
<1>2. \A y \in Nat : y > 0 => y % y = 0
  OBVIOUS
<1>3. CASE cursor = MaxPacketID
  <2>1. (cursor + 1) % (MaxPacketID + 1) = 0
    BY <1>2, <1>3
  <2> QED BY <1>3, <2>1 DEF AllocatePacketID, PacketID
<1>4. CASE cursor # MaxPacketID
  <2>1. (cursor + 1) % (MaxPacketID + 1) = cursor + 1
    BY <1>1, <1>4
  <2> QED BY <1>4, <2>1 DEF AllocatePacketID, PacketID
<1> QED BY <1>3, <1>4

\* A packet joins a queue at its end.
LEMMA OnAppend ==
    ASSUME NEW S, NEW s \in Seq(S), NEW e \in S
    PROVE  Append(s, e) \in Seq(S) /\ On(Append(s, e)) = On(s) \cup {e}
<1>1. /\ Append(s, e) \in Seq(S) /\ Len(s) \in Nat /\ Len(Append(s, e)) = Len(s) + 1
      /\ \A i \in 1 .. Len(s) : Append(s, e)[i] = s[i]
      /\ Append(s, e)[Len(s) + 1] = e
  OBVIOUS
<1>2. 1 .. (Len(s) + 1) = (1 .. Len(s)) \cup {Len(s) + 1}
  BY <1>1
<1> QED BY <1>1, <1>2 DEF On

\* And leaves it at its head.
LEMMA OnTail ==
    ASSUME NEW S, NEW s \in Seq(S), s # <<>>
    PROVE  /\ Tail(s) \in Seq(S) /\ Len(Tail(s)) = Len(s) - 1
           /\ Head(s) \in On(s) /\ On(Tail(s)) \subseteq On(s)
<1>1. /\ Tail(s) \in Seq(S) /\ Len(s) \in Nat /\ Len(s) > 0 /\ Len(Tail(s)) = Len(s) - 1
      /\ \A i \in 1 .. (Len(s) - 1) : Tail(s)[i] = s[i + 1]
      /\ Head(s) = s[1]
  OBVIOUS
<1> QED BY <1>1 DEF On

\* Nothing is in an empty queue; what is in one has the type of its elements.
LEMMA OnTypes ==
    /\ On(<<>>) = {}
    /\ \A S : \A s \in Seq(S) : On(s) \subseteq S
BY DEF On
----------------------------------------------------------------------------
(***************************************************************************)
(* Types, control, the writer and what is under way.                       *)
(***************************************************************************)
CoreInv == TypeInv /\ ControlInv /\ WriteInv /\ WireInv

\* A client that was never connected.
LEMMA CoreInit ==
    Init => CoreInv
<1> SUFFICES ASSUME Init PROVE CoreInv
  OBVIOUS
<1> USE Different DEF Init
<1>1. Empty \in Packet /\ NoCall \in Call
  BY DEF Empty, Packet, NoCall, Call, Results
<1>2. TypeInv
  <2>1. RequestTypes
    BY <1>1 DEF RequestTypes
  <2>2. WireTypes
    <3>1. hungUp \in BOOLEAN
      BY Zenon
    <3> QED BY <3>1 DEF WireTypes
  <2>3. WriteTypes
    BY <1>1 DEF WriteTypes
  <2>4. CloseTypes
    <3>1. done \in BOOLEAN /\ readErr \in BOOLEAN
      BY Zenon
    <3> QED BY <3>1 DEF CloseTypes
  <2>5. ReadTypes
    BY <1>1 DEF ReadTypes
  <2>6. pc \in [Procs -> Places]
    BY DEF Places
  <2> QED BY <2>1, <2>2, <2>3, <2>4, <2>5, <2>6 DEF TypeInv
<1>3. ControlInv
  BY DEF ControlInv, LoopInv, CallerInv, NoCall, Awaiting
<1>4. WriteInv
  BY DEF WriteInv
<1>5. WireInv
  BY OnTypes DEF WireInv
<1> QED BY <1>2, <1>3, <1>4, <1>5 DEF CoreInv

\* A packet that is written.
LEMMA PacketOfTypes ==
    ASSUME TypeInv, ControlInv, NEW p \in Procs, pc[p] \in {"lock", "tick", "sending"}
    PROVE  PacketOf(p) \in Packet
<1> USE Different
<1>1. CASE p = ReadLoop
  BY <1>1 DEF PacketOf, Plain, Packet
<1>2. CASE p = KeepAlive
  BY <1>2 DEF PacketOf, Plain, Packet
<1>3. CASE p \in Callers
  <2>1. PacketOf(p) = [type |-> call[p].kind, id |-> call[p].id, request |-> call[p].request]
    BY <1>3 DEF PacketOf
  <2>2. call[p] \in Call /\ call[p].kind \in Awaiting \cup {"disconnect"}
    BY <1>3 DEF TypeInv, RequestTypes, ControlInv, CallerInv
  <2> QED BY <2>1, <2>2 DEF Call, Packet
<1> QED BY <1>1, <1>2, <1>3 DEF Procs

\* Requests in progress are requests.
LEMMA LiveTypes ==
    ASSUME RequestTypes
    PROVE  /\ Live \subseteq Request
           /\ \A r : r \in Live <=> r # 0 /\ \E c \in Callers : call[c].request = r
<1>1. \A c \in Callers : call[c].request \in 0 .. MaxRequests
  BY DEF RequestTypes, Call
<1> QED BY <1>1 DEF Live, Request

\* Where a goroutine is after WritePacket, and how its call stands.
LEMMA WrittenMoves ==
    ASSUME TypeInv, ControlInv, NEW p \in Procs, NEW ok \in BOOLEAN, pc[p] = "sending",
           Written(p, ok)
    PROVE  /\ \A q \in Procs \ {p} : pc'[q] = pc[q]
           /\ pc' \in [Procs -> Places] /\ call' \in [Callers -> Call]
           /\ \A c \in Callers : /\ call'[c].kind = call[c].kind /\ call'[c].id = call[c].id
                                 /\ call'[c].request = call[c].request
                                 /\ call'[c].got = call[c].got
                                 /\ call'[c].result \in {call[c].result, "failed"}
           /\ p = ReadLoop => pc'[p] = "read"
           /\ p = KeepAlive => pc'[p] \in {"tick", "ended"}
           /\ p \in Callers /\ call[p].kind = "disconnect" => pc'[p] = "close"
           /\ p \in Callers /\ call[p].kind \in Awaiting =>
                 pc'[p] = IF ok THEN "wait" ELSE "forget"
<1> USE Different
<1>0. pc \in [Procs -> Places] /\ call \in [Callers -> Call]
  BY DEF TypeInv, RequestTypes
<1>1. CASE p = ReadLoop
  <2>1. pc' = [pc EXCEPT ![p] = "read"] /\ call' = call
    BY <1>1 DEF Written, Goto
  <2> QED BY <1>0, <1>1, <2>1 DEF Places
<1>2. CASE p = KeepAlive
  <2>1. pc' = [pc EXCEPT ![p] = IF ok THEN "tick" ELSE "ended"] /\ call' = call
    BY <1>2 DEF Written, Goto
  <2> QED BY <1>0, <1>2, <2>1 DEF Places
<1>3. CASE p \in Callers /\ call[p].kind = "disconnect"
  <2>1. pc' = [pc EXCEPT ![p] = "close"] /\ call' = call
    BY <1>3 DEF Written, Goto
  <2> QED BY <1>0, <1>3, <2>1 DEF Places, Awaiting
<1>4. CASE p \in Callers /\ call[p].kind # "disconnect"
  <2>1. /\ pc' = [pc EXCEPT ![p] = IF ok THEN "wait" ELSE "forget"]
        /\ call' = IF ok THEN call ELSE [call EXCEPT ![p].result = "failed"]
    BY <1>4 DEF Written, Goto
  <2>2. /\ call' \in [Callers -> Call]
        /\ \A c \in Callers : /\ call'[c].kind = call[c].kind /\ call'[c].id = call[c].id
                              /\ call'[c].request = call[c].request
                              /\ call'[c].got = call[c].got
                              /\ call'[c].result \in {call[c].result, "failed"}
    <3>1. CASE ok
      BY <1>0, <2>1, <3>1
    <3>2. CASE ~ok
      <4>1. call' = [call EXCEPT ![p].result = "failed"]
        BY <2>1, <3>2
      <4> QED BY <1>0, <1>4, <4>1 DEF Call, Results
    <3> QED BY <3>1, <3>2
  <2> QED BY <1>0, <1>4, <2>1, <2>2 DEF Places
<1> QED BY <1>1, <1>2, <1>3, <1>4 DEF Procs

\* A call gets its result.
LEMMA FinishMoves ==
    ASSUME TypeInv, NEW c \in Callers, NEW got \in 0 .. MaxRequests, NEW result \in Results,
           Finish(c, got, result)
    PROVE  /\ call' \in [Callers -> Call] /\ pc' \in [Procs -> Places]
           /\ \A d \in Callers : /\ call'[d].kind = call[d].kind /\ call'[d].id = call[d].id
                                 /\ call'[d].request = call[d].request
           /\ \A d \in Callers \ {c} : call'[d] = call[d]
           /\ call'[c].got = got /\ call'[c].result = result
           /\ pc'[c] = "forget" /\ \A q \in Procs \ {c} : pc'[q] = pc[q]
<1> USE Different
<1>0. pc \in [Procs -> Places] /\ call \in [Callers -> Call]
  BY DEF TypeInv, RequestTypes
<1>1. call' = [call EXCEPT ![c].got = got, ![c].result = result]
      /\ pc' = [pc EXCEPT ![c] = "forget"]
  BY DEF Finish, Goto
<1>2. pc' \in [Procs -> Places] /\ pc'[c] = "forget" /\ \A q \in Procs \ {c} : pc'[q] = pc[q]
  BY <1>0, <1>1 DEF Places
<1>3. call' \in [Callers -> Call]
  BY <1>0, <1>1, ZenonT(60) DEF Call
<1>4. \A d \in Callers \ {c} : call'[d] = call[d]
  BY <1>0, <1>1
<1>5. /\ call'[c].kind = call[c].kind /\ call'[c].id = call[c].id
      /\ call'[c].request = call[c].request /\ call'[c].got = got /\ call'[c].result = result
  BY <1>0, <1>1 DEF Call
<1> QED BY <1>2, <1>3, <1>4, <1>5

\* A call ends, its deferred forget done.
LEMMA ForgetMoves ==
    ASSUME TypeInv, ControlInv, NEW c \in Callers, Forget(c)
    PROVE  /\ call[c].kind \in Awaiting /\ call[c].id \in PacketID /\ call[c].request \in Request
           /\ call' \in [Callers -> Call] /\ pc' \in [Procs -> Places]
           /\ call'[c] = NoCall /\ \A d \in Callers \ {c} : call'[d] = call[d]
           /\ pc'[c] = "idle" /\ \A q \in Procs \ {c} : pc'[q] = pc[q]
           /\ pending' = [pending EXCEPT ![call[c].id] = 0]
           /\ answer' = [answer EXCEPT ![call[c].request] = Empty]
           /\ written' = written \ {call[c].request} /\ heard' = heard \ {call[c].request}
           /\ sharing' = sharing \ {call[c].request}
<1> USE Different
<1>0. pc \in [Procs -> Places] /\ call \in [Callers -> Call] /\ requests \in 0 .. MaxRequests
  BY DEF TypeInv, RequestTypes
<1>1. /\ call' = [call EXCEPT ![c] = NoCall] /\ pc' = [pc EXCEPT ![c] = "idle"]
      /\ pc[c] = "forget"
      /\ pending' = [pending EXCEPT ![call[c].id] = 0]
      /\ answer' = [answer EXCEPT ![call[c].request] = Empty]
      /\ written' = written \ {call[c].request} /\ heard' = heard \ {call[c].request}
      /\ sharing' = sharing \ {call[c].request}
  BY DEF Forget, Return, Goto
<1>2. call[c].kind \in Awaiting /\ call[c].id \in PacketID /\ call[c].request \in Request
  BY <1>0, <1>1 DEF ControlInv, CallerInv, Request
<1>3. NoCall \in Call
  BY DEF NoCall, Call, Results
<1> QED BY <1>0, <1>1, <1>2, <1>3 DEF Places

\* A call is over once the client is closed.
LEMMA ClosedMoves ==
    ASSUME TypeInv, ControlInv, NEW p \in Procs, pc[p] \in {"close", "closing"}, Closed(p)
    PROVE  /\ p # KeepAlive
           /\ call' \in [Callers -> Call] /\ pc' \in [Procs -> Places]
           /\ \A d \in Callers \ {p} : call'[d] = call[d]
           /\ p \in Callers => call'[p] = NoCall /\ pc'[p] = "idle"
           /\ p = ReadLoop => pc'[p] = "ended"
           /\ \A q \in Procs \ {p} : pc'[q] = pc[q]
<1> USE Different
<1>0. pc \in [Procs -> Places] /\ call \in [Callers -> Call]
  BY DEF TypeInv, RequestTypes
<1>1. p # KeepAlive
  BY DEF ControlInv, LoopInv
<1>2. NoCall \in Call
  BY DEF NoCall, Call, Results
<1>3. /\ pc' = [pc EXCEPT ![p] = IF p = ReadLoop THEN "ended" ELSE "idle"]
      /\ call' = IF p = ReadLoop THEN call ELSE [call EXCEPT ![p] = NoCall]
  BY DEF Closed, Goto
<1> QED BY <1>0, <1>1, <1>2, <1>3 DEF Places, Procs

\* A request begins.
LEMMA BeginMoves ==
    ASSUME TypeInv, ControlInv, NEW c \in Callers, NEW kind \in Awaiting, Begin(c, kind)
    PROVE  /\ cursor' = AllocatePacketID /\ AllocatePacketID \in PacketID
           /\ requests' = requests + 1 /\ requests' \in Request
           /\ call' \in [Callers -> Call] /\ pc' \in [Procs -> Places]
           /\ call'[c] = [kind |-> kind, id |-> AllocatePacketID, request |-> requests + 1,
                          got |-> 0, result |-> "none"]
           /\ \A d \in Callers \ {c} : call'[d] = call[d]
           /\ pc[c] = "idle" /\ pc'[c] = "expect" /\ \A q \in Procs \ {c} : pc'[q] = pc[q]
           /\ sharing' \subseteq Request /\ sharing \subseteq sharing'
           /\ \A d \in Callers : call[d].id = AllocatePacketID =>
                 call[d].request \in sharing' /\ requests + 1 \in sharing'
<1> USE Different
<1>0. /\ pc \in [Procs -> Places] /\ call \in [Callers -> Call]
      /\ requests \in 0 .. MaxRequests /\ cursor \in 0 .. MaxPacketID /\ sharing \subseteq Request
  BY DEF TypeInv, RequestTypes
<1> DEFINE twins == {call[d].request : d \in {d \in Callers : call[d].id = AllocatePacketID}}
<1>1. /\ pc[c] = "idle" /\ requests < MaxRequests
      /\ cursor' = AllocatePacketID /\ requests' = requests + 1
      /\ call' = [call EXCEPT ![c] = [kind |-> kind, id |-> AllocatePacketID,
                                      request |-> requests + 1, got |-> 0, result |-> "none"]]
      /\ sharing' = IF twins = {} THEN sharing ELSE sharing \cup twins \cup {requests + 1}
      /\ pc' = [pc EXCEPT ![c] = "expect"]
  BY DEF Begin, Goto
<1>2. AllocatePacketID \in PacketID
  BY <1>0, Allocated
<1>3. requests' \in Request /\ requests + 1 \in Request
  BY <1>0, <1>1 DEF Request
<1>4. [kind |-> kind, id |-> AllocatePacketID, request |-> requests + 1, got |-> 0, result |-> "none"]
         \in Call
  BY <1>2, <1>3 DEF Call, Kinds, Results, PacketID, Request
<1>5. call' \in [Callers -> Call] /\ pc' \in [Procs -> Places]
  BY <1>0, <1>1, <1>4 DEF Places
<1>6. \A d \in Callers : call[d].id = AllocatePacketID => call[d].request \in twins
  OBVIOUS
<1>7. sharing \subseteq sharing'
      /\ \A d \in Callers : call[d].id = AllocatePacketID =>
            call[d].request \in sharing' /\ requests + 1 \in sharing'
  BY <1>1, <1>6
<1>8. twins \subseteq Request
  BY <1>0, <1>2 DEF ControlInv, CallerInv, Request, PacketID
<1>9. sharing' \subseteq Request
  <2> HIDE DEF twins
  <2> QED BY <1>0, <1>1, <1>3, <1>8
<1>10. /\ call'[c] = [kind |-> kind, id |-> AllocatePacketID, request |-> requests + 1,
                      got |-> 0, result |-> "none"]
       /\ \A d \in Callers \ {c} : call'[d] = call[d]
       /\ pc'[c] = "expect" /\ \A q \in Procs \ {c} : pc'[q] = pc[q]
  BY <1>0, <1>1
<1> QED BY <1>1, <1>2, <1>3, <1>5, <1>7, <1>9, <1>10

\* However a wait ends, it ends with a result.
LEMMA FinishesTyped ==
    ASSUME TypeInv, ControlInv, NEW c \in Callers, Answered(c) \/ TimesOut(c) \/ SeesDone(c)
    PROVE  \E got \in 0 .. MaxRequests, result \in Results :
              pc[c] = "wait" /\ Finish(c, got, result)
<1>1. CASE Answered(c)
  <2>1. PICK v \in Verdicts(call[c].kind, answer[call[c].request]) :
           Finish(c, answer[call[c].request].request, v)
    BY <1>1 DEF Answered
  <2>2. v \in Results
    BY DEF Verdicts, Results
  <2>3. answer[call[c].request].request \in 0 .. MaxRequests
    <3>1. call[c].request \in Request
      BY <1>1 DEF Answered, ControlInv, CallerInv, TypeInv, RequestTypes, Request
    <3> QED BY <3>1 DEF TypeInv, RequestTypes, Packet
  <2> QED BY <1>1, <2>1, <2>2, <2>3 DEF Answered
<1>2. CASE TimesOut(c)
  BY <1>2 DEF TimesOut, Results
<1>3. CASE SeesDone(c)
  <2>1. PICK v \in Results : Finish(c, 0, v)
    BY <1>3 DEF SeesDone, Results
  <2> QED BY <1>3, <2>1 DEF SeesDone
<1> QED BY <1>1, <1>2, <1>3

\* The types.
LEMMA TypeStep ==
    CoreInv /\ [Next]_vars => TypeInv'
<1> SUFFICES ASSUME CoreInv, [Next]_vars PROVE TypeInv'
  OBVIOUS
<1> USE Different
<1>0. /\ TypeInv /\ ControlInv /\ RequestTypes /\ WireTypes /\ WriteTypes /\ CloseTypes /\ ReadTypes
      /\ pc \in [Procs -> Places] /\ call \in [Callers -> Call]
  BY DEF CoreInv, TypeInv, RequestTypes
<1>e. Empty \in Packet
  BY DEF Empty, Packet
\* What a step leaves alone keeps its type.
<1>r. ASSUME UNCHANGED requestVars PROVE RequestTypes'
  BY <1>0, <1>r DEF RequestTypes, requestVars
<1>w. ASSUME UNCHANGED wireVars PROVE WireTypes'
  BY <1>0, <1>w DEF WireTypes, wireVars
<1>b. ASSUME UNCHANGED writeVars PROVE WriteTypes'
  BY <1>0, <1>b DEF WriteTypes, writeVars
<1>c. ASSUME UNCHANGED closeVars PROVE CloseTypes'
  BY <1>0, <1>c DEF CloseTypes, closeVars
<1>d. ASSUME UNCHANGED readVars PROVE ReadTypes'
  BY <1>0, <1>d DEF ReadTypes, readVars
<1>g. ASSUME NEW p \in Procs, NEW l \in Places, Goto(p, l) PROVE pc' \in [Procs -> Places]
  BY <1>0, <1>g DEF Goto
<1>1. CASE ConnectAccepted
  <2>1. RequestTypes'
    BY <1>0, <1>1 DEF ConnectAccepted, RequestTypes
  <2>2. CloseTypes'
    BY <1>0, <1>1 DEF ConnectAccepted, CloseTypes
  <2>3. pc' \in [Procs -> Places]
    BY <1>0, <1>1 DEF ConnectAccepted, Places
  <2> QED BY <1>1, <1>w, <1>b, <1>d, <2>1, <2>2, <2>3 DEF ConnectAccepted, TypeInv
<1>2. CASE ConnectRefused
  <2>1. RequestTypes'
    BY <1>0, <1>2 DEF ConnectRefused, RequestTypes
  <2>2. CloseTypes'
    BY <1>0, <1>2 DEF ConnectRefused, CloseTypes
  <2>3. pc' \in [Procs -> Places]
    BY <1>0, <1>2 DEF ConnectRefused
  <2> QED BY <1>2, <1>w, <1>b, <1>d, <2>1, <2>2, <2>3 DEF ConnectRefused, TypeInv
<1>3. ASSUME NEW c \in Callers, NEW kind \in Awaiting, Begin(c, kind) PROVE TypeInv'
  <2>1. RequestTypes'
    <3>1. /\ cursor' \in PacketID /\ requests' \in Request /\ call' \in [Callers -> Call]
          /\ sharing' \subseteq Request
      BY <1>0, <1>3, BeginMoves
    <3>2. cursor' \in 0 .. MaxPacketID /\ requests' \in 0 .. MaxRequests
      BY <3>1 DEF PacketID, Request
    <3>3. pending' = pending /\ answer' = answer
      BY <1>3 DEF Begin
    <3> QED BY <1>0, <3>1, <3>2, <3>3 DEF RequestTypes
  <2>2. pc' \in [Procs -> Places]
    BY <1>0, <1>3, BeginMoves
  <2> QED BY <1>3, <1>w, <1>b, <1>c, <1>d, <2>1, <2>2 DEF Begin, TypeInv
<1>4. ASSUME NEW c \in Callers, BeginDisconnect(c) PROVE TypeInv'
  <2>1. RequestTypes'
    <3>1. call' = [call EXCEPT ![c].kind = "disconnect"]
      BY <1>4 DEF BeginDisconnect
    <3>2. call' \in [Callers -> Call]
      BY <1>0, <3>1 DEF Call, Kinds
    <3> QED BY <1>0, <1>4, <3>2 DEF BeginDisconnect, RequestTypes
  <2>2. pc' \in [Procs -> Places]
    BY <1>4, <1>g DEF BeginDisconnect, Places
  <2> QED BY <1>4, <1>w, <1>b, <1>c, <1>d, <2>1, <2>2 DEF BeginDisconnect, TypeInv
<1>5. ASSUME NEW c \in Callers, BeginClose(c) PROVE TypeInv'
  <2>1. RequestTypes'
    <3>1. call' = [call EXCEPT ![c].kind = "close"]
      BY <1>5 DEF BeginClose
    <3>2. call' \in [Callers -> Call]
      BY <1>0, <3>1 DEF Call, Kinds
    <3> QED BY <1>0, <1>5, <3>2 DEF BeginClose, RequestTypes
  <2>2. pc' \in [Procs -> Places]
    BY <1>5, <1>g DEF BeginClose, Places
  <2> QED BY <1>5, <1>w, <1>b, <1>c, <1>d, <2>1, <2>2 DEF BeginClose, TypeInv
<1>6. ASSUME NEW c \in Callers, Expect(c) PROVE TypeInv'
  <2>1. RequestTypes'
    <3>1. call[c].request \in 0 .. MaxRequests
      BY <1>0 DEF Call
    <3>2. pending' \in [PacketID -> 0 .. MaxRequests]
      BY <1>0, <1>6, <3>1 DEF Expect, RequestTypes
    <3> QED BY <1>0, <1>6, <3>2 DEF Expect, RequestTypes
  <2>2. pc' \in [Procs -> Places]
    BY <1>6, <1>g DEF Expect, Places
  <2> QED BY <1>6, <1>w, <1>b, <1>c, <1>d, <2>1, <2>2 DEF Expect, TypeInv
<1>7. ASSUME NEW c \in Callers, NEW got \in 0 .. MaxRequests, NEW result \in Results,
             Finish(c, got, result)
      PROVE  TypeInv'
  <2>1. call' \in [Callers -> Call] /\ pc' \in [Procs -> Places]
    BY <1>0, <1>7, FinishMoves
  <2>2. RequestTypes'
    BY <1>0, <1>7, <2>1 DEF Finish, RequestTypes
  <2> QED BY <1>7, <1>w, <1>b, <1>c, <1>d, <2>1, <2>2 DEF Finish, TypeInv
<1>8. ASSUME NEW c \in Callers, Answered(c) \/ TimesOut(c) \/ SeesDone(c) PROVE TypeInv'
  <2>1. \E got \in 0 .. MaxRequests, result \in Results : Finish(c, got, result)
    BY <1>0, <1>8, FinishesTyped
  <2> QED BY <1>7, <2>1
<1>11. ASSUME NEW c \in Callers, Forget(c) PROVE TypeInv'
  <2>1. /\ call' \in [Callers -> Call] /\ pc' \in [Procs -> Places]
        /\ pending' = [pending EXCEPT ![call[c].id] = 0]
        /\ answer' = [answer EXCEPT ![call[c].request] = Empty]
        /\ written' = written \ {call[c].request} /\ heard' = heard \ {call[c].request}
        /\ sharing' = sharing \ {call[c].request}
    BY <1>0, <1>11, ForgetMoves
  <2>2. UNCHANGED <<cursor, requests, wireVars, writeMu, buf, closeVars, inHand>>
    BY <1>11 DEF Forget
  <2>3. RequestTypes'
    <3>1. pending' \in [PacketID -> 0 .. MaxRequests]
      <4>1. 0 \in 0 .. MaxRequests /\ pending \in [PacketID -> 0 .. MaxRequests]
        BY <1>0 DEF RequestTypes
      <4>2. pending' = [pending EXCEPT ![call[c].id] = 0]
        BY <2>1
      <4> QED BY <4>1, <4>2, Zenon
    <3>2. answer' \in [Request -> Packet]
      BY <1>0, <1>e, <2>1 DEF RequestTypes
    <3>3. sharing' \subseteq Request
      BY <1>0, <2>1 DEF RequestTypes
    <3> QED BY <1>0, <2>1, <2>2, <3>1, <3>2, <3>3 DEF RequestTypes
  <2>4. WriteTypes' /\ ReadTypes'
    BY <1>0, <2>1, <2>2 DEF WriteTypes, ReadTypes
  <2> QED BY <1>w, <1>c, <2>1, <2>2, <2>3, <2>4 DEF TypeInv
<1>12. ASSUME NEW p \in Procs, LockAndEncode(p) PROVE TypeInv'
  <2>1. buf' \in Packet
    BY <1>0, <1>12, PacketOfTypes DEF LockAndEncode
  <2>2. WriteTypes'
    BY <1>0, <1>12, <2>1 DEF LockAndEncode, WriteTypes
  <2>3. pc' \in [Procs -> Places]
    BY <1>12, <1>g DEF LockAndEncode, Places
  <2> QED BY <1>12, <1>r, <1>w, <1>c, <1>d, <2>2, <2>3 DEF LockAndEncode, TypeInv
<1>13. ASSUME NEW p \in Procs, Send(p) PROVE TypeInv'
  <2>1. /\ pc[p] = "sending" /\ Len(out) < SendBuffer
        /\ out' = IF hungUp THEN out ELSE Append(out, buf)
        /\ written' = written \cup ({buf.request} \cap Live)
        /\ writeMu' = NoOne /\ buf' = Empty /\ Written(p, TRUE)
        /\ UNCHANGED <<cursor, requests, sharing, pending, answer, in, inbound, hungUp, closeVars, readVars>>
    BY <1>13 DEF Send
  <2>2. call' \in [Callers -> Call] /\ pc' \in [Procs -> Places]
    BY <1>0, <2>1, WrittenMoves
  <2>3. RequestTypes'
    BY <1>0, <2>1, <2>2 DEF RequestTypes
  <2>4. out' \in Seq(Packet) /\ Len(out') <= SendBuffer
    <3>1. out \in Seq(Packet) /\ buf \in Packet /\ Len(out) \in Nat
      BY <1>0 DEF WireTypes, WriteTypes
    <3>2. Append(out, buf) \in Seq(Packet) /\ Len(Append(out, buf)) = Len(out) + 1
      BY <3>1
    <3> QED BY <2>1, <3>1, <3>2
  <2>5. WireTypes'
    BY <1>0, <2>1, <2>4 DEF WireTypes
  <2>6. WriteTypes'
    BY <1>0, <1>e, <2>1, LiveTypes DEF WriteTypes
  <2> QED BY <1>c, <1>d, <2>1, <2>2, <2>3, <2>5, <2>6 DEF TypeInv
<1>14. ASSUME NEW p \in Procs, SendFails(p) PROVE TypeInv'
  <2>1. /\ pc[p] = "sending" /\ writeMu' = NoOne /\ buf' = Empty /\ Written(p, FALSE)
        /\ UNCHANGED <<cursor, requests, sharing, pending, answer, written, wireVars, closeVars, readVars>>
    BY <1>14 DEF SendFails
  <2>2. call' \in [Callers -> Call] /\ pc' \in [Procs -> Places]
    BY <1>0, <2>1, WrittenMoves
  <2>3. RequestTypes'
    BY <1>0, <2>1, <2>2 DEF RequestTypes
  <2>4. WriteTypes'
    BY <1>0, <1>e, <2>1 DEF WriteTypes
  <2> QED BY <1>w, <1>c, <1>d, <2>1, <2>2, <2>3, <2>4 DEF TypeInv
<1>15. ASSUME NEW p \in Procs, CloseDone(p) PROVE TypeInv'
  <2>1. done' \in BOOLEAN
    BY <1>15, Zenon DEF CloseDone
  <2>2. CloseTypes'
    BY <1>0, <1>15, <2>1 DEF CloseDone, CloseTypes
  <2>3. pc' \in [Procs -> Places]
    BY <1>15, <1>g DEF CloseDone, Places
  <2> QED BY <1>15, <1>r, <1>w, <1>b, <1>d, <2>2, <2>3 DEF CloseDone, TypeInv
<1>16. ASSUME NEW p \in Procs, CloseConn(p) PROVE TypeInv'
  <2>1. /\ pc[p] = "closing" /\ Closed(p) /\ out' = <<>>
        /\ conn' = IF conn = "open" THEN "closed" ELSE conn
        /\ UNCHANGED <<cursor, requests, sharing, pending, answer, closer, done, readErr,
                       in, inbound, hungUp, writeVars, readVars>>
    BY <1>16 DEF CloseConn
  <2>2. call' \in [Callers -> Call] /\ pc' \in [Procs -> Places]
    BY <1>0, <2>1, ClosedMoves
  <2>3. RequestTypes'
    BY <1>0, <2>1, <2>2 DEF RequestTypes
  <2>4. WireTypes' /\ CloseTypes'
    BY <1>0, <2>1 DEF WireTypes, CloseTypes
  <2> QED BY <1>b, <1>d, <2>1, <2>2, <2>3, <2>4 DEF TypeInv
<1>17. ASSUME NEW p \in Procs, CloseAgain(p) PROVE TypeInv'
  <2>1. /\ pc[p] = "close" /\ Closed(p)
        /\ UNCHANGED <<cursor, requests, sharing, pending, answer, closeVars, wireVars, writeVars, readVars>>
    BY <1>17 DEF CloseAgain
  <2>2. call' \in [Callers -> Call] /\ pc' \in [Procs -> Places]
    BY <1>0, <2>1, ClosedMoves
  <2>3. RequestTypes'
    BY <1>0, <2>1, <2>2 DEF RequestTypes
  <2> QED BY <1>w, <1>b, <1>c, <1>d, <2>1, <2>2, <2>3 DEF TypeInv
<1>18. CASE ReadPacket
  <2> DEFINE p == Head(in)
             channel == IF IsAck(p) THEN Waiter(p.id) ELSE 0
  <2>1. /\ in # <<>> /\ in' = Tail(in)
        /\ heard' = heard \cup ({p.request} \cap Live)
        /\ inHand' = IF channel # 0 THEN [channel |-> channel, ack |-> p] ELSE inHand
        /\ Goto(ReadLoop, CASE p.type = "received" -> "lock"
                            [] channel # 0 -> "deliver"
                            [] OTHER -> "read")
        /\ UNCHANGED <<requestVars, out, inbound, hungUp, writeVars, closeVars>>
    BY <1>18 DEF ReadPacket
  <2>2. in' \in Seq(Packet) /\ p \in On(in) /\ p \in Packet
    <3>1. in \in Seq(Packet)
      BY <1>0 DEF WireTypes
    <3> QED BY <2>1, <3>1, OnTail, OnTypes
  <2>3. channel \in 0 .. MaxRequests
    <3>1. IsAck(p) => p.id \in PacketID
      BY <2>2 DEF CoreInv, WireInv
    <3> QED BY <1>0, <3>1 DEF Waiter, RequestTypes
  <2>4. pc' \in [Procs -> Places]
    <3>1. PICK l \in Places : Goto(ReadLoop, l)
      <4>1. CASE p.type = "received"
        BY <2>1, <4>1 DEF Places
      <4>2. CASE p.type # "received" /\ channel # 0
        BY <2>1, <4>2 DEF Places
      <4>3. CASE p.type # "received" /\ channel = 0
        BY <2>1, <4>3 DEF Places
      <4> QED BY <4>1, <4>2, <4>3
    <3> QED BY <1>g, <3>1
  <2> HIDE DEF p, channel
  <2>5. WireTypes'
    BY <1>0, <2>1, <2>2 DEF WireTypes
  <2>6. ReadTypes'
    BY <1>0, <2>1, <2>2, <2>3, LiveTypes DEF ReadTypes
  <2> QED BY <1>r, <1>b, <1>c, <2>1, <2>4, <2>5, <2>6 DEF TypeInv
<1>19. CASE Deliver
  <2>1. /\ pc[ReadLoop] = "deliver"
        /\ answer' = IF answer[inHand.channel] = Empty /\ inHand.channel \in Live
                     THEN [answer EXCEPT ![inHand.channel] = inHand.ack] ELSE answer
        /\ inHand' = [channel |-> 0, ack |-> Empty] /\ Goto(ReadLoop, "read")
        /\ UNCHANGED <<cursor, requests, sharing, pending, call, heard, wireVars, writeVars, closeVars>>
    BY <1>19 DEF Deliver
  <2>2. inHand.ack \in Packet
    BY <1>0 DEF ReadTypes
  <2>3. RequestTypes'
    BY <1>0, <2>1, <2>2 DEF RequestTypes
  <2>4. ReadTypes'
    BY <1>0, <1>e, <2>1 DEF ReadTypes
  <2>5. pc' \in [Procs -> Places]
    BY <1>g, <2>1 DEF Places
  <2> QED BY <1>w, <1>b, <1>c, <2>1, <2>3, <2>4, <2>5 DEF TypeInv
<1>20. CASE ReadFails
  <2>1. readErr' \in BOOLEAN
    BY <1>20, Zenon DEF ReadFails
  <2>2. CloseTypes'
    BY <1>0, <1>20, <2>1 DEF ReadFails, CloseTypes
  <2>3. pc' \in [Procs -> Places]
    BY <1>20, <1>g DEF ReadFails, Places
  <2> QED BY <1>20, <1>r, <1>w, <1>b, <1>d, <2>2, <2>3 DEF ReadFails, TypeInv
<1>21. CASE KeepAliveSeesDone
  <2>1. pc' \in [Procs -> Places]
    BY <1>21, <1>g DEF KeepAliveSeesDone, Places
  <2> QED BY <1>21, <1>r, <1>w, <1>b, <1>c, <1>d, <2>1 DEF KeepAliveSeesDone, TypeInv
<1>22. CASE BrokerReads
  <2> DEFINE p == Head(out)
  <2>1. /\ out # <<>> /\ out' = Tail(out) /\ hungUp' = (p.type = "disconnect")
        /\ in' = in \/ \E t \in Acks(p) : in' = Append(in, [p EXCEPT !.type = t])
        /\ UNCHANGED <<inbound, requestVars, writeVars, closeVars, readVars, pc>>
    BY <1>22 DEF BrokerReads
  <2>2. out \in Seq(Packet) /\ in \in Seq(Packet) /\ Len(out) <= SendBuffer
    BY <1>0 DEF WireTypes
  <2>3. out' \in Seq(Packet) /\ Len(out') <= SendBuffer /\ p \in Packet
    BY <2>1, <2>2, OnTail, OnTypes
  <2>4. in' \in Seq(Packet)
    <3>1. ASSUME NEW t \in Acks(p) PROVE [p EXCEPT !.type = t] \in Packet
      <4>1. t \in AckTypes
        BY DEF Acks, AckTypes
      <4> QED BY <2>3, <4>1 DEF Packet
    <3>2. in' = in \/ \E q \in Packet : in' = Append(in, q)
      BY <2>1, <3>1
    <3> QED BY <2>2, <3>2, OnAppend
  <2>5. hungUp' \in BOOLEAN
    BY <2>1, Zenon
  <2>6. WireTypes'
    BY <1>0, <2>1, <2>3, <2>4, <2>5 DEF WireTypes
  <2> QED BY <1>0, <1>r, <1>b, <1>c, <1>d, <2>1, <2>6 DEF TypeInv
<1>23. CASE BrokerPublishes
  <2>1. Plain("received") \in Packet
    BY DEF Plain, Packet
  <2>2. in' \in Seq(Packet)
    BY <1>0, <1>23, <2>1, OnAppend DEF BrokerPublishes, WireTypes
  <2>3. WireTypes'
    BY <1>0, <1>23, <2>2 DEF BrokerPublishes, WireTypes
  <2> QED BY <1>0, <1>23, <1>r, <1>b, <1>c, <1>d, <2>3 DEF BrokerPublishes, TypeInv
<1>24. CASE BrokerHangsUp
  <2>1. hungUp' \in BOOLEAN
    BY <1>24, Zenon DEF BrokerHangsUp
  <2>2. WireTypes'
    BY <1>0, <1>24, <2>1 DEF BrokerHangsUp, WireTypes
  <2> QED BY <1>0, <1>24, <1>r, <1>b, <1>c, <1>d, <2>2 DEF BrokerHangsUp, TypeInv
<1>25. CASE UNCHANGED vars
  BY <1>0, <1>25, <1>r, <1>w, <1>b, <1>c, <1>d DEF vars, TypeInv
<1> QED BY <1>1, <1>2, <1>3, <1>4, <1>5, <1>6, <1>8, <1>11, <1>12, <1>13, <1>14,
           <1>15, <1>16, <1>17, <1>18, <1>19, <1>20, <1>21, <1>22, <1>23, <1>24, <1>25
           DEF Next, Calling, Writing, Closing, Reading

\* What a step leaves of a call.
Same(c) == call'[c].kind = call[c].kind /\ call'[c].id = call[c].id
           /\ call'[c].request = call[c].request

\* Nothing changes for a goroutine while another one moves.
LEMMA CallerFrame ==
    ASSUME NEW c \in Callers, CallerInv(c), pc'[c] = pc[c], Same(c),
           requests \in Int, requests' \in Int, requests <= requests'
    PROVE  CallerInv(c)'
BY DEF CallerInv, Same

\* Where the goroutines can be.
LEMMA ControlStep ==
    CoreInv /\ TypeInv' /\ [Next]_vars => ControlInv'
<1> SUFFICES ASSUME CoreInv, TypeInv', [Next]_vars PROVE ControlInv'
  OBVIOUS
<1> USE Different
<1>0. /\ TypeInv /\ ControlInv /\ LoopInv /\ \A c \in Callers : CallerInv(c)
      /\ pc \in [Procs -> Places] /\ call \in [Callers -> Call] /\ requests \in 0 .. MaxRequests
      /\ pc' \in [Procs -> Places] /\ call' \in [Callers -> Call] /\ requests' \in 0 .. MaxRequests
  BY DEF CoreInv, ControlInv, TypeInv, RequestTypes
<1>f. ASSUME NEW c \in Callers, pc'[c] = pc[c], Same(c), requests <= requests' PROVE CallerInv(c)'
  <2>1. CallerInv(c) /\ requests \in Int /\ requests' \in Int
    BY <1>0
  <2> QED BY <1>f, <2>1, CallerFrame
<1>k. ASSUME UNCHANGED <<call, requests>>, \A c \in Callers : pc'[c] = pc[c]
      PROVE  \A c \in Callers : CallerInv(c)'
  BY <1>0, <1>f, <1>k DEF Same
<1>l. ASSUME UNCHANGED <<conn, out, in, inHand>>, pc'[ReadLoop] = pc[ReadLoop],
             pc'[KeepAlive] = pc[KeepAlive]
      PROVE  LoopInv'
  BY <1>0, <1>l DEF LoopInv
<1>1. CASE ConnectAccepted
  <2>1. LoopInv'
    BY <1>0, <1>1 DEF ConnectAccepted, Connectable, LoopInv, readVars
  <2> QED BY <1>0, <1>1, <1>k, <2>1 DEF ConnectAccepted, ControlInv
<1>2. CASE ConnectRefused
  <2>1. LoopInv'
    BY <1>0, <1>2 DEF ConnectRefused, LoopInv, readVars, wireVars
  <2> QED BY <1>0, <1>2, <1>k, <2>1 DEF ConnectRefused, ControlInv
<1>3. ASSUME NEW c \in Callers, NEW kind \in Awaiting, Begin(c, kind) PROVE ControlInv'
  <2>1. /\ requests' = requests + 1 /\ pc'[c] = "expect" /\ AllocatePacketID \in PacketID
        /\ call'[c] = [kind |-> kind, id |-> AllocatePacketID, request |-> requests + 1,
                       got |-> 0, result |-> "none"]
        /\ \A d \in Callers \ {c} : call'[d] = call[d]
        /\ \A q \in Procs \ {c} : pc'[q] = pc[q]
    BY <1>0, <1>3, BeginMoves
  <2>2. CallerInv(c)'
    BY <1>0, <2>1 DEF CallerInv
  <2>3. \A d \in Callers \ {c} : CallerInv(d)'
    BY <1>0, <1>f, <2>1 DEF Same
  <2>4. LoopInv'
    BY <1>3, <1>l, <2>1 DEF Begin, wireVars, closeVars, readVars
  <2> QED BY <2>2, <2>3, <2>4 DEF ControlInv
<1>4. ASSUME NEW c \in Callers, BeginDisconnect(c) \/ BeginClose(c) PROVE ControlInv'
  <2>1. PICK k \in {"disconnect", "close"}, l \in {"lock", "close"} :
           /\ pc[c] = "idle" /\ call' = [call EXCEPT ![c].kind = k] /\ pc' = [pc EXCEPT ![c] = l]
           /\ l = "lock" => k = "disconnect"
           /\ UNCHANGED <<requests, wireVars, closeVars, readVars>>
    <3>1. CASE BeginDisconnect(c)
      BY <3>1 DEF BeginDisconnect, Goto
    <3>2. CASE BeginClose(c)
      BY <3>2 DEF BeginClose, Goto
    <3> QED BY <1>4, <3>1, <3>2
  <2>2. /\ call'[c].kind = k /\ call'[c].id = call[c].id /\ call'[c].request = call[c].request
        /\ pc'[c] = l
    BY <1>0, <2>1 DEF Call
  <2>3. call[c].id = 0 /\ call[c].request = 0
    BY <1>0, <2>1 DEF CallerInv, Awaiting
  <2>4. CallerInv(c)'
    BY <2>1, <2>2, <2>3 DEF CallerInv, Awaiting
  <2>5. \A d \in Callers \ {c} : CallerInv(d)'
    BY <1>0, <1>f, <2>1 DEF Same
  <2>6. LoopInv'
    BY <1>0, <1>l, <2>1 DEF wireVars, closeVars, readVars
  <2> QED BY <2>4, <2>5, <2>6 DEF ControlInv
<1>5. ASSUME NEW c \in Callers, Expect(c) PROVE ControlInv'
  <2>1. /\ pc[c] = "expect" /\ pc' = [pc EXCEPT ![c] = "lock"]
        /\ UNCHANGED <<requests, call, wireVars, closeVars, readVars>>
    BY <1>5 DEF Expect, Goto
  <2>2. CallerInv(c)'
    BY <1>0, <2>1 DEF CallerInv
  <2>3. \A d \in Callers \ {c} : CallerInv(d)'
    BY <1>0, <1>f, <2>1 DEF Same
  <2>4. LoopInv'
    BY <1>0, <1>l, <2>1 DEF wireVars, closeVars, readVars
  <2> QED BY <2>2, <2>3, <2>4 DEF ControlInv
<1>6. ASSUME NEW c \in Callers, NEW got \in 0 .. MaxRequests, NEW result \in Results,
             Finish(c, got, result), pc[c] = "wait"
      PROVE  ControlInv'
  <2>1. /\ pc'[c] = "forget" /\ \A q \in Procs \ {c} : pc'[q] = pc[q]
        /\ \A d \in Callers : Same(d)
    BY <1>0, <1>6, FinishMoves DEF Same
  <2>2. UNCHANGED <<requests, wireVars, closeVars, readVars>>
    BY <1>6 DEF Finish
  <2>3. CallerInv(c)'
    BY <1>0, <1>6, <2>1, <2>2 DEF CallerInv, Same
  <2>4. \A d \in Callers \ {c} : CallerInv(d)'
    BY <1>0, <1>f, <2>1, <2>2
  <2>5. LoopInv'
    BY <1>0, <1>l, <2>1, <2>2 DEF wireVars, closeVars, readVars
  <2> QED BY <2>3, <2>4, <2>5 DEF ControlInv
<1>7. ASSUME NEW c \in Callers, Answered(c) \/ TimesOut(c) \/ SeesDone(c) PROVE ControlInv'
  <2>1. \E got \in 0 .. MaxRequests, result \in Results :
           pc[c] = "wait" /\ Finish(c, got, result)
    BY <1>0, <1>7, FinishesTyped
  <2> QED BY <1>6, <2>1
<1>8. ASSUME NEW c \in Callers, Forget(c) PROVE ControlInv'
  <2>1. /\ call'[c] = NoCall /\ \A d \in Callers \ {c} : call'[d] = call[d]
        /\ pc'[c] = "idle" /\ \A q \in Procs \ {c} : pc'[q] = pc[q]
    BY <1>0, <1>8, ForgetMoves
  <2>2. UNCHANGED <<requests, wireVars, closeVars, inHand>>
    BY <1>8 DEF Forget
  <2>3. CallerInv(c)'
    BY <2>1 DEF CallerInv, NoCall, Awaiting
  <2>4. \A d \in Callers \ {c} : CallerInv(d)'
    BY <1>0, <1>f, <2>1, <2>2 DEF Same
  <2>5. LoopInv'
    BY <1>l, <2>1, <2>2 DEF wireVars, closeVars
  <2> QED BY <2>3, <2>4, <2>5 DEF ControlInv
<1>9. ASSUME NEW p \in Procs, LockAndEncode(p) PROVE ControlInv'
  <2>1. /\ pc[p] \in {"lock", "tick"} /\ pc' = [pc EXCEPT ![p] = "sending"]
        /\ UNCHANGED <<requests, call, wireVars, closeVars, readVars>>
    BY <1>9 DEF LockAndEncode, Goto, requestVars
  <2>2. ASSUME NEW c \in Callers PROVE CallerInv(c)'
    <3>1. CASE c = p
      BY <1>0, <2>1, <3>1 DEF CallerInv
    <3>2. CASE c # p
      BY <1>0, <1>f, <2>1, <3>2 DEF Same
    <3> QED BY <3>1, <3>2
  <2>3. LoopInv'
    BY <1>0, <2>1 DEF LoopInv, wireVars, closeVars, readVars
  <2> QED BY <2>2, <2>3 DEF ControlInv
<1>10. ASSUME NEW p \in Procs, Send(p) \/ SendFails(p) PROVE ControlInv'
  <2>1. PICK ok \in BOOLEAN : pc[p] = "sending" /\ Written(p, ok)
    BY <1>10 DEF Send, SendFails
  <2>2. /\ \A q \in Procs \ {p} : pc'[q] = pc[q]
        /\ \A c \in Callers : Same(c)
        /\ p = ReadLoop => pc'[p] = "read"
        /\ p = KeepAlive => pc'[p] \in {"tick", "ended"}
        /\ p \in Callers /\ call[p].kind = "disconnect" => pc'[p] = "close"
        /\ p \in Callers /\ call[p].kind \in Awaiting => pc'[p] = IF ok THEN "wait" ELSE "forget"
    BY <1>0, <2>1, WrittenMoves DEF Same
  <2>3. /\ UNCHANGED <<requests, in, inHand, conn>>
        /\ conn # "open" => out' = out
    BY <1>10 DEF Send, SendFails, wireVars, closeVars, readVars
  <2>4. ASSUME NEW c \in Callers PROVE CallerInv(c)'
    <3>1. CASE c = p
      <4>1. call[c].kind \in Awaiting \cup {"disconnect"}
        BY <1>0, <2>1, <3>1 DEF CallerInv
      <4>2. CASE call[c].kind = "disconnect"
        BY <1>0, <2>2, <2>3, <3>1, <4>2 DEF CallerInv, Same, Awaiting
      <4>3. CASE call[c].kind \in Awaiting
        BY <1>0, <2>2, <2>3, <3>1, <4>3 DEF CallerInv, Same
      <4> QED BY <4>1, <4>2, <4>3
    <3>2. CASE c # p
      BY <1>0, <1>f, <2>2, <2>3, <3>2
    <3> QED BY <3>1, <3>2
  <2>5. LoopInv'
    BY <1>0, <2>1, <2>2, <2>3 DEF LoopInv
  <2> QED BY <2>4, <2>5 DEF ControlInv
<1>11. ASSUME NEW p \in Procs, CloseDone(p) PROVE ControlInv'
  <2>1. /\ pc[p] = "close" /\ pc' = [pc EXCEPT ![p] = "closing"]
        /\ UNCHANGED <<requests, call, wireVars, conn, readVars>>
    BY <1>11 DEF CloseDone, Goto, requestVars
  <2>2. ASSUME NEW c \in Callers PROVE CallerInv(c)'
    <3>1. CASE c = p
      BY <1>0, <2>1, <3>1 DEF CallerInv
    <3>2. CASE c # p
      BY <1>0, <1>f, <2>1, <3>2 DEF Same
    <3> QED BY <3>1, <3>2
  <2>3. LoopInv'
    BY <1>0, <2>1 DEF LoopInv, wireVars, readVars
  <2> QED BY <2>2, <2>3 DEF ControlInv
<1>12. ASSUME NEW p \in Procs, CloseConn(p) \/ CloseAgain(p) PROVE ControlInv'
  <2>1. /\ pc[p] \in {"close", "closing"} /\ Closed(p)
        /\ UNCHANGED <<requests, in, inHand>>
        /\ conn' \in {conn, "closed"} /\ out' \in {out, <<>>}
    BY <1>12 DEF CloseConn, CloseAgain, closeVars, wireVars, readVars
  <2>2. /\ p # KeepAlive
        /\ \A d \in Callers \ {p} : call'[d] = call[d]
        /\ p \in Callers => call'[p] = NoCall /\ pc'[p] = "idle"
        /\ p = ReadLoop => pc'[p] = "ended"
        /\ \A q \in Procs \ {p} : pc'[q] = pc[q]
    BY <1>0, <2>1, ClosedMoves
  <2>3. ASSUME NEW c \in Callers PROVE CallerInv(c)'
    <3>1. CASE c = p
      BY <2>2, <3>1 DEF CallerInv, NoCall, Awaiting
    <3>2. CASE c # p
      BY <1>0, <1>f, <2>1, <2>2, <3>2 DEF Same
    <3> QED BY <3>1, <3>2
  <2>4. LoopInv'
    BY <1>0, <2>1, <2>2 DEF LoopInv
  <2> QED BY <2>3, <2>4 DEF ControlInv
<1>13. CASE ReadPacket
  <2> DEFINE p == Head(in)
             channel == IF IsAck(p) THEN Waiter(p.id) ELSE 0
             l == CASE p.type = "received" -> "lock" [] channel # 0 -> "deliver" [] OTHER -> "read"
  <2>1. /\ in # <<>> /\ pc[ReadLoop] = "read" /\ pc' = [pc EXCEPT ![ReadLoop] = l]
        /\ inHand' = IF channel # 0 THEN [channel |-> channel, ack |-> p] ELSE inHand
        /\ UNCHANGED <<requests, call, out, conn>>
    BY <1>13 DEF ReadPacket, Goto, requestVars, closeVars
  <2>2. \A c \in Callers : CallerInv(c)'
    BY <1>0, <1>k, <2>1
  <2>3. channel # 0 => IsAck(p) /\ p.type # "received"
    BY DEF IsAck, AckTypes
  <2>4. l = IF channel # 0 THEN "deliver" ELSE IF p.type = "received" THEN "lock" ELSE "read"
    BY <2>3
  <2>5. inHand'.channel \in 0 .. MaxRequests
    BY DEF TypeInv, ReadTypes
  <2>6. pc'[ReadLoop] = l /\ pc'[KeepAlive] = pc[KeepAlive]
    BY <1>0, <2>1
  <2> HIDE DEF p, channel, l
  <2>7. CASE channel # 0
    <3>1. inHand'.channel = channel /\ inHand'.ack = p
      BY <2>1, <2>7
    <3>2. inHand'.channel \in Request /\ IsAck(inHand'.ack)
      BY <2>3, <2>5, <2>7, <3>1 DEF Request
    <3>3. LoopInv'
      BY <1>0, <2>4, <2>6, <2>7, <3>2 DEF LoopInv, IsAck
    <3> QED BY <2>2, <3>3 DEF ControlInv
  <2>8. CASE channel = 0
    <3>1. LoopInv'
      BY <1>0, <2>1, <2>4, <2>6, <2>8 DEF LoopInv
    <3> QED BY <2>2, <3>1 DEF ControlInv
  <2> QED BY <2>7, <2>8
<1>14. CASE Deliver
  <2>1. /\ inHand'.channel = 0 /\ pc' = [pc EXCEPT ![ReadLoop] = "read"]
        /\ UNCHANGED <<requests, call, conn>>
    BY <1>14 DEF Deliver, Goto, closeVars
  <2>2. LoopInv'
    BY <1>0, <2>1 DEF LoopInv
  <2> QED BY <1>0, <1>k, <2>1, <2>2 DEF ControlInv
<1>15. CASE ReadFails
  <2>1. /\ pc[ReadLoop] = "read" /\ pc' = [pc EXCEPT ![ReadLoop] = "close"]
        /\ UNCHANGED <<requests, call, inHand>>
    BY <1>15 DEF ReadFails, Goto, requestVars, readVars
  <2>2. LoopInv'
    BY <1>0, <2>1 DEF LoopInv
  <2> QED BY <1>0, <1>k, <2>1, <2>2 DEF ControlInv
<1>16. CASE KeepAliveSeesDone
  <2>1. /\ pc' = [pc EXCEPT ![KeepAlive] = "ended"]
        /\ UNCHANGED <<requests, call, inHand, conn, out, in>>
    BY <1>16 DEF KeepAliveSeesDone, Goto, requestVars, readVars, closeVars, wireVars
  <2>2. LoopInv'
    BY <1>0, <2>1 DEF LoopInv
  <2> QED BY <1>0, <1>k, <2>1, <2>2 DEF ControlInv
<1>17. CASE BrokerReads \/ BrokerPublishes \/ BrokerHangsUp
  <2>1. conn = "open" /\ UNCHANGED <<requestVars, closeVars, readVars, pc>>
    BY <1>17 DEF BrokerReads, BrokerPublishes, BrokerHangsUp
  <2>2. LoopInv'
    BY <1>0, <2>1 DEF LoopInv, readVars
  <2> QED BY <1>k, <2>1, <2>2 DEF ControlInv, requestVars
<1>18. CASE UNCHANGED vars
  BY <1>18, <1>k, <1>l DEF vars, requestVars, wireVars, closeVars, readVars, ControlInv
<1> QED BY <1>1, <1>2, <1>3, <1>4, <1>5, <1>7, <1>8, <1>9, <1>10, <1>11, <1>12, <1>13, <1>14,
           <1>15, <1>16, <1>17, <1>18
           DEF Next, Calling, Writing, Closing, Reading

\* A step in which nobody starts or ends a write, and the call of who is writing
\* stays as it is, leaves the writer alone.
LEMMA WriteFrame ==
    ASSUME WriteInv, UNCHANGED <<writeMu, buf>>,
           \A p \in Procs : pc'[p] = "sending" => pc[p] = "sending" /\ (p \in Callers => Same(p))
    PROVE  WriteInv'
<1> SUFFICES ASSUME NEW p \in Procs, pc'[p] = "sending" PROVE writeMu' = p /\ buf' = PacketOf(p)'
  BY DEF WriteInv
<1>1. writeMu = p /\ buf = PacketOf(p)
  BY DEF WriteInv
<1>2. PacketOf(p)' = PacketOf(p)
  <2>1. CASE p \in Callers
    BY <2>1, Different DEF PacketOf, Same
  <2>2. CASE p \notin Callers
    BY <2>2, Different DEF PacketOf, Procs, Plain
  <2> QED BY <2>1, <2>2
<1> QED BY <1>1, <1>2

\* writeMu keeps the writers apart.
LEMMA WriteStep ==
    CoreInv /\ TypeInv' /\ ControlInv' /\ [Next]_vars => WriteInv'
<1> SUFFICES ASSUME CoreInv, TypeInv', ControlInv', [Next]_vars PROVE WriteInv'
  OBVIOUS
<1> USE Different
<1>0. /\ TypeInv /\ ControlInv /\ WriteInv
      /\ pc \in [Procs -> Places] /\ call \in [Callers -> Call]
      /\ pc' \in [Procs -> Places] /\ call' \in [Callers -> Call]
  BY DEF CoreInv, TypeInv, RequestTypes
<1>1. CASE ConnectAccepted
  BY <1>0, <1>1, WriteFrame DEF ConnectAccepted, writeVars, Same
<1>2. CASE ConnectRefused
  BY <1>0, <1>2, WriteFrame DEF ConnectRefused, writeVars, Same
<1>3. ASSUME NEW c \in Callers, NEW kind \in Awaiting, Begin(c, kind) PROVE WriteInv'
  <2>1. /\ pc'[c] = "expect" /\ \A d \in Callers \ {c} : call'[d] = call[d]
        /\ \A q \in Procs \ {c} : pc'[q] = pc[q]
    BY <1>0, <1>3, BeginMoves
  <2> QED BY <1>0, <1>3, <2>1, WriteFrame DEF Begin, writeVars, Same
<1>4. ASSUME NEW c \in Callers, BeginDisconnect(c) PROVE WriteInv'
  BY <1>0, <1>4, WriteFrame DEF BeginDisconnect, Goto, writeVars, Same
<1>5. ASSUME NEW c \in Callers, BeginClose(c) PROVE WriteInv'
  BY <1>0, <1>5, WriteFrame DEF BeginClose, Goto, writeVars, Same
<1>6. ASSUME NEW c \in Callers, Expect(c) PROVE WriteInv'
  BY <1>0, <1>6, WriteFrame DEF Expect, Goto, writeVars, Same
<1>7. ASSUME NEW c \in Callers, Answered(c) \/ TimesOut(c) \/ SeesDone(c) PROVE WriteInv'
  <2>1. PICK got \in 0 .. MaxRequests, result \in Results :
           pc[c] = "wait" /\ Finish(c, got, result)
    BY <1>0, <1>7, FinishesTyped
  <2>2. /\ pc'[c] = "forget" /\ \A q \in Procs \ {c} : pc'[q] = pc[q]
        /\ \A d \in Callers : Same(d)
    BY <1>0, <2>1, FinishMoves DEF Same
  <2> QED BY <1>0, <2>1, <2>2, WriteFrame DEF Finish, writeVars
<1>8. ASSUME NEW c \in Callers, Forget(c) PROVE WriteInv'
  <2>1. /\ \A d \in Callers \ {c} : call'[d] = call[d]
        /\ pc'[c] = "idle" /\ \A q \in Procs \ {c} : pc'[q] = pc[q]
    BY <1>0, <1>8, ForgetMoves
  <2> QED BY <1>0, <1>8, <2>1, WriteFrame DEF Forget, Same
<1>9. ASSUME NEW p \in Procs, LockAndEncode(p) PROVE WriteInv'
  <2>1. /\ writeMu = NoOne /\ writeMu' = p /\ buf' = PacketOf(p)
        /\ pc' = [pc EXCEPT ![p] = "sending"] /\ call' = call
    BY <1>9 DEF LockAndEncode, Goto, requestVars
  <2>2. \A q \in Procs : pc[q] # "sending"
    BY <1>0, <2>1 DEF WriteInv
  <2>3. PacketOf(p)' = PacketOf(p)
    BY <2>1 DEF PacketOf
  <2> QED BY <1>0, <2>1, <2>2, <2>3 DEF WriteInv
<1>10. ASSUME NEW p \in Procs, Send(p) \/ SendFails(p) PROVE WriteInv'
  <2>1. PICK ok \in BOOLEAN : pc[p] = "sending" /\ Written(p, ok)
    BY <1>10 DEF Send, SendFails
  <2>2. \A q \in Procs \ {p} : pc'[q] = pc[q] /\ pc[q] # "sending"
    BY <1>0, <2>1, WrittenMoves DEF WriteInv
  <2>3. pc'[p] # "sending"
    <3>1. CASE p \in Callers
      <4>1. call[p].kind \in Awaiting \cup {"disconnect"}
        BY <1>0, <2>1, <3>1 DEF ControlInv, CallerInv
      <4>2. pc'[p] \in {"close", "wait", "forget"}
        BY <1>0, <2>1, <3>1, <4>1, WrittenMoves
      <4> QED BY <4>2
    <3>2. CASE p \notin Callers
      <4>1. pc'[p] \in {"read", "tick", "ended"}
        BY <1>0, <2>1, <3>2, WrittenMoves DEF Procs
      <4> QED BY <4>1
    <3> QED BY <3>1, <3>2
  <2> QED BY <2>2, <2>3 DEF WriteInv
<1>11. ASSUME NEW p \in Procs, CloseDone(p) PROVE WriteInv'
  BY <1>0, <1>11, WriteFrame DEF CloseDone, Goto, requestVars, writeVars, Same
<1>12. ASSUME NEW p \in Procs, CloseConn(p) \/ CloseAgain(p) PROVE WriteInv'
  <2>1. pc[p] \in {"close", "closing"} /\ Closed(p) /\ UNCHANGED writeVars
    BY <1>12 DEF CloseConn, CloseAgain
  <2>2. /\ \A d \in Callers \ {p} : call'[d] = call[d]
        /\ pc'[p] \in {"idle", "ended"} /\ \A q \in Procs \ {p} : pc'[q] = pc[q]
    BY <1>0, <2>1, ClosedMoves DEF Procs
  <2> QED BY <1>0, <2>1, <2>2, WriteFrame DEF writeVars, Same
<1>13. CASE ReadPacket
  <2>1. PICK l \in {"lock", "deliver", "read"} : Goto(ReadLoop, l)
    <3> DEFINE channel == IF IsAck(Head(in)) THEN Waiter(Head(in).id) ELSE 0
    <3>1. Goto(ReadLoop, CASE Head(in).type = "received" -> "lock"
                           [] channel # 0 -> "deliver"
                           [] OTHER -> "read")
      BY <1>13 DEF ReadPacket
    <3> HIDE DEF channel
    <3> QED BY <3>1
  <2>2. UNCHANGED <<requestVars, writeVars>>
    BY <1>13 DEF ReadPacket
  <2> QED BY <1>0, <2>1, <2>2, WriteFrame DEF Goto, requestVars, writeVars, Same
<1>14. CASE Deliver
  BY <1>0, <1>14, WriteFrame DEF Deliver, Goto, writeVars, Same
<1>15. CASE ReadFails
  BY <1>0, <1>15, WriteFrame DEF ReadFails, Goto, requestVars, writeVars, Same
<1>16. CASE KeepAliveSeesDone
  BY <1>0, <1>16, WriteFrame DEF KeepAliveSeesDone, Goto, requestVars, writeVars, Same
<1>17. CASE BrokerReads \/ BrokerPublishes \/ BrokerHangsUp
  <2>1. UNCHANGED <<requestVars, writeVars, pc>>
    BY <1>17 DEF BrokerReads, BrokerPublishes, BrokerHangsUp
  <2> QED BY <1>0, <2>1, WriteFrame DEF requestVars, writeVars, Same
<1>18. CASE UNCHANGED vars
  BY <1>0, <1>18, WriteFrame DEF vars, requestVars, writeVars, Same
<1> QED BY <1>1, <1>2, <1>3, <1>4, <1>5, <1>6, <1>7, <1>8, <1>9, <1>10, <1>11, <1>12, <1>13,
           <1>14, <1>15, <1>16, <1>17, <1>18
           DEF Next, Calling, Writing, Closing, Reading

\* What a goroutine puts on the wire.
LEMMA SentPacket ==
    ASSUME TypeInv, ControlInv, WriteInv, NEW p \in Procs, pc[p] = "sending"
    PROVE  /\ buf = PacketOf(p) /\ buf \in Packet
           /\ p \notin Callers => buf.type \notin Awaiting /\ buf.request = 0
           /\ p \in Callers => /\ buf.type = call[p].kind /\ buf.id = call[p].id
                               /\ buf.request = call[p].request
<1> USE Different
<1>1. buf = PacketOf(p) /\ buf \in Packet
  BY DEF WriteInv, TypeInv, WriteTypes
<1>2. CASE p \in Callers
  BY <1>1, <1>2 DEF PacketOf
<1>3. CASE p \notin Callers
  BY <1>1, <1>3 DEF PacketOf, Procs, Plain, Awaiting
<1> QED BY <1>1, <1>2, <1>3

\* What a step does to the two queues: it takes from their heads, and puts at
\* their ends what was written, the answer to what was read, or a message.
LEMMA WireMoves ==
    ASSUME CoreInv, [Next]_vars
    PROVE  /\ On(out') \subseteq On(out) \cup
                 (IF \E p \in Procs : Send(p) THEN {buf} ELSE {})
           /\ \A x \in On(in') : \/ x \in On(in)
                                 \/ x = Plain("received")
                                 \/ \E y \in On(out) : \E t \in Acks(y) :
                                      y \in Packet /\ x = [y EXCEPT !.type = t]
<1>0. out \in Seq(Packet) /\ in \in Seq(Packet) /\ buf \in Packet
  BY DEF CoreInv, TypeInv, WireTypes, WriteTypes
<1>1. ASSUME NEW p \in Procs, Send(p)
      PROVE  On(out') \subseteq On(out) \cup {buf} /\ in' = in
  <2>1. On(Append(out, buf)) = On(out) \cup {buf}
    BY <1>0, OnAppend
  <2> QED BY <1>1, <2>1 DEF Send
<1>2. CASE ReadPacket
  <2>1. in # <<>> /\ in' = Tail(in) /\ out' = out
    BY <1>2 DEF ReadPacket
  <2>2. On(in') \subseteq On(in)
    BY <1>0, <2>1, OnTail
  <2> QED BY <2>1, <2>2
<1>3. CASE BrokerReads
  <2> DEFINE y == Head(out)
  <2>1. /\ out # <<>> /\ out' = Tail(out)
        /\ in' = in \/ \E t \in Acks(y) : in' = Append(in, [y EXCEPT !.type = t])
    BY <1>3 DEF BrokerReads
  <2>2. y \in On(out) /\ y \in Packet /\ On(out') \subseteq On(out)
    BY <1>0, <2>1, OnTail, OnTypes
  <2> HIDE DEF y
  <2>3. ASSUME NEW t \in Acks(y), in' = Append(in, [y EXCEPT !.type = t])
        PROVE  On(in') = On(in) \cup {[y EXCEPT !.type = t]}
    <3>1. t \in AckTypes
      BY DEF Acks, AckTypes
    <3>2. [y EXCEPT !.type = t] \in Packet
      BY <2>2, <3>1 DEF Packet
    <3> QED BY <1>0, <2>3, <3>2, OnAppend
  <2> QED BY <2>1, <2>2, <2>3
<1>4. CASE BrokerPublishes
  <2>1. Plain("received") \in Packet
    BY DEF Plain, Packet
  <2>2. in' = Append(in, Plain("received")) /\ out' = out
    BY <1>4 DEF BrokerPublishes
  <2>3. On(in') = On(in) \cup {Plain("received")}
    BY <1>0, <2>1, <2>2, OnAppend
  <2> QED BY <2>2, <2>3
<1>5. CASE out' \in {out, <<>>} /\ in' = in
  BY <1>5, OnTypes
<1>6. CASE BrokerHangsUp \/ \E p \in Procs : CloseConn(p)
  BY <1>5, <1>6 DEF BrokerHangsUp, CloseConn
<1>7. CASE ConnectAccepted \/ ConnectRefused \/ ReadFails \/ Deliver \/ KeepAliveSeesDone
  BY <1>5, <1>7 DEF ConnectAccepted, ConnectRefused, ReadFails, Deliver, KeepAliveSeesDone, wireVars
<1>8. ASSUME NEW c \in Callers,
             \/ \E kind \in Awaiting : Begin(c, kind)
             \/ BeginDisconnect(c) \/ BeginClose(c) \/ Calling(c)
      PROVE  UNCHANGED wireVars
  BY <1>8 DEF Begin, BeginDisconnect, BeginClose, Calling, Expect, Answered, TimesOut, SeesDone,
              Finish, Forget
<1>9. ASSUME NEW p \in Procs, LockAndEncode(p) \/ SendFails(p) \/ CloseDone(p) \/ CloseAgain(p)
      PROVE  UNCHANGED wireVars
  BY <1>9 DEF LockAndEncode, SendFails, CloseDone, CloseAgain
<1>10. CASE UNCHANGED wireVars
  BY <1>5, <1>10 DEF wireVars
<1> QED BY <1>1, <1>2, <1>3, <1>4, <1>6, <1>7, <1>8, <1>9, <1>10
           DEF Next, Writing, Closing, Reading, vars

\* What is under way.
LEMMA WireStep ==
    CoreInv /\ [Next]_vars => WireInv'
<1> SUFFICES ASSUME CoreInv, [Next]_vars PROVE WireInv'
  OBVIOUS
<1>0. TypeInv /\ ControlInv /\ WriteInv /\ WireInv
  BY DEF CoreInv
<1>1. ASSUME NEW x \in On(out')
      PROVE  IF x.type \in Awaiting THEN x.id \in PacketID ELSE x.request = 0
  <2>1. CASE x \in On(out)
    BY <1>0, <2>1 DEF WireInv
  <2>2. ASSUME NEW p \in Procs, Send(p), x = buf
        PROVE  IF x.type \in Awaiting THEN x.id \in PacketID ELSE x.request = 0
    <3>1. pc[p] = "sending"
      BY <2>2 DEF Send
    <3>2. /\ p \notin Callers => buf.type \notin Awaiting /\ buf.request = 0
          /\ p \in Callers => /\ buf.type = call[p].kind /\ buf.id = call[p].id
                              /\ buf.request = call[p].request
      BY <1>0, <3>1, SentPacket
    <3>3. p \in Callers => CallerInv(p)
      BY <1>0 DEF ControlInv
    <3> QED BY <2>2, <3>2, <3>3 DEF CallerInv
  <2> QED BY <2>1, <2>2, WireMoves
<1>2. ASSUME NEW x \in On(in')
      PROVE  IF IsAck(x) THEN x.id \in PacketID ELSE x.type = "received" /\ x.request = 0
  <2>1. CASE x \in On(in)
    BY <1>0, <2>1 DEF WireInv
  <2>2. CASE x = Plain("received")
    BY <2>2 DEF Plain, IsAck, AckTypes
  <2>3. ASSUME NEW y \in On(out), NEW t \in Acks(y), y \in Packet, x = [y EXCEPT !.type = t]
        PROVE  IsAck(x) /\ x.id \in PacketID
    <3>1. y.type \in Awaiting /\ t \in AckTypes
      BY DEF Acks, Awaiting, AckTypes
    <3>2. y.id \in PacketID
      BY <1>0, <3>1 DEF WireInv
    <3>3. x.id = y.id /\ x.type = t
      BY <2>3 DEF Packet
    <3> QED BY <3>1, <3>2, <3>3 DEF IsAck
  <2> QED BY <2>1, <2>2, <2>3, WireMoves
<1> QED BY <1>1, <1>2 DEF WireInv, IsAck

\* The four hold throughout.
LEMMA CoreAlways ==
    Spec => []CoreInv
<1>1. Init => CoreInv
  BY CoreInit
<1>2. CoreInv /\ [Next]_vars => CoreInv'
  <2> SUFFICES ASSUME CoreInv, [Next]_vars PROVE CoreInv'
    OBVIOUS
  <2>1. TypeInv'
    BY TypeStep
  <2>2. ControlInv'
    BY <2>1, ControlStep
  <2> QED BY <2>1, <2>2, WriteStep, WireStep DEF CoreInv
<1> QED BY <1>1, <1>2, PTL DEF Spec

\* Every variable keeps its type, the identifier of a call in progress is never
\* zero, and the socket never holds more than it takes.
THEOREM TypeCorrect ==
    Spec => []TypeOK
<1>1. CoreInv => TypeOK
  <2> SUFFICES ASSUME CoreInv PROVE TypeOK
    OBVIOUS
  <2>1. RequestTypes /\ WireTypes /\ WriteTypes /\ CloseTypes /\ ReadTypes /\ pc \in [Procs -> Places]
        /\ ControlInv
    BY DEF CoreInv, TypeInv
  <2>2. ASSUME NEW c \in Callers
        PROVE  /\ call[c].kind \in Kinds \cup {"none"}
               /\ call[c].kind \in Awaiting => call[c].id \in PacketID
               /\ call[c].result \in Results
    BY <2>1 DEF RequestTypes, Call, ControlInv, CallerInv
  <2>3. {written, heard, sharing} \subseteq SUBSET Request
    BY <2>1 DEF RequestTypes, WriteTypes, ReadTypes
  <2>4. (\A i \in DOMAIN out : out[i] \in Packet) /\ (\A i \in DOMAIN in : in[i] \in Packet)
    BY <2>1 DEF WireTypes
  <2> QED BY <2>1, <2>2, <2>3, <2>4
          DEF TypeOK, RequestTypes, WireTypes, WriteTypes, CloseTypes, ReadTypes, Places, Results
<1> QED BY <1>1, CoreAlways, PTL

----------------------------------------------------------------------------
(***************************************************************************)
(* What a step can do to a call, to the tables and to the histories.       *)
(***************************************************************************)
\* The life of a request: it begins, is registered, is sent, and is forgotten.
Moved(c) ==
    /\ call[c].request # 0 => Same(c) \/ Forget(c)
    /\ call'[c].request # 0 => Same(c) \/ \E kind \in Awaiting : Begin(c, kind)
    /\ Registered(c) => Registered(c)' \/ Forget(c)
    /\ Registered(c)' => Registered(c) \/ Expect(c)
    /\ pc[c] \in {"wait", "forget"} => pc'[c] \in {"wait", "forget"} \/ Forget(c)
    /\ pc'[c] = "wait" => pc[c] = "wait" \/ Send(c)
    /\ call'[c].result = "ok" =>
         \/ call[c].result = "ok" /\ call'[c].got = call[c].got /\ call'[c].request = call[c].request
         \/ Answered(c)
    /\ call'[c].result = "notConnected" =>
         call[c].result = "notConnected" \/ (SeesDone(c) /\ done /\ ~readErr)

\* A call whose goroutine does not move.
LEMMA StillMoved ==
    ASSUME NEW c \in Callers, pc'[c] = pc[c], call'[c] = call[c]
    PROVE  Moved(c)
BY DEF Moved, Same, Registered

\* Every step.
LEMMA CallMoves ==
    ASSUME CoreInv, CoreInv', [Next]_vars, NEW c \in Callers
    PROVE  Moved(c)
<1> USE Different
<1>0. /\ TypeInv /\ ControlInv /\ CallerInv(c) /\ CallerInv(c)'
      /\ pc \in [Procs -> Places] /\ call \in [Callers -> Call]
      /\ pc' \in [Procs -> Places] /\ call' \in [Callers -> Call]
  BY DEF CoreInv, ControlInv, TypeInv, RequestTypes
<1>k. ASSUME UNCHANGED call, pc'[c] = pc[c] PROVE Moved(c)
  BY <1>k, StillMoved
<1>1. CASE ConnectAccepted \/ ConnectRefused
  BY <1>0, <1>1, <1>k DEF ConnectAccepted, ConnectRefused
<1>2. ASSUME NEW d \in Callers, NEW kind \in Awaiting, Begin(d, kind) PROVE Moved(c)
  <2>1. /\ pc[d] = "idle" /\ pc'[d] = "expect"
        /\ call'[d] = [kind |-> kind, id |-> AllocatePacketID, request |-> requests + 1,
                       got |-> 0, result |-> "none"]
        /\ \A e \in Callers \ {d} : call'[e] = call[e]
        /\ \A q \in Procs \ {d} : pc'[q] = pc[q]
    BY <1>0, <1>2, BeginMoves
  <2>2. CASE c = d
    <3>1. call[c].request = 0
      BY <1>0, <2>1, <2>2 DEF CallerInv, Awaiting
    <3> QED BY <1>2, <2>1, <2>2, <3>1 DEF Moved, Registered
  <2> QED BY <2>1, <2>2, StillMoved
<1>3. ASSUME NEW d \in Callers, BeginDisconnect(d) \/ BeginClose(d) PROVE Moved(c)
  <2>1. PICK k \in {"disconnect", "close"}, l \in {"lock", "close"} :
           /\ pc[d] = "idle" /\ call' = [call EXCEPT ![d].kind = k] /\ pc' = [pc EXCEPT ![d] = l]
    <3>1. CASE BeginDisconnect(d)
      BY <3>1 DEF BeginDisconnect, Goto
    <3>2. CASE BeginClose(d)
      BY <3>2 DEF BeginClose, Goto
    <3> QED BY <1>3, <3>1, <3>2
  <2>2. CASE c = d
    <3>1. call[c].request = 0
      BY <1>0, <2>1, <2>2 DEF CallerInv, Awaiting
    <3>2. /\ call'[c].kind = k /\ call'[c].request = call[c].request /\ pc'[c] = l
          /\ call'[c].id = call[c].id
          /\ call'[c].result = call[c].result /\ call'[c].got = call[c].got
      BY <1>0, <2>1, <2>2 DEF Call
    <3> QED BY <2>1, <2>2, <3>1, <3>2 DEF Moved, Registered, Awaiting
  <2> QED BY <1>0, <2>1, <2>2, StillMoved
<1>4. ASSUME NEW d \in Callers, Expect(d) PROVE Moved(c)
  <2>1. pc[d] = "expect" /\ pc' = [pc EXCEPT ![d] = "lock"] /\ call' = call
    BY <1>4 DEF Expect, Goto
  <2>2. CASE c = d
    BY <1>0, <1>4, <2>1, <2>2 DEF Moved, Registered, Same
  <2> QED BY <1>0, <2>1, <2>2, StillMoved
<1>5. ASSUME NEW d \in Callers, Answered(d) \/ TimesOut(d) \/ SeesDone(d) PROVE Moved(c)
  <2>1. PICK got \in 0 .. MaxRequests, result \in Results :
           pc[d] = "wait" /\ Finish(d, got, result)
    BY <1>0, <1>5, FinishesTyped
  <2>2. /\ pc'[d] = "forget" /\ \A q \in Procs \ {d} : pc'[q] = pc[q]
        /\ Same(d) /\ \A e \in Callers \ {d} : call'[e] = call[e]
        /\ call'[d].result = result
    BY <1>0, <2>1, FinishMoves DEF Same
  <2>3. result = "ok" => Answered(d)
    <3>1. ASSUME TimesOut(d) PROVE call'[d].result = "timeout"
      <4>1. Finish(d, 0, "timeout") /\ 0 \in 0 .. MaxRequests /\ "timeout" \in Results
        BY <3>1 DEF TimesOut, Results
      <4> QED BY <1>0, <4>1, FinishMoves
    <3>2. ASSUME SeesDone(d) PROVE call'[d].result # "ok"
      <4>1. PICK v \in {"readErr", "notConnected"} : Finish(d, 0, v)
        BY <3>2 DEF SeesDone
      <4>2. 0 \in 0 .. MaxRequests /\ v \in Results
        BY DEF Results
      <4>3. call'[d].result = v
        BY <1>0, <4>1, <4>2, FinishMoves
      <4> QED BY <4>3
    <3> QED BY <1>5, <2>2, <3>1, <3>2
  <2>4. result = "notConnected" => SeesDone(d) /\ done /\ ~readErr
    <3>1. ASSUME TimesOut(d) PROVE call'[d].result = "timeout"
      <4>1. Finish(d, 0, "timeout") /\ 0 \in 0 .. MaxRequests /\ "timeout" \in Results
        BY <3>1 DEF TimesOut, Results
      <4> QED BY <1>0, <4>1, FinishMoves
    <3>2. ASSUME SeesDone(d), readErr PROVE call'[d].result = "readErr"
      <4>1. Finish(d, 0, "readErr") /\ 0 \in 0 .. MaxRequests /\ "readErr" \in Results
        BY <3>2 DEF SeesDone, Results
      <4> QED BY <1>0, <4>1, FinishMoves
    <3>3. ASSUME Answered(d) PROVE call'[d].result \in {"ok", "refused", "malformed"}
      <4>1. PICK v \in Verdicts(call[d].kind, answer[call[d].request]) :
               Finish(d, answer[call[d].request].request, v)
        BY <3>3 DEF Answered
      <4>2. v \in {"ok", "refused", "malformed"} /\ v \in Results
        BY DEF Verdicts, Results
      <4>3. answer[call[d].request].request \in 0 .. MaxRequests
        <5>1. call[d].request \in Request
          BY <3>3 DEF Answered, CoreInv, ControlInv, CallerInv, TypeInv, RequestTypes, Request
        <5> QED BY <5>1 DEF CoreInv, TypeInv, RequestTypes, Packet
      <4>4. call'[d].result = v
        BY <1>0, <4>1, <4>2, <4>3, FinishMoves
      <4> QED BY <4>2, <4>4
    <3> QED BY <1>5, <2>2, <3>1, <3>2, <3>3 DEF SeesDone
  <2>5. CASE c = d
    BY <1>0, <2>1, <2>2, <2>3, <2>4, <2>5 DEF Moved, Registered, Same
  <2> QED BY <2>2, <2>5, StillMoved
<1>6. ASSUME NEW d \in Callers, Forget(d) PROVE Moved(c)
  <2>1. /\ call'[d] = NoCall /\ \A e \in Callers \ {d} : call'[e] = call[e]
        /\ pc'[d] = "idle" /\ \A q \in Procs \ {d} : pc'[q] = pc[q]
    BY <1>0, <1>6, ForgetMoves
  <2>2. CASE c = d
    BY <1>6, <2>1, <2>2 DEF Moved, Registered, NoCall
  <2> QED BY <2>1, <2>2, StillMoved
<1>7. ASSUME NEW p \in Procs, LockAndEncode(p) PROVE Moved(c)
  <2>1. pc[p] \in {"lock", "tick"} /\ pc' = [pc EXCEPT ![p] = "sending"] /\ call' = call
    BY <1>7 DEF LockAndEncode, Goto, requestVars
  <2>2. CASE c = p
    <3>1. pc[c] = "lock" /\ pc'[c] = "sending"
      BY <1>0, <2>1, <2>2 DEF CallerInv
    <3> QED BY <2>1, <3>1 DEF Moved, Registered, Same
  <2> QED BY <1>0, <1>k, <2>1, <2>2
<1>8. ASSUME NEW p \in Procs, Send(p) \/ SendFails(p) PROVE Moved(c)
  <2>1. PICK ok \in BOOLEAN : pc[p] = "sending" /\ Written(p, ok) /\ (ok => Send(p))
    BY <1>8 DEF Send, SendFails
  <2>2. /\ \A q \in Procs \ {p} : pc'[q] = pc[q]
        /\ Same(c) /\ call'[c].got = call[c].got /\ call'[c].result \in {call[c].result, "failed"}
        /\ p \in Callers /\ call[p].kind = "disconnect" => pc'[p] = "close"
        /\ p \in Callers /\ call[p].kind \in Awaiting => pc'[p] = IF ok THEN "wait" ELSE "forget"
    BY <1>0, <2>1, WrittenMoves DEF Same
  <2>3. CASE c = p
    BY <1>0, <2>1, <2>2, <2>3 DEF Moved, Registered, Same, CallerInv, Awaiting
  <2>4. CASE c # p
    BY <2>2, <2>4 DEF Moved, Registered, Same
  <2> QED BY <2>3, <2>4
<1>9. ASSUME NEW p \in Procs, CloseDone(p) PROVE Moved(c)
  <2>1. pc[p] = "close" /\ pc' = [pc EXCEPT ![p] = "closing"] /\ call' = call
    BY <1>9 DEF CloseDone, Goto, requestVars
  <2>2. CASE c = p
    BY <1>0, <2>1, <2>2 DEF Moved, Registered, Same
  <2> QED BY <1>0, <1>k, <2>1, <2>2
<1>10. ASSUME NEW p \in Procs, CloseConn(p) \/ CloseAgain(p) PROVE Moved(c)
  <2>1. pc[p] \in {"close", "closing"} /\ Closed(p)
    BY <1>10 DEF CloseConn, CloseAgain
  <2>2. /\ \A d \in Callers \ {p} : call'[d] = call[d]
        /\ p \in Callers => call'[p] = NoCall /\ pc'[p] = "idle"
        /\ \A q \in Procs \ {p} : pc'[q] = pc[q]
    BY <1>0, <2>1, ClosedMoves
  <2>3. CASE c = p
    <3>1. call[c].request = 0
      BY <1>0, <2>1, <2>3 DEF CallerInv, Awaiting
    <3> QED BY <1>0, <2>1, <2>2, <2>3, <3>1 DEF Moved, Registered, NoCall, CallerInv, Awaiting
  <2> QED BY <2>2, <2>3, StillMoved
<1>11. CASE Reading
  <2>1. call' = call
    BY <1>11 DEF Reading, ReadPacket, Deliver, ReadFails, requestVars
  <2>2. \E l : Goto(ReadLoop, l)
    BY <1>11 DEF Reading, ReadPacket, Deliver, ReadFails
  <2> QED BY <1>0, <1>k, <2>1, <2>2 DEF Goto
<1>12. CASE KeepAliveSeesDone
  BY <1>0, <1>12, <1>k DEF KeepAliveSeesDone, Goto, requestVars
<1>13. CASE BrokerReads \/ BrokerPublishes \/ BrokerHangsUp
  BY <1>13, <1>k DEF BrokerReads, BrokerPublishes, BrokerHangsUp, requestVars
<1>14. CASE UNCHANGED vars
  BY <1>14, <1>k DEF vars, requestVars
<1> QED BY <1>1, <1>2, <1>3, <1>4, <1>5, <1>6, <1>7, <1>8, <1>9, <1>10, <1>11, <1>12, <1>13, <1>14
           DEF Next, Calling, Writing, Closing

\* The tables and the histories: who registers, who forgets, and what the read
\* loop takes in.
LEMMA TableMoves ==
    ASSUME CoreInv, [Next]_vars
    PROVE  \/ \E d \in Callers : Forget(d)
           \/ /\ written \subseteq written' /\ sharing \subseteq sharing'
              /\ pending' = pending \/ \E d \in Callers : Expect(d)
              /\ \/ ReadPacket
                 \/ Deliver
                 \/ /\ UNCHANGED <<heard, answer, inHand>>
                    /\ pc[ReadLoop] = "deliver" => pc'[ReadLoop] = "deliver"
<1> USE Different
<1>0. TypeInv /\ ControlInv /\ pc \in [Procs -> Places]
  BY DEF CoreInv, TypeInv
<1>1. CASE ConnectAccepted
  BY <1>1 DEF ConnectAccepted, Connectable, writeVars, readVars
<1>2. CASE ConnectRefused
  BY <1>2 DEF ConnectRefused, writeVars, readVars
<1>3. ASSUME NEW c \in Callers, NEW kind \in Awaiting, Begin(c, kind)
      PROVE  /\ UNCHANGED <<written, pending, heard, answer, inHand>> /\ sharing \subseteq sharing'
             /\ pc'[ReadLoop] = pc[ReadLoop]
  <2>1. sharing \subseteq sharing' /\ pc'[ReadLoop] = pc[ReadLoop]
    BY <1>0, <1>3, BeginMoves
  <2> QED BY <1>3, <2>1 DEF Begin, writeVars, readVars
<1>4. ASSUME NEW c \in Callers, BeginDisconnect(c) \/ BeginClose(c)
      PROVE  /\ UNCHANGED <<written, sharing, pending, heard, answer, inHand>>
             /\ pc'[ReadLoop] = pc[ReadLoop]
  BY <1>0, <1>4 DEF BeginDisconnect, BeginClose, Goto, writeVars, readVars
<1>5. ASSUME NEW c \in Callers, Expect(c)
      PROVE  UNCHANGED <<written, sharing, heard, answer, inHand>> /\ pc'[ReadLoop] = pc[ReadLoop]
  BY <1>0, <1>5 DEF Expect, Goto, writeVars, readVars
<1>6. ASSUME NEW c \in Callers, Answered(c) \/ TimesOut(c) \/ SeesDone(c)
      PROVE  /\ UNCHANGED <<written, sharing, pending, heard, answer, inHand>>
             /\ pc'[ReadLoop] = pc[ReadLoop]
  <2>1. \E got, result : Finish(c, got, result)
    BY <1>6 DEF Answered, TimesOut, SeesDone
  <2> QED BY <1>0, <2>1 DEF Finish, Goto, writeVars, readVars
<1>7. ASSUME NEW p \in Procs, LockAndEncode(p)
      PROVE  /\ UNCHANGED <<written, sharing, pending, heard, answer, inHand>>
             /\ pc[ReadLoop] = "deliver" => pc'[ReadLoop] = "deliver"
  BY <1>0, <1>7 DEF LockAndEncode, Goto, requestVars, readVars
<1>8. ASSUME NEW p \in Procs, Send(p) \/ SendFails(p)
      PROVE  /\ UNCHANGED <<sharing, pending, heard, answer, inHand>> /\ written \subseteq written'
             /\ pc[ReadLoop] = "deliver" => pc'[ReadLoop] = "deliver"
  <2>1. PICK ok \in BOOLEAN : pc[p] = "sending" /\ Written(p, ok)
    BY <1>8 DEF Send, SendFails
  <2>2. \A q \in Procs \ {p} : pc'[q] = pc[q]
    BY <1>0, <2>1, WrittenMoves
  <2>3. pc[ReadLoop] = "deliver" => pc'[ReadLoop] = "deliver"
    BY <2>1, <2>2
  <2> QED BY <1>8, <2>3 DEF Send, SendFails, readVars
<1>9. ASSUME NEW p \in Procs, CloseDone(p)
      PROVE  /\ UNCHANGED <<written, sharing, pending, heard, answer, inHand>>
             /\ pc[ReadLoop] = "deliver" => pc'[ReadLoop] = "deliver"
  BY <1>0, <1>9 DEF CloseDone, Goto, requestVars, writeVars, readVars
<1>10. ASSUME NEW p \in Procs, CloseConn(p) \/ CloseAgain(p)
       PROVE  /\ UNCHANGED <<written, sharing, pending, heard, answer, inHand>>
              /\ pc[ReadLoop] = "deliver" => pc'[ReadLoop] = "deliver"
  <2>1. /\ pc[p] \in {"close", "closing"} /\ Closed(p)
        /\ UNCHANGED <<sharing, pending, answer, writeVars, readVars>>
    BY <1>10 DEF CloseConn, CloseAgain
  <2>2. \A q \in Procs \ {p} : pc'[q] = pc[q]
    BY <1>0, <2>1, ClosedMoves
  <2> QED BY <2>1, <2>2 DEF writeVars, readVars
<1>11. CASE ReadPacket \/ Deliver
  BY <1>11 DEF ReadPacket, Deliver, requestVars, writeVars
<1>12. CASE ReadFails
  BY <1>12 DEF ReadFails, requestVars, writeVars, readVars
<1>13. CASE KeepAliveSeesDone
  BY <1>0, <1>13 DEF KeepAliveSeesDone, Goto, requestVars, writeVars, readVars
<1>14. CASE BrokerReads \/ BrokerPublishes \/ BrokerHangsUp
  BY <1>14 DEF BrokerReads, BrokerPublishes, BrokerHangsUp, requestVars, writeVars, readVars
<1>15. CASE UNCHANGED vars
  BY <1>15 DEF vars, requestVars, writeVars, readVars
<1> QED BY <1>1, <1>2, <1>3, <1>4, <1>5, <1>6, <1>7, <1>8, <1>9, <1>10, <1>11, <1>12, <1>13, <1>14, <1>15
           DEF Next, Calling, Writing, Closing, Reading

\* Requests are counted up, one at a time.
LEMMA CountMoves ==
    ASSUME CoreInv, [Next]_vars
    PROVE  /\ requests \in Nat /\ requests' \in Nat
           /\ \/ requests' = requests
              \/ requests' = requests + 1 /\ \E c \in Callers, kind \in Awaiting : Begin(c, kind)
<1>0. requests \in Nat
  BY DEF CoreInv, TypeInv, RequestTypes
<1>1. ASSUME NEW c \in Callers, NEW kind \in Awaiting, Begin(c, kind)
      PROVE  requests' = requests + 1
  BY <1>1 DEF Begin
<1>2. ASSUME NEW c \in Callers, BeginDisconnect(c) \/ BeginClose(c) \/ Calling(c)
      PROVE  requests' = requests
  BY <1>2 DEF BeginDisconnect, BeginClose, Calling, Expect, Answered, TimesOut, SeesDone, Finish, Forget
<1>3. ASSUME NEW p \in Procs, LockAndEncode(p) \/ Writing(p) \/ Closing(p)
      PROVE  requests' = requests
  BY <1>3 DEF LockAndEncode, Writing, Send, SendFails, Closing, CloseDone, CloseConn, CloseAgain,
              requestVars
<1>4. CASE ConnectAccepted \/ ConnectRefused
  BY <1>0, <1>4 DEF ConnectAccepted, ConnectRefused
<1>5. CASE Reading \/ KeepAliveSeesDone
  BY <1>0, <1>5 DEF Reading, ReadPacket, Deliver, ReadFails, KeepAliveSeesDone, requestVars
<1>6. CASE BrokerReads \/ BrokerPublishes \/ BrokerHangsUp
  BY <1>0, <1>6 DEF BrokerReads, BrokerPublishes, BrokerHangsUp, requestVars
<1>7. CASE UNCHANGED vars
  BY <1>0, <1>7 DEF vars, requestVars
<1> QED BY <1>0, <1>1, <1>2, <1>3, <1>4, <1>5, <1>6, <1>7 DEF Next

\* What the read loop has heard of was under way.
LEMMA HeardMoves ==
    ASSUME CoreInv, [Next]_vars, NEW r \in heard'
    PROVE  r \in heard \/ (r # 0 /\ \E x \in On(in) : x.request = r)
<1>0. RequestTypes /\ in \in Seq(Packet) /\ TypeInv /\ ControlInv
  BY DEF CoreInv, TypeInv, WireTypes
<1>1. CASE ReadPacket
  <2>1. in # <<>> /\ heard' = heard \cup ({Head(in).request} \cap Live)
    BY <1>1 DEF ReadPacket
  <2>2. Head(in) \in On(in)
    BY <1>0, <2>1, OnTail
  <2> QED BY <1>0, <2>1, <2>2, LiveTypes
<1>2. CASE Deliver
  BY <1>2 DEF Deliver
<1>3. ASSUME NEW d \in Callers, Forget(d) PROVE r \in heard
  BY <1>0, <1>3, ForgetMoves
<1>4. CASE heard' = heard
  BY <1>4
<1> QED BY <1>1, <1>2, <1>3, <1>4, TableMoves
----------------------------------------------------------------------------
(***************************************************************************)
(* Requests on the wire.                                                   *)
(***************************************************************************)
OnceInv == CoreInv /\ SentInv /\ WaitsForWritten

\* No two calls share a request, and what is under way was sent.
LEMMA SentStep ==
    OnceInv /\ CoreInv' /\ [Next]_vars => SentInv' /\ WaitsForWritten'
<1> SUFFICES ASSUME OnceInv, CoreInv', [Next]_vars PROVE SentInv' /\ WaitsForWritten'
  OBVIOUS
<1> USE Different
<1>0. /\ CoreInv /\ SentInv /\ WaitsForWritten /\ TypeInv /\ ControlInv /\ TypeInv' /\ ControlInv'
      /\ WriteInv
      /\ \A c \in Callers : CallerInv(c) /\ CallerInv(c)'
      /\ \A c \in Callers : call[c].request \in Nat /\ call'[c].request \in Nat
      /\ requests \in Nat /\ requests' \in Nat /\ requests <= requests'
  <2>1. /\ CoreInv /\ SentInv /\ WaitsForWritten /\ TypeInv /\ ControlInv /\ TypeInv' /\ ControlInv'
        /\ WriteInv
        /\ \A c \in Callers : CallerInv(c) /\ CallerInv(c)'
    BY DEF OnceInv, CoreInv, ControlInv
  <2>2. \A c \in Callers : call[c].request \in Nat /\ call'[c].request \in Nat
    BY <2>1 DEF TypeInv, RequestTypes, Call
  <2> QED BY <2>1, <2>2, CountMoves
<1>1. \A c \in Callers : Moved(c)
  BY <1>0, CallMoves
<1>2. \A c \in Callers : call[c].request <= requests
  BY <1>0 DEF CallerInv
<1>3. ASSUME NEW c \in Callers, call'[c].request # 0
      PROVE  \/ Same(c) /\ call[c].request # 0
             \/ /\ \E kind \in Awaiting : Begin(c, kind)
                /\ call'[c].request = requests + 1
                /\ \A d \in Callers \ {c} : call'[d].request <= requests
  <2>1. CASE Same(c)
    BY <1>3, <2>1 DEF Same
  <2>2. ASSUME NEW kind \in Awaiting, Begin(c, kind)
        PROVE  /\ call'[c].request = requests + 1
               /\ \A d \in Callers \ {c} : call'[d].request <= requests
    <3>1. call'[c] = [kind |-> kind, id |-> AllocatePacketID, request |-> requests + 1,
                      got |-> 0, result |-> "none"]
          /\ \A d \in Callers \ {c} : call'[d] = call[d]
      BY <1>0, <2>2, BeginMoves
    <3> QED BY <1>2, <3>1
  <2> QED BY <1>1, <1>3, <2>1, <2>2 DEF Moved
<1>4. \A c, d \in Callers : call'[c].request = call'[d].request /\ call'[c].request # 0 => c = d
  <2> SUFFICES ASSUME NEW c \in Callers, NEW d \in Callers,
                      call'[c].request = call'[d].request, call'[c].request # 0, c # d
               PROVE  FALSE
    OBVIOUS
  <2>1. Same(c) \/ (call'[c].request = requests + 1 /\ call'[d].request <= requests)
    BY <1>3
  <2>2. Same(d) \/ (call'[d].request = requests + 1 /\ call'[c].request <= requests)
    BY <1>3
  <2>3. Same(c) /\ Same(d)
    BY <1>0, <2>1, <2>2
  <2> QED BY <1>0, <2>3 DEF Same, SentInv
\* A packet of before the step.
<1>5. ASSUME NEW x \in On(out) \cup On(in), NEW c \in Callers,
             x.request = call'[c].request, x.request # 0
      PROVE  x.id = call'[c].id /\ pc'[c] \in {"wait", "forget"}
  <2>1. x.request <= requests
    BY <1>0 DEF SentInv
  <2>2. Same(c)
    BY <1>0, <1>3, <1>5, <2>1
  <2>3. x.id = call[c].id /\ pc[c] \in {"wait", "forget"}
    BY <1>0, <1>5, <2>2 DEF SentInv, Same
  <2>4. ~Forget(c)
    <3>1. ASSUME Forget(c) PROVE FALSE
      <4>1. call'[c] = NoCall
        BY <1>0, <3>1, ForgetMoves
      <4> QED BY <1>5, <4>1 DEF NoCall
    <3> QED BY <3>1
  <2> QED BY <1>1, <2>2, <2>3, <2>4 DEF Moved, Same
\* The packet of this step's write.
<1>6. ASSUME NEW p \in Procs, Send(p)
      PROVE  /\ buf.request <= requests
             /\ \A c \in Callers : buf.request = call'[c].request /\ buf.request # 0 =>
                   buf.id = call'[c].id /\ pc'[c] \in {"wait", "forget"}
  <2>1. pc[p] = "sending" /\ Written(p, TRUE)
    BY <1>6 DEF Send
  <2>2. /\ p \notin Callers => buf.type \notin Awaiting /\ buf.request = 0
        /\ p \in Callers => /\ buf.type = call[p].kind /\ buf.id = call[p].id
                            /\ buf.request = call[p].request
    BY <1>0, <2>1, SentPacket
  <2>3. /\ \A c \in Callers : call'[c].id = call[c].id /\ call'[c].request = call[c].request
        /\ p \in Callers /\ call[p].kind \in Awaiting => pc'[p] = "wait"
    BY <1>0, <2>1, WrittenMoves
  <2>4. buf.request <= requests
    BY <1>0, <1>2, <2>2
  <2>5. ASSUME NEW c \in Callers, buf.request = call'[c].request, buf.request # 0
        PROVE  buf.id = call'[c].id /\ pc'[c] \in {"wait", "forget"}
    <3>1. p \in Callers /\ call[p].request = call[c].request /\ call[c].request # 0
      BY <2>2, <2>3, <2>5
    <3>2. p = c
      BY <1>0, <3>1 DEF SentInv
    <3>3. call[p].kind \in Awaiting
      BY <1>0, <3>1 DEF CallerInv
    <3> QED BY <2>2, <2>3, <3>1, <3>2, <3>3
  <2> QED BY <2>4, <2>5
<1>7. ASSUME NEW x \in On(out') \cup On(in')
      PROVE  /\ x.request <= requests'
             /\ \A c \in Callers : x.request = call'[c].request /\ x.request # 0 =>
                   x.id = call'[c].id /\ pc'[c] \in {"wait", "forget"}
  <2>0. ASSUME NEW y \in On(out) \cup On(in) PROVE y.request <= requests /\ y.request \in Nat
    <3>1. y \in Packet
      BY <1>0, OnTypes DEF TypeInv, WireTypes
    <3> QED BY <1>0, <3>1 DEF SentInv, Packet
  <2>1. CASE x \in On(out) \cup On(in)
    <3>1. x.request <= requests'
      BY <1>0, <2>0, <2>1
    <3> QED BY <1>5, <2>1, <3>1
  <2>2. ASSUME NEW p \in Procs, Send(p), x = buf
        PROVE  x.request <= requests'
               /\ \A c \in Callers : x.request = call'[c].request /\ x.request # 0 =>
                     x.id = call'[c].id /\ pc'[c] \in {"wait", "forget"}
    <3>1. requests' = requests
      BY <2>2 DEF Send
    <3> QED BY <1>6, <2>2, <3>1
  <2>3. CASE x = Plain("received")
    BY <1>0, <2>3 DEF Plain
  <2>4. ASSUME NEW y \in On(out), NEW t \in Acks(y), y \in Packet, x = [y EXCEPT !.type = t]
        PROVE  x.request <= requests'
               /\ \A c \in Callers : x.request = call'[c].request /\ x.request # 0 =>
                     x.id = call'[c].id /\ pc'[c] \in {"wait", "forget"}
    <3>1. x.request = y.request /\ x.id = y.id
      BY <2>4 DEF Packet
    <3>2. y.request <= requests'
      BY <1>0, <2>0
    <3> QED BY <1>5, <3>1, <3>2
  <2> QED BY <1>0, <2>1, <2>2, <2>3, <2>4, WireMoves
<1>8. ASSUME NEW r \in heard'
      PROVE  /\ r <= requests'
             /\ \A c \in Callers : call'[c].request = r => pc'[c] \in {"wait", "forget"}
  <2>0. r # 0 /\ r \in Nat
    BY <1>0 DEF TypeInv, ReadTypes, Request
  <2>1. CASE r \in heard
    <3>1. r <= requests
      BY <1>0, <2>1 DEF SentInv
    <3>2. ASSUME NEW c \in Callers, call'[c].request = r PROVE pc'[c] \in {"wait", "forget"}
      <4>1. Same(c)
        BY <1>0, <1>3, <2>0, <3>1, <3>2
      <4>2. pc[c] \in {"wait", "forget"}
        BY <1>0, <2>1, <3>2, <4>1 DEF SentInv, Same
      <4>3. ~Forget(c)
        <5>1. ASSUME Forget(c) PROVE FALSE
          <6>1. call'[c] = NoCall
            BY <1>0, <5>1, ForgetMoves
          <6> QED BY <2>0, <3>2, <6>1 DEF NoCall
        <5> QED BY <5>1
      <4> QED BY <1>1, <4>2, <4>3 DEF Moved
    <3> QED BY <1>0, <2>0, <3>1, <3>2
  <2>2. ASSUME NEW x \in On(in), x.request = r
        PROVE  /\ r <= requests'
               /\ \A c \in Callers : call'[c].request = r => pc'[c] \in {"wait", "forget"}
    <3>1. x.request <= requests
      BY <1>0 DEF SentInv
    <3> QED BY <1>0, <1>5, <2>0, <2>2, <3>1
  <2> QED BY <1>0, <2>1, <2>2, HeardMoves
<1>9. SentInv'
  BY <1>4, <1>7, <1>8 DEF SentInv
<1>10. ASSUME NEW c \in Callers, pc'[c] = "wait" PROVE call'[c].request \in written'
  <2>1. CASE pc[c] = "wait"
    <3>1. call[c].kind \in Awaiting /\ call[c].request # 0 /\ call[c].request \in written
      BY <1>0, <2>1 DEF CallerInv, WaitsForWritten
    <3>2. ~Forget(c)
      BY <2>1 DEF Forget
    <3>3. Same(c)
      BY <1>1, <3>1, <3>2 DEF Moved
    <3>4. ASSUME NEW d \in Callers, Forget(d) PROVE call[c].request \in written'
      <4>1. d # c
        BY <3>2, <3>4
      <4>2. written' = written \ {call[d].request}
        BY <1>0, <3>4, ForgetMoves
      <4>3. call[d].request # call[c].request
        BY <1>0, <3>1, <4>1 DEF SentInv
      <4> QED BY <3>1, <4>2, <4>3
    <3>5. call[c].request \in written'
      BY <1>0, <3>1, <3>4, TableMoves
    <3> QED BY <3>3, <3>5 DEF Same
  <2>2. CASE Send(c)
    <3>1. pc[c] = "sending" /\ Written(c, TRUE) /\ written' = written \cup ({buf.request} \cap Live)
      BY <2>2 DEF Send
    <3>2. buf.request = call[c].request
      BY <1>0, <3>1, SentPacket
    <3>3. call'[c].request = call[c].request /\ call'[c].kind = call[c].kind
      BY <1>0, <3>1, WrittenMoves
    <3>4. call'[c].request # 0
      BY <1>0, <1>10 DEF CallerInv
    <3>5. call[c].request \in Live
      BY <3>3, <3>4 DEF Live
    <3> QED BY <3>1, <3>2, <3>3, <3>5
  <2> QED BY <1>1, <1>10, <2>1, <2>2 DEF Moved
<1> QED BY <1>9, <1>10 DEF WaitsForWritten

\* They hold throughout.
LEMMA OnceAlways ==
    Spec => []OnceInv
<1>1. Init => OnceInv
  <2> SUFFICES ASSUME Init PROVE OnceInv
    OBVIOUS
  <2>1. \A c \in Callers : call[c] = NoCall /\ pc[c] = "idle"
    BY Different DEF Init
  <2>2. On(out) = {} /\ On(in) = {} /\ heard = {}
    BY OnTypes DEF Init
  <2> QED BY <2>1, <2>2, CoreInit DEF OnceInv, SentInv, WaitsForWritten, NoCall
<1>2. OnceInv /\ CoreInv' /\ [Next]_vars => OnceInv'
  <2> SUFFICES ASSUME OnceInv, CoreInv', [Next]_vars PROVE OnceInv'
    OBVIOUS
  <2> QED BY SentStep DEF OnceInv
<1> QED BY <1>1, <1>2, CoreAlways, PTL DEF Spec

\* Whoever waits for an answer, his own request went out whole, although callers,
\* the read loop and the keep-alive loop share one buffer.
THEOREM WaitersWereWritten ==
    Spec => []WaitsForWritten
<1>1. OnceInv => WaitsForWritten
  BY DEF OnceInv
<1> QED BY <1>1, OnceAlways, PTL

----------------------------------------------------------------------------
(***************************************************************************)
(* Closing.                                                                *)
(***************************************************************************)
\* closeOnce has one closer for good, and what it says does not change.
LEMMA CloseMoves ==
    ASSUME CoreInv, [Next]_vars
    PROVE  \/ \E p \in Procs : CloseDone(p)
           \/ ReadFails
           \/ /\ UNCHANGED <<closer, done, readErr>>
              /\ pc'[ReadLoop] \in {"close", "closing"} => pc[ReadLoop] \in {"close", "closing"}
<1> USE Different
<1>0. TypeInv /\ ControlInv /\ LoopInv /\ pc \in [Procs -> Places]
  BY DEF CoreInv, TypeInv, ControlInv
<1>k. ASSUME UNCHANGED <<closer, done, readErr>>, pc'[ReadLoop] = pc[ReadLoop]
      PROVE  /\ UNCHANGED <<closer, done, readErr>>
             /\ pc'[ReadLoop] \in {"close", "closing"} => pc[ReadLoop] \in {"close", "closing"}
  BY <1>k
<1>1. CASE ConnectAccepted
  BY <1>0, <1>1 DEF ConnectAccepted
<1>2. CASE ConnectRefused
  BY <1>0, <1>2 DEF ConnectRefused
<1>3. ASSUME NEW c \in Callers,
             \/ \E kind \in Awaiting : Begin(c, kind)
             \/ BeginDisconnect(c) \/ BeginClose(c) \/ Calling(c)
      PROVE  UNCHANGED <<closer, done, readErr>> /\ pc'[ReadLoop] = pc[ReadLoop]
  BY <1>0, <1>3 DEF Begin, BeginDisconnect, BeginClose, Calling, Expect, Answered, TimesOut, SeesDone,
                    Finish, Forget, Return, Goto, closeVars
<1>4. ASSUME NEW p \in Procs, LockAndEncode(p)
      PROVE  /\ UNCHANGED <<closer, done, readErr>>
             /\ pc'[ReadLoop] \in {"close", "closing"} => pc[ReadLoop] \in {"close", "closing"}
  BY <1>0, <1>4 DEF LockAndEncode, Goto, closeVars
<1>5. ASSUME NEW p \in Procs, Writing(p)
      PROVE  /\ UNCHANGED <<closer, done, readErr>>
             /\ pc'[ReadLoop] \in {"close", "closing"} => pc[ReadLoop] \in {"close", "closing"}
  <2>1. PICK ok \in BOOLEAN : pc[p] = "sending" /\ Written(p, ok)
    BY <1>5 DEF Writing, Send, SendFails
  <2>2. (p = ReadLoop => pc'[p] = "read") /\ \A q \in Procs \ {p} : pc'[q] = pc[q]
    BY <1>0, <2>1, WrittenMoves
  <2> QED BY <1>5, <2>2 DEF Writing, Send, SendFails, closeVars
<1>6. ASSUME NEW p \in Procs, CloseConn(p) \/ CloseAgain(p)
      PROVE  /\ UNCHANGED <<closer, done, readErr>>
             /\ pc'[ReadLoop] \in {"close", "closing"} => pc[ReadLoop] \in {"close", "closing"}
  <2>1. pc[p] \in {"close", "closing"} /\ Closed(p) /\ UNCHANGED <<closer, done, readErr>>
    BY <1>6 DEF CloseConn, CloseAgain, closeVars
  <2>2. \A q \in Procs \ {p} : pc'[q] = pc[q]
    BY <1>0, <2>1, ClosedMoves
  <2> QED BY <2>1, <2>2
<1>7. CASE ReadPacket
  <2>1. PICK l \in {"lock", "deliver", "read"} : Goto(ReadLoop, l)
    <3> DEFINE channel == IF IsAck(Head(in)) THEN Waiter(Head(in).id) ELSE 0
    <3>1. Goto(ReadLoop, CASE Head(in).type = "received" -> "lock"
                           [] channel # 0 -> "deliver"
                           [] OTHER -> "read")
      BY <1>7 DEF ReadPacket
    <3> HIDE DEF channel
    <3> QED BY <3>1
  <2> QED BY <1>0, <1>7, <2>1 DEF ReadPacket, Goto, closeVars
<1>8. CASE Deliver
  BY <1>0, <1>8 DEF Deliver, Goto, closeVars
<1>9. CASE KeepAliveSeesDone
  BY <1>0, <1>9 DEF KeepAliveSeesDone, Goto, closeVars
<1>10. CASE BrokerReads \/ BrokerPublishes \/ BrokerHangsUp
  BY <1>10 DEF BrokerReads, BrokerPublishes, BrokerHangsUp, closeVars
<1>11. CASE UNCHANGED vars
  BY <1>11 DEF vars, closeVars
<1> QED BY <1>1, <1>2, <1>3, <1>4, <1>5, <1>6, <1>7, <1>8, <1>9, <1>10, <1>11
           DEF Next, Closing, Reading

\* The read loop says why before it closes.
LEMMA CloseStep ==
    CoreInv /\ CloseInv /\ CoreInv' /\ [Next]_vars => CloseInv'
<1> SUFFICES ASSUME CoreInv, CloseInv, CoreInv', [Next]_vars PROVE CloseInv'
  OBVIOUS
<1> USE Different
<1>0. /\ TypeInv /\ ControlInv /\ LoopInv /\ pc \in [Procs -> Places]
      /\ closer \in Procs \cup {NoOne}
  BY DEF CoreInv, TypeInv, ControlInv, CloseTypes
<1>1. \A c \in Callers : Moved(c)
  BY CallMoves
<1>2. ASSUME NEW c \in Callers, call'[c].result = "notConnected", closer' = closer
      PROVE  closer' \in Callers
  <2>1. CASE call[c].result = "notConnected"
    BY <1>2, <2>1 DEF CloseInv, ClosedByUs
  <2>2. CASE done /\ ~readErr
    <3>1. closer # NoOne /\ closer # KeepAlive /\ closer # ReadLoop
      BY <2>2 DEF CloseInv
    <3> QED BY <1>0, <1>2, <3>1 DEF Procs
  <2> QED BY <1>1, <1>2, <2>1, <2>2 DEF Moved
<1>3. ASSUME NEW p \in Procs, CloseDone(p) PROVE CloseInv'
  <2>1. /\ pc[p] = "close" /\ closer = NoOne /\ closer' = p /\ call' = call /\ readErr' = readErr
        /\ pc' = [pc EXCEPT ![p] = "closing"]
    BY <1>3 DEF CloseDone, Goto, requestVars
  <2>2. p # KeepAlive /\ p # NoOne
    BY <1>0, <2>1 DEF LoopInv
  <2>3. p = ReadLoop => readErr
    BY <2>1 DEF CloseInv
  <2>4. ClosedByUs'
    BY <2>1 DEF CloseInv, ClosedByUs
  <2>5. pc'[ReadLoop] \in {"close", "closing"} => pc[ReadLoop] \in {"close", "closing"}
    BY <1>0, <2>1
  <2> QED BY <2>1, <2>2, <2>3, <2>4, <2>5 DEF CloseInv
<1>4. CASE ReadFails
  <2>1. readErr' = TRUE /\ UNCHANGED <<closer, done>>
    BY <1>4 DEF ReadFails
  <2>2. ClosedByUs'
    BY <1>2, <2>1 DEF ClosedByUs
  <2> QED BY <2>1, <2>2 DEF CloseInv
<1>5. CASE /\ UNCHANGED <<closer, done, readErr>>
           /\ pc'[ReadLoop] \in {"close", "closing"} => pc[ReadLoop] \in {"close", "closing"}
  <2>1. ClosedByUs'
    BY <1>2, <1>5 DEF ClosedByUs
  <2> QED BY <1>5, <2>1 DEF CloseInv
<1> QED BY <1>3, <1>4, <1>5, CloseMoves

\* A waiting call is told ErrNotConnected only where a caller closed the client;
\* when the connection was lost, it is told so.
THEOREM NotConnectedIsOurs ==
    Spec => []ClosedByUs
<1>1. Init => CloseInv
  <2> SUFFICES ASSUME Init PROVE CloseInv
    OBVIOUS
  <2>1. \A c \in Callers : call[c].result = "none"
    BY DEF Init, NoCall
  <2> QED BY <2>1, Different DEF Init, CloseInv, ClosedByUs
<1>2. CoreInv /\ CloseInv /\ CoreInv' /\ [Next]_vars => CloseInv'
  BY CloseStep
<1>3. CloseInv => ClosedByUs
  BY DEF CloseInv
<1> QED BY <1>1, <1>2, <1>3, CoreAlways, PTL DEF Spec

----------------------------------------------------------------------------
(***************************************************************************)
(* The table of those who wait.                                            *)
(***************************************************************************)
TableInv == OnceInv /\ PendingInv /\ AckReachesWaiter

\* Forgetting a call takes its own traces and nobody else's.
LEMMA ForgetsOwn ==
    ASSUME OnceInv, NEW c \in Callers, NEW d \in Callers, Forget(d), c # d, call[c].request # 0
    PROVE  call[c].request # call[d].request
BY DEF OnceInv, SentInv

\* The table follows the calls.
LEMMA PendingStep ==
    TableInv /\ OnceInv' /\ [Next]_vars => PendingInv'
<1> SUFFICES ASSUME TableInv, OnceInv', [Next]_vars PROVE PendingInv'
  OBVIOUS
<1> USE Different
<1>0. /\ OnceInv /\ CoreInv /\ CoreInv' /\ PendingInv /\ TypeInv /\ ControlInv /\ TypeInv' /\ RequestTypes
      /\ \A c \in Callers : CallerInv(c) /\ CallerInv(c)'
      /\ \A c \in Callers : Moved(c)
      /\ pending \in [PacketID -> 0 .. MaxRequests] /\ answer \in [Request -> Packet]
  <2>1. /\ OnceInv /\ CoreInv /\ CoreInv' /\ PendingInv /\ TypeInv /\ ControlInv /\ TypeInv' /\ RequestTypes
        /\ \A c \in Callers : CallerInv(c) /\ CallerInv(c)'
        /\ pending \in [PacketID -> 0 .. MaxRequests] /\ answer \in [Request -> Packet]
    BY DEF TableInv, OnceInv, CoreInv, ControlInv, TypeInv, RequestTypes
  <2> QED BY <2>1, CallMoves
\* A forgotten call is gone.
<1>1. ASSUME NEW d \in Callers, Forget(d)
      PROVE  /\ call'[d] = NoCall /\ call[d].id \in PacketID
             /\ pending' = [pending EXCEPT ![call[d].id] = 0]
             /\ answer' = [answer EXCEPT ![call[d].request] = Empty]
             /\ sharing' = sharing \ {call[d].request}
  BY <1>0, <1>1, ForgetMoves
<1>2. ASSUME NEW c \in Callers, call'[c].request # 0 PROVE ~Forget(c)
  BY <1>1, <1>2 DEF NoCall
\* What is shared stays so.
<1>3. ASSUME NEW c \in Callers, Same(c), call[c].request # 0, call[c].request \in sharing
      PROVE  call[c].request \in sharing'
  <2>1. ~Forget(c)
    BY <1>2, <1>3 DEF Same
  <2>2. ASSUME NEW d \in Callers, Forget(d) PROVE call[c].request \in sharing'
    <3>1. c # d
      BY <2>1, <2>2
    <3> QED BY <1>0, <1>1, <1>3, <2>2, <3>1, ForgetsOwn
  <2> QED BY <1>0, <1>3, <2>2, TableMoves
<1>4. ASSUME NEW c \in Callers, NEW d \in Callers, c # d, call'[c].id = call'[d].id, call'[c].id # 0
      PROVE  call'[c].request \in sharing'
  <2>1. call'[c].request # 0 /\ call'[d].request # 0
    BY <1>0, <1>4 DEF CallerInv
  <2>2. CASE Same(c) /\ Same(d)
    <3>1. call[c].request \in sharing /\ call[c].request # 0
      BY <1>0, <1>4, <2>1, <2>2, ZenonT(60) DEF PendingInv, Same
    <3> QED BY <1>3, <2>2, <3>1 DEF Same
  <2>3. ASSUME NEW kind \in Awaiting, Begin(c, kind) PROVE call'[c].request \in sharing'
    <3>1. /\ call'[c] = [kind |-> kind, id |-> AllocatePacketID, request |-> requests + 1,
                         got |-> 0, result |-> "none"]
          /\ call'[d] = call[d]
          /\ call[d].id = AllocatePacketID => requests + 1 \in sharing'
      BY <1>0, <1>4, <2>3, BeginMoves
    <3> QED BY <1>4, <3>1
  <2>4. ASSUME NEW kind \in Awaiting, Begin(d, kind) PROVE call'[c].request \in sharing'
    <3>1. /\ call'[d] = [kind |-> kind, id |-> AllocatePacketID, request |-> requests + 1,
                         got |-> 0, result |-> "none"]
          /\ call'[c] = call[c]
          /\ call[c].id = AllocatePacketID => call[c].request \in sharing'
      BY <1>0, <1>4, <2>4, BeginMoves
    <3> QED BY <1>4, <3>1
  <2> QED BY <1>0, <2>1, <2>2, <2>3, <2>4 DEF Moved
\* The table after the step.
<1>5. ASSUME NEW d \in Callers, Expect(d)
      PROVE  /\ pending' = [pending EXCEPT ![call[d].id] = call[d].request]
             /\ call[d].id \in PacketID /\ call' = call /\ Registered(d)'
  <2>1. /\ pc[d] = "expect" /\ pending' = [pending EXCEPT ![call[d].id] = call[d].request]
        /\ pc' = [pc EXCEPT ![d] = "lock"] /\ call' = call
    BY <1>5 DEF Expect, Goto
  <2>2. call[d].kind \in Awaiting /\ call[d].id \in PacketID /\ pc'[d] = "lock"
    BY <1>0, <2>1 DEF CallerInv, TypeInv
  <2> QED BY <2>1, <2>2 DEF Registered
<1>6. ASSUME NEW i \in PacketID, pending'[i] # 0
      PROVE  \E c \in Callers : Registered(c)' /\ call'[c].id = i /\ call'[c].request = pending'[i]
  <2>1. ASSUME NEW d \in Callers, Expect(d), i = call[d].id
        PROVE  \E c \in Callers : Registered(c)' /\ call'[c].id = i /\ call'[c].request = pending'[i]
    <3>1. pending'[i] = call[d].request
      BY <1>0, <1>5, <2>1
    <3> QED BY <1>5, <2>1, <3>1
  <2>2. ASSUME pending'[i] = pending[i], \A d \in Callers : Forget(d) => call[d].id # i
        PROVE  \E c \in Callers : Registered(c)' /\ call'[c].id = i /\ call'[c].request = pending'[i]
    <3>1. PICK c \in Callers : Registered(c) /\ call[c].id = i /\ call[c].request = pending[i]
      BY <1>0, <1>6, <2>2 DEF PendingInv
    <3>2. Same(c) /\ Registered(c)'
      BY <1>0, <1>6, <2>2, <3>1 DEF Moved
    <3> QED BY <2>2, <3>1, <3>2 DEF Same
  <2>3. ASSUME NEW d \in Callers, Expect(d), i # call[d].id PROVE pending'[i] = pending[i]
    BY <1>0, <1>5, <2>3
  <2>4. ASSUME NEW d \in Callers, Forget(d) PROVE pending'[i] = pending[i] /\ call[d].id # i
    BY <1>0, <1>1, <1>6, <2>4
  <2>5. CASE \E d \in Callers : Forget(d)
    BY <2>2, <2>4, <2>5
  <2>6. CASE ~\E d \in Callers : Forget(d)
    BY <1>0, <2>1, <2>2, <2>3, <2>6, TableMoves
  <2> QED BY <2>5, <2>6
<1>7. ASSUME NEW c \in Callers, Registered(c)', call'[c].request \notin sharing'
      PROVE  pending'[call'[c].id] = call'[c].request
  <2>0. call'[c].id \in PacketID /\ call'[c].request # 0
    BY <1>0, <1>7 DEF Registered, CallerInv
  <2>1. CASE Expect(c)
    BY <1>0, <1>5, <2>1
  <2>2. CASE Registered(c)
    <3>1. ~Forget(c) /\ Same(c) /\ call[c].request # 0
      <4>1. ~Forget(c)
        BY <1>2, <2>0
      <4>2. call[c].request # 0
        BY <1>0, <2>2 DEF Registered, CallerInv
      <4> QED BY <1>0, <4>1, <4>2 DEF Moved
    <3>2. call[c].request \notin sharing
      BY <1>3, <1>7, <3>1 DEF Same
    <3>3. pending[call[c].id] = call[c].request
      BY <1>0, <2>2, <3>2 DEF PendingInv
    <3>4. ASSUME NEW d \in Callers, c # d, call[d].id = call[c].id PROVE FALSE
      BY <1>0, <2>0, <3>1, <3>2, <3>4 DEF PendingInv, Same, PacketID
    <3>5. ASSUME NEW d \in Callers, Expect(d), d # c PROVE pending'[call[c].id] = pending[call[c].id]
      BY <1>0, <1>5, <2>0, <3>1, <3>4, <3>5 DEF Same
    <3>6. ASSUME NEW d \in Callers, Forget(d) PROVE pending'[call[c].id] = pending[call[c].id]
      <4>1. d # c
        BY <3>1, <3>6
      <4> QED BY <1>0, <1>1, <2>0, <3>1, <3>4, <3>6, <4>1 DEF Same
    <3>7. pending'[call[c].id] = pending[call[c].id] \/ Expect(c)
      BY <1>0, <3>5, <3>6, TableMoves
    <3> QED BY <2>1, <3>1, <3>3, <3>7 DEF Same
  <2> QED BY <1>0, <1>7, <2>1, <2>2 DEF Moved
<1>8. ASSUME NEW r \in Request, answer'[r] # Empty PROVE r \in Live'
  <2>0. r # 0
    BY DEF Request
  <2>1. ASSUME answer[r] # Empty, \A d \in Callers : Forget(d) => call[d].request # r PROVE r \in Live'
    <3>1. PICK c \in Callers : call[c].request = r
      BY <1>0, <2>1, LiveTypes DEF PendingInv
    <3>2. Same(c)
      BY <1>0, <2>0, <2>1, <3>1 DEF Moved
    <3> QED BY <2>0, <3>1, <3>2 DEF Same, Live
  <2>2. ASSUME NEW d \in Callers, Forget(d) PROVE answer[r] # Empty /\ call[d].request # r
    BY <1>0, <1>1, <1>8, <2>2
  <2>3. CASE Deliver
    <3>1. /\ call' = call
          /\ answer' = IF answer[inHand.channel] = Empty /\ inHand.channel \in Live
                       THEN [answer EXCEPT ![inHand.channel] = inHand.ack] ELSE answer
      BY <2>3 DEF Deliver
    <3>2. \A d \in Callers : ~Forget(d)
      <4>1. ASSUME NEW d \in Callers, Forget(d) PROVE FALSE
        <5>1. call'[d] = NoCall /\ call[d].kind \in Awaiting
          BY <1>0, <1>1, <4>1, ForgetMoves
        <5> QED BY <3>1, <5>1 DEF NoCall, Awaiting
      <4> QED BY <4>1
    <3>3. CASE r = inHand.channel /\ inHand.channel \in Live
      BY <3>1, <3>3 DEF Live
    <3>4. CASE ~(r = inHand.channel /\ inHand.channel \in Live)
      <4>1. answer'[r] = answer[r]
        BY <1>0, <3>1, <3>4
      <4> QED BY <1>8, <2>1, <3>2, <4>1
    <3> QED BY <3>3, <3>4
  <2>4. CASE ReadPacket
    <3>1. answer' = answer /\ call' = call
      BY <2>4 DEF ReadPacket, requestVars
    <3> QED BY <1>0, <1>8, <3>1, LiveTypes DEF PendingInv, Live
  <2>5. CASE \E d \in Callers : Forget(d)
    BY <2>1, <2>2, <2>5
  <2>6. CASE answer' = answer /\ ~\E d \in Callers : Forget(d)
    BY <1>8, <2>1, <2>6
  <2> QED BY <1>0, <2>3, <2>4, <2>5, <2>6, TableMoves
<1> QED BY <1>4, <1>6, <1>7, <1>8 DEF PendingInv

\* An acknowledgement that was read reaches the call it is for.
LEMMA AckStep ==
    TableInv /\ OnceInv' /\ [Next]_vars => AckReachesWaiter'
<1> SUFFICES ASSUME TableInv, OnceInv', [Next]_vars,
                    NEW c \in Callers, pc'[c] = "wait", call'[c].request \in heard',
                    call'[c].request \notin sharing'
             PROVE  \/ answer'[call'[c].request] # Empty
                    \/ pc'[ReadLoop] = "deliver" /\ inHand'.channel = call'[c].request
  BY DEF AckReachesWaiter
<1> USE Different
<1>0. /\ OnceInv /\ CoreInv /\ CoreInv' /\ PendingInv /\ TypeInv /\ ControlInv /\ TypeInv' /\ RequestTypes
      /\ CallerInv(c) /\ CallerInv(c)' /\ LoopInv /\ WireInv /\ SentInv
      /\ pc \in [Procs -> Places] /\ answer \in [Request -> Packet] /\ AckReachesWaiter
  BY DEF TableInv, OnceInv, CoreInv, ControlInv, TypeInv, RequestTypes
<1>1. Moved(c)
  BY <1>0, CallMoves
<1> DEFINE r == call[c].request
<1>2. r = call'[c].request /\ Same(c) /\ ~Forget(c) /\ call'[c].request # 0
  <2>1. call'[c].request # 0
    BY <1>0 DEF CallerInv
  <2>2. pc[c] = "wait" \/ Send(c)
    BY <1>1 DEF Moved
  <2>3. pc[c] \in {"wait", "sending"}
    BY <2>2 DEF Send
  <2>4. ~Forget(c) /\ ~\E kind \in Awaiting : Begin(c, kind)
    BY <2>3 DEF Forget, Begin
  <2> QED BY <1>1, <2>1, <2>4 DEF Moved, Same
<1>3. r \in Request
  BY <1>0, <1>2 DEF CallerInv, TypeInv, RequestTypes, Request
<1>4. pc[c] = "wait"
  <2>1. ASSUME Send(c) PROVE FALSE
    <3>1. heard' = heard /\ pc[c] = "sending"
      BY <2>1 DEF Send, readVars
    <3>2. r \in heard
      BY <1>2, <3>1
    <3> QED BY <1>0, <3>1, <3>2 DEF SentInv
  <2> QED BY <1>1, <2>1 DEF Moved
<1>5. ASSUME NEW d \in Callers, Forget(d)
      PROVE  /\ c # d /\ heard' \subseteq heard /\ sharing' = sharing \ {call[d].request}
             /\ answer' = [answer EXCEPT ![call[d].request] = Empty] /\ call[d].request # r
             /\ inHand' = inHand /\ pc'[ReadLoop] = pc[ReadLoop]
  <2>1. c # d
    BY <1>2, <1>5
  <2>2. call[d].request # r
    BY <1>0, <1>2, <1>5, <2>1, ForgetsOwn
  <2>3. /\ heard' = heard \ {call[d].request} /\ sharing' = sharing \ {call[d].request}
        /\ answer' = [answer EXCEPT ![call[d].request] = Empty]
        /\ \A q \in Procs \ {d} : pc'[q] = pc[q]
    BY <1>0, <1>5, ForgetMoves
  <2>4. inHand' = inHand
    BY <1>5 DEF Forget
  <2> QED BY <2>1, <2>2, <2>3, <2>4
<1>6. r \notin sharing
  <2>1. CASE \E d \in Callers : Forget(d)
    BY <1>2, <1>5, <2>1
  <2>2. CASE sharing \subseteq sharing'
    BY <1>2, <2>2
  <2> QED BY <1>0, <2>1, <2>2, TableMoves
<1>7. ASSUME r \in heard
      PROVE  answer[r] # Empty \/ (pc[ReadLoop] = "deliver" /\ inHand.channel = r)
  BY <1>0, <1>4, <1>6, <1>7 DEF AckReachesWaiter
<1> HIDE DEF r
<1>8. ASSUME NEW d \in Callers, Forget(d)
      PROVE  answer'[r] # Empty \/ (pc'[ReadLoop] = "deliver" /\ inHand'.channel = r)
  <2>1. r \in heard
    BY <1>2, <1>5, <1>8
  <2> QED BY <1>0, <1>3, <1>5, <1>7, <1>8, <2>1
<1>9. CASE ReadPacket
  <2> DEFINE p == Head(in)
             channel == IF IsAck(p) THEN Waiter(p.id) ELSE 0
  <2>1. /\ in # <<>> /\ pc[ReadLoop] = "read"
        /\ heard' = heard \cup ({p.request} \cap Live)
        /\ inHand' = IF channel # 0 THEN [channel |-> channel, ack |-> p] ELSE inHand
        /\ Goto(ReadLoop, CASE p.type = "received" -> "lock"
                            [] channel # 0 -> "deliver"
                            [] OTHER -> "read")
        /\ answer' = answer
    BY <1>9 DEF ReadPacket, requestVars
  <2>2. CASE r \in heard
    BY <1>2, <1>7, <2>1, <2>2
  <2>3. CASE r = p.request
    <3>1. p \in On(in)
      BY <1>0, <2>1, OnTail DEF TypeInv, WireTypes
    <3>2. IsAck(p) /\ p.type # "received"
      BY <1>0, <1>2, <2>3, <3>1 DEF WireInv, IsAck, AckTypes
    <3>3. p.id = call[c].id
      BY <1>0, <1>2, <2>3, <3>1 DEF SentInv, r
    <3>4. pending[call[c].id] = r
      BY <1>0, <1>4, <1>6 DEF PendingInv, Registered, CallerInv, r
    <3>5. channel = r /\ channel # 0
      BY <1>2, <3>2, <3>3, <3>4 DEF Waiter
    <3> HIDE DEF p, channel
    <3>6. inHand'.channel = r
      BY <2>1, <3>5
    <3>7. Goto(ReadLoop, "deliver")
      BY <2>1, <3>2, <3>5
    <3> QED BY <1>0, <1>2, <3>6, <3>7 DEF Goto
  <2>4. r \in heard \/ r = p.request
    BY <1>2, <2>1
  <2> QED BY <1>2, <2>2, <2>3, <2>4
<1>10. CASE Deliver
  <2>1. /\ pc[ReadLoop] = "deliver" /\ heard' = heard
        /\ answer' = IF answer[inHand.channel] = Empty /\ inHand.channel \in Live
                     THEN [answer EXCEPT ![inHand.channel] = inHand.ack] ELSE answer
    BY <1>10 DEF Deliver
  <2>2. inHand.ack # Empty
    BY <1>0, <2>1 DEF LoopInv, IsAck, AckTypes, Empty
  <2>3. r \in Live
    BY <1>0, <1>2, LiveTypes DEF r
  <2>4. answer[r] # Empty => answer'[r] # Empty
    BY <1>0, <1>3, <2>1, <2>2
  <2>5. inHand.channel = r /\ answer[r] = Empty => answer'[r] # Empty
    BY <1>0, <1>3, <2>1, <2>2, <2>3
  <2> QED BY <1>2, <1>7, <2>1, <2>4, <2>5
<1>11. CASE /\ UNCHANGED <<heard, answer, inHand>>
            /\ pc[ReadLoop] = "deliver" => pc'[ReadLoop] = "deliver"
  BY <1>2, <1>7, <1>11
<1> QED BY <1>0, <1>2, <1>8, <1>9, <1>10, <1>11, TableMoves

\* They hold throughout.
LEMMA TableAlways ==
    Spec => []TableInv
<1>1. Init => TableInv
  <2> SUFFICES ASSUME Init PROVE TableInv
    OBVIOUS
  <2>1. \A c \in Callers : call[c] = NoCall /\ pc[c] = "idle"
    BY Different DEF Init
  <2>2. OnceInv
    <3>1. On(out) = {} /\ On(in) = {} /\ heard = {}
      BY OnTypes DEF Init
    <3> QED BY <2>1, <3>1, CoreInit DEF OnceInv, SentInv, WaitsForWritten, NoCall
  <2>3. PendingInv
    BY <2>1 DEF Init, PendingInv, Registered, NoCall
  <2>4. AckReachesWaiter
    BY <2>1 DEF AckReachesWaiter
  <2> QED BY <2>2, <2>3, <2>4 DEF TableInv
<1>2. TableInv /\ OnceInv' /\ [Next]_vars => TableInv'
  <2> SUFFICES ASSUME TableInv, OnceInv', [Next]_vars PROVE TableInv'
    OBVIOUS
  <2> QED BY PendingStep, AckStep DEF TableInv
<1> QED BY <1>1, <1>2, OnceAlways, PTL DEF Spec

\* No acknowledgement is lost between the wire and the call that waits for it,
\* whatever other calls come, go or time out, unless one of them has the same
\* identifier at the same time.
THEOREM AcksReachWaiters ==
    Spec => []AckReachesWaiter
<1>1. TableInv => AckReachesWaiter
  BY DEF TableInv
<1> QED BY <1>1, TableAlways, PTL

----------------------------------------------------------------------------
(***************************************************************************)
(* Whose acknowledgement it is.                                            *)
(***************************************************************************)
\* A multiple of the range of identifiers is zero or at least that large.
LEMMA Multiple ==
    ASSUME NEW z \in Int, NEW d \in Int, d = z * MaxPacketID
    PROVE  d = 0 \/ d >= MaxPacketID \/ -d >= MaxPacketID
<1>0. MaxPacketID \in Int /\ MaxPacketID > 0
  OBVIOUS
<1>1. \A x, m \in Int : x >= 1 /\ m > 0 => x * m >= m
  OBVIOUS
<1>2. \A x, m \in Int : x <= -1 /\ m > 0 => x * m <= -m
  OBVIOUS
<1>3. CASE z >= 1
  BY <1>0, <1>1, <1>3
<1>4. CASE z <= -1
  <2>1. d <= -MaxPacketID
    BY <1>0, <1>2, <1>4
  <2> QED BY <1>0, <2>1
<1>5. CASE z = 0
  BY <1>0, <1>5
<1> QED BY <1>3, <1>4, <1>5

\* Two requests that were given the same identifier are whole rounds apart.
LEMMA SameIdentifier ==
    ASSUME RequestTypes, NEW i \in 0 .. MaxPacketID,
           NEW r \in 0 .. MaxRequests, NEW s \in 0 .. MaxRequests,
           Numbered(i, r), Numbered(i, s)
    PROVE  s = r \/ RoundApart(s, r)
<1>0. requests \in Int /\ cursor \in Int /\ i \in Int /\ r \in Int /\ s \in Int /\ MaxPacketID \in Int
  BY DEF RequestTypes
<1>1. PICK y \in Int : i + (requests - r) - cursor = y * MaxPacketID
  BY DEF Numbered, Rounds
<1>2. PICK z \in Int : i + (requests - s) - cursor = z * MaxPacketID
  BY DEF Numbered, Rounds
<1>3. \A a, b, m \in Int : (a - b) * m = a * m - b * m
  OBVIOUS
<1>4. (y - z) * MaxPacketID = y * MaxPacketID - z * MaxPacketID
  BY <1>0, <1>3
<1>5. y * MaxPacketID \in Int /\ z * MaxPacketID \in Int
  BY <1>0
<1>6. s - r = (y - z) * MaxPacketID
  BY <1>0, <1>1, <1>2, <1>4, <1>5
<1>7. y - z \in Int /\ s - r \in Int
  BY <1>0
<1>8. s - r = 0 \/ s - r >= MaxPacketID \/ -(s - r) >= MaxPacketID
  BY <1>6, <1>7, Multiple
<1> QED BY <1>0, <1>8 DEF RoundApart

\* Only a new request and a new connection move the counter of identifiers.
LEMMA CursorMoves ==
    ASSUME CoreInv, [Next]_vars
    PROVE  \/ ConnectAccepted \/ ConnectRefused
           \/ \E c \in Callers, kind \in Awaiting : Begin(c, kind)
           \/ cursor' = cursor /\ requests' = requests
<1>1. ASSUME NEW c \in Callers, BeginDisconnect(c) \/ BeginClose(c) \/ Calling(c)
      PROVE  cursor' = cursor /\ requests' = requests
  BY <1>1 DEF BeginDisconnect, BeginClose, Calling, Expect, Answered, TimesOut, SeesDone, Finish, Forget
<1>2. ASSUME NEW p \in Procs, LockAndEncode(p) \/ Writing(p) \/ Closing(p)
      PROVE  cursor' = cursor /\ requests' = requests
  BY <1>2 DEF LockAndEncode, Writing, Send, SendFails, Closing, CloseDone, CloseConn, CloseAgain,
              requestVars
<1>3. CASE Reading \/ KeepAliveSeesDone
  BY <1>3 DEF Reading, ReadPacket, Deliver, ReadFails, KeepAliveSeesDone, requestVars
<1>4. CASE BrokerReads \/ BrokerPublishes \/ BrokerHangsUp
  BY <1>4 DEF BrokerReads, BrokerPublishes, BrokerHangsUp, requestVars
<1>5. CASE UNCHANGED vars
  BY <1>5 DEF vars, requestVars
<1> QED BY <1>1, <1>2, <1>3, <1>4, <1>5 DEF Next

\* What was numbered stays so while the connection lasts.
LEMMA NumberedKept ==
    ASSUME CoreInv, [Next]_vars, ~ConnectAccepted, ~ConnectRefused,
           NEW i \in 0 .. MaxPacketID, NEW r \in 0 .. MaxRequests, Numbered(i, r)
    PROVE  Numbered(i, r)'
<1>0. /\ requests \in Int /\ cursor \in 0 .. MaxPacketID /\ i \in Int /\ r \in Int
      /\ MaxPacketID \in Int /\ TypeInv /\ ControlInv
  BY DEF CoreInv, TypeInv, RequestTypes
<1>1. PICK z \in Int : i + (requests - r) - cursor = z * MaxPacketID
  BY DEF Numbered, Rounds
<1>2. ASSUME NEW c \in Callers, NEW kind \in Awaiting, Begin(c, kind)
      PROVE  Numbered(i, r)'
  <2>1. cursor' = AllocatePacketID /\ requests' = requests + 1
    BY <1>0, <1>2, BeginMoves
  <2>2. cursor' = IF cursor = MaxPacketID THEN 1 ELSE cursor + 1
    BY <1>0, <2>1, Allocated
  <2>3. CASE cursor # MaxPacketID
    <3>1. i + (requests' - r) - cursor' = z * MaxPacketID
      BY <1>0, <1>1, <2>1, <2>2, <2>3
    <3> QED BY <3>1 DEF Numbered, Rounds
  <2>4. CASE cursor = MaxPacketID
    <3>1. \A a, m \in Int : (a + 1) * m = a * m + m
      OBVIOUS
    <3>2. (z + 1) * MaxPacketID = z * MaxPacketID + MaxPacketID /\ z * MaxPacketID \in Int
      BY <1>0, <3>1
    <3>3. i + (requests' - r) - cursor' = z * MaxPacketID + MaxPacketID
      BY <1>0, <1>1, <2>1, <2>2, <2>4, <3>2
    <3>4. i + (requests' - r) - cursor' = (z + 1) * MaxPacketID /\ z + 1 \in Int
      BY <3>2, <3>3
    <3> QED BY <3>4 DEF Numbered, Rounds
  <2> QED BY <2>3, <2>4
<1>3. CASE cursor' = cursor /\ requests' = requests
  BY <1>3 DEF Numbered, Rounds
<1> QED BY <1>2, <1>3, CursorMoves

\* A new connection starts the identifiers anew, with no call in progress and
\* nothing under way that carries an old one.
LEMMA ConnectNumbers ==
    ASSUME TableInv, ConnectAccepted \/ ConnectRefused
    PROVE  NumberInv' /\ call' = call
<1>1. /\ Connectable /\ call' = call /\ answer' = answer /\ inHand' = inHand /\ out' = out /\ in' = in
  BY DEF ConnectAccepted, ConnectRefused, wireVars, readVars
<1>2. /\ LoopInv /\ RequestTypes /\ PendingInv /\ \A c \in Callers : CallerInv(c)
  BY DEF TableInv, OnceInv, CoreInv, ControlInv, TypeInv
<1>3. \A c \in Callers : call[c].request = 0
  BY <1>1, <1>2 DEF Connectable, CallerInv, Awaiting
<1>4. On(out) = {} /\ On(in) = {} /\ inHand.channel = 0
  BY <1>1, <1>2, OnTypes DEF Connectable, LoopInv
<1>5. \A r \in Request : answer[r] = Empty
  BY <1>2, <1>3, LiveTypes DEF PendingInv
<1>6. On(out') = {} /\ On(in') = {}
  BY <1>1, <1>4
<1> QED BY <1>1, <1>3, <1>4, <1>5, <1>6 DEF NumberInv, On

\* Every call, packet and answer carries the identifier its request was given.
LEMMA NumberStep ==
    TableInv /\ NumberInv /\ TableInv' /\ [Next]_vars => NumberInv'
<1> SUFFICES ASSUME TableInv, NumberInv, TableInv', [Next]_vars,
                    ~ConnectAccepted, ~ConnectRefused
             PROVE  NumberInv'
  BY ConnectNumbers
<1> USE Different
<1> DEFINE Then(i, r) == Rounds(i, r, requests', cursor')
<1>0. /\ OnceInv /\ CoreInv /\ CoreInv' /\ PendingInv /\ TypeInv /\ ControlInv /\ WriteInv /\ WireInv
      /\ RequestTypes /\ LoopInv /\ ReadTypes
      /\ \A c \in Callers : CallerInv(c)
      /\ pending \in [PacketID -> 0 .. MaxRequests] /\ answer \in [Request -> Packet]
      /\ out \in Seq(Packet) /\ in \in Seq(Packet) /\ call \in [Callers -> Call]
      /\ requests \in Nat /\ cursor \in 0 .. MaxPacketID
  <2>1. /\ OnceInv /\ CoreInv /\ CoreInv' /\ PendingInv
    BY DEF TableInv, OnceInv
  <2>2. /\ TypeInv /\ ControlInv /\ WriteInv /\ WireInv /\ RequestTypes /\ LoopInv /\ ReadTypes
        /\ WireTypes /\ \A c \in Callers : CallerInv(c)
    BY <2>1 DEF CoreInv, ControlInv, TypeInv
  <2> QED BY <2>1, <2>2 DEF RequestTypes, WireTypes
<1>1. \A c \in Callers : Moved(c)
  BY <1>0, CallMoves
<1>2. \A i \in 0 .. MaxPacketID, r \in 0 .. MaxRequests : Numbered(i, r) => Then(i, r)
  BY <1>0, NumberedKept DEF Numbered
<1>3. \A p \in Packet : p.id \in 0 .. MaxPacketID /\ p.request \in 0 .. MaxRequests
  BY DEF Packet
<1>4. On(out) \subseteq Packet /\ On(in) \subseteq Packet
  BY <1>0, OnTypes
<1>5. \A c \in Callers : call[c].id \in 0 .. MaxPacketID /\ call[c].request \in 0 .. MaxRequests
  BY <1>0 DEF Call
<1>6. ASSUME NEW c \in Callers, call'[c].request # 0
      PROVE  Then(call'[c].id, call'[c].request) 
  <2>1. CASE Same(c)
    <3>1. call'[c].id = call[c].id /\ call'[c].request = call[c].request
      BY <2>1 DEF Same
    <3>2. Numbered(call[c].id, call[c].request)
      BY <1>6, <3>1 DEF NumberInv
    <3>3. PICK i \in 0 .. MaxPacketID, r \in 0 .. MaxRequests : i = call[c].id /\ r = call[c].request
      BY <1>5
    <3>4. Then(i, r)
      BY <1>2, <3>2, <3>3
    <3> QED BY <3>1, <3>3, <3>4
  <2>2. ASSUME NEW kind \in Awaiting, Begin(c, kind)
        PROVE  Then(call'[c].id, call'[c].request)
    <3>1. /\ cursor' = AllocatePacketID /\ AllocatePacketID \in PacketID /\ requests' = requests + 1
          /\ call'[c] = [kind |-> kind, id |-> AllocatePacketID, request |-> requests + 1,
                         got |-> 0, result |-> "none"]
      BY <1>0, <2>2, BeginMoves
    <3>2. call'[c].id = cursor' /\ call'[c].request = requests' /\ cursor' \in Int /\ requests' \in Int
      BY <1>0, <3>1 DEF PacketID
    <3>3. \A k, n, m \in Int : k + (n - n) - k = 0 * m
      OBVIOUS
    <3>4. PICK k \in Int, n \in Int : k = cursor' /\ n = requests'
      BY <3>2
    <3>5. Rounds(k, n, n, k)
      BY <3>3 DEF Rounds
    <3> QED BY <3>2, <3>4, <3>5
  <2> QED BY <1>1, <1>6, <2>1, <2>2 DEF Moved
<1>7. ASSUME NEW p \in On(out'), p.type \in Awaiting
      PROVE  Then(p.id, p.request)
  <2>1. CASE p \in On(out)
    BY <1>2, <1>3, <1>4, <1>7, <2>1 DEF NumberInv
  <2>2. CASE p \notin On(out)
    <3>1. PICK q \in Procs : Send(q) /\ p = buf
      BY <1>0, <1>7, <2>2, WireMoves
    <3>2. pc[q] = "sending"
      BY <3>1 DEF Send
    <3>3. q \in Callers /\ p.type = call[q].kind /\ p.id = call[q].id /\ p.request = call[q].request
      BY <1>0, <1>7, <3>1, <3>2, SentPacket
    <3>4. call[q].request # 0
      BY <1>0, <1>7, <3>3 DEF CallerInv
    <3>5. Numbered(p.id, p.request)
      BY <3>3, <3>4 DEF NumberInv
    <3> QED BY <1>2, <1>5, <3>3, <3>5
  <2> QED BY <2>1, <2>2
<1>8. ASSUME NEW x \in On(in'), IsAck(x)
      PROVE  Then(x.id, x.request)
  <2>1. CASE x \in On(in)
    BY <1>2, <1>3, <1>4, <1>8, <2>1 DEF NumberInv
  <2>2. CASE x = Plain("received")
    BY <1>8, <2>2 DEF IsAck, AckTypes, Plain
  <2>3. ASSUME NEW y \in On(out), NEW t \in Acks(y), x = [y EXCEPT !.type = t], y \in Packet
        PROVE  Then(x.id, x.request)
    <3>1. y.type \in Awaiting
      BY <2>3 DEF Acks, Awaiting
    <3>2. x.id = y.id /\ x.request = y.request
      BY <2>3 DEF Packet
    <3>3. Numbered(y.id, y.request)
      BY <3>1 DEF NumberInv
    <3> QED BY <1>2, <1>3, <2>3, <3>2, <3>3
  <2> QED BY <1>0, <1>8, <2>1, <2>2, <2>3, WireMoves
<1>9. ASSUME inHand'.channel # 0
      PROVE  /\ Then(inHand'.ack.id, inHand'.channel)
             /\ Then(inHand'.ack.id, inHand'.ack.request)
  <2>1. CASE inHand' = inHand
    <3>1. /\ Numbered(inHand.ack.id, inHand.channel) /\ Numbered(inHand.ack.id, inHand.ack.request)
      BY <1>9, <2>1 DEF NumberInv
    <3>2. inHand.channel \in 0 .. MaxRequests /\ inHand.ack \in Packet
      BY <1>0 DEF ReadTypes
    <3> QED BY <1>2, <1>3, <2>1, <3>1, <3>2
  <2>2. CASE ReadPacket
    <3>1. PICK p : p = Head(in)
      OBVIOUS
    <3>2. /\ in # <<>>
          /\ inHand' = inHand \/ (IsAck(p) /\ Waiter(p.id) # 0
                                  /\ inHand' = [channel |-> Waiter(p.id), ack |-> p])
      BY <2>2, <3>1 DEF ReadPacket
    <3>3. p \in On(in)
      BY <1>0, <3>1, <3>2, OnTail
    <3>4. CASE IsAck(p) /\ Waiter(p.id) # 0 /\ inHand' = [channel |-> Waiter(p.id), ack |-> p]
      <4>1. p.id \in PacketID
        BY <1>0, <3>3, <3>4 DEF WireInv
      <4>2. PICK c \in Callers : call[c].id = p.id /\ call[c].request = pending[p.id]
        BY <1>0, <3>4, <4>1 DEF PendingInv, Waiter
      <4>3. inHand'.channel = call[c].request /\ inHand'.ack = p
        BY <3>4, <4>2 DEF Waiter
      <4>4. Numbered(p.id, call[c].request)
        BY <1>9, <4>2, <4>3 DEF NumberInv
      <4>5. Numbered(p.id, p.request)
        BY <3>3, <3>4 DEF NumberInv
      <4>6. PICK r \in 0 .. MaxRequests : r = call[c].request
        BY <1>5
      <4>7. Then(p.id, r) /\ Then(p.id, p.request)
        BY <1>2, <1>3, <1>4, <3>3, <4>4, <4>5, <4>6
      <4> QED BY <4>3, <4>6, <4>7
    <3> QED BY <2>1, <3>2, <3>4
  <2>3. CASE Deliver
    BY <1>9, <2>3 DEF Deliver
  <2>4. CASE \E d \in Callers : Forget(d)
    BY <2>1, <2>4 DEF Forget
  <2> QED BY <1>0, <2>1, <2>2, <2>3, <2>4, TableMoves
<1>10. ASSUME NEW r \in Request, answer'[r] # Empty
       PROVE  /\ Then(answer'[r].id, r)
              /\ Then(answer'[r].id, answer'[r].request)
  <2>1. PICK s \in 0 .. MaxRequests : s = r
    BY DEF Request
  <2>2. CASE answer'[r] = answer[r]
    <3>1. Numbered(answer[r].id, r) /\ Numbered(answer[r].id, answer[r].request)
      BY <1>10, <2>2 DEF NumberInv
    <3>2. answer[r] \in Packet
      BY <1>0
    <3> QED BY <1>2, <1>3, <2>1, <2>2, <3>1, <3>2
  <2>3. CASE Deliver
    <3>1. /\ pc[ReadLoop] = "deliver"
          /\ answer' = IF answer[inHand.channel] = Empty /\ inHand.channel \in Live
                       THEN [answer EXCEPT ![inHand.channel] = inHand.ack] ELSE answer
      BY <2>3 DEF Deliver
    <3>2. answer'[r] = answer[r] \/ (inHand.channel = r /\ answer'[r] = inHand.ack)
      BY <1>0, <3>1
    <3>3. CASE inHand.channel = r /\ answer'[r] = inHand.ack
      <4>1. inHand.channel # 0 /\ inHand.ack \in Packet
        BY <1>0, <3>3 DEF Request, ReadTypes
      <4>2. Numbered(inHand.ack.id, r) /\ Numbered(inHand.ack.id, inHand.ack.request)
        BY <3>3, <4>1 DEF NumberInv
      <4> QED BY <1>2, <1>3, <2>1, <3>3, <4>1, <4>2
    <3> QED BY <2>2, <3>2, <3>3
  <2>4. CASE ReadPacket
    BY <2>2, <2>4 DEF ReadPacket, requestVars
  <2>5. ASSUME NEW d \in Callers, Forget(d)
        PROVE  answer'[r] = answer[r]
    <3>1. answer' = [answer EXCEPT ![call[d].request] = Empty]
      BY <1>0, <2>5, ForgetMoves
    <3> QED BY <1>0, <1>10, <3>1
  <2> QED BY <1>0, <2>2, <2>3, <2>4, <2>5, TableMoves
<1> QED
  <2>1. \A c \in Callers : call'[c].request # 0 => Then(call'[c].id, call'[c].request)
    BY <1>6
  <2> QED BY <1>7, <1>8, <1>9, <1>10, <2>1 DEF NumberInv, Numbered, On

\* A call takes what its channel holds, and that came under its identifier.
LEMMA RightStep ==
    TableInv /\ NumberInv /\ RightAck /\ TableInv' /\ [Next]_vars => RightAck'
<1> SUFFICES ASSUME TableInv, NumberInv, RightAck, TableInv', [Next]_vars,
                    NEW c \in Callers, call'[c].result = "ok"
             PROVE  call'[c].got = call'[c].request \/ RoundApart(call'[c].got, call'[c].request)
  BY DEF RightAck, RoundApart
<1>0. CoreInv /\ CoreInv' /\ TypeInv /\ ControlInv /\ RequestTypes /\ CallerInv(c)
  BY DEF TableInv, OnceInv, CoreInv, ControlInv, TypeInv
<1>1. Moved(c)
  BY <1>0, CallMoves
<1>2. CASE call[c].result = "ok" /\ call'[c].got = call[c].got /\ call'[c].request = call[c].request
  BY <1>2 DEF RightAck
<1>3. CASE Answered(c)
  <2>1. PICK r \in Request : r = call[c].request
    BY <1>0, <1>3 DEF Answered, CallerInv, RequestTypes, Request
  <2>2. PICK ack \in Packet : ack = answer[r]
    BY <1>0 DEF RequestTypes
  <2>3. ack # Empty /\ \E v \in Verdicts(call[c].kind, ack) : Finish(c, ack.request, v)
    BY <1>3, <2>1, <2>2 DEF Answered
  <2>4. PICK v \in Verdicts(call[c].kind, ack) : Finish(c, ack.request, v)
    BY <2>3
  <2>5. v \in Results /\ ack.request \in 0 .. MaxRequests /\ ack.id \in 0 .. MaxPacketID
        /\ r \in 0 .. MaxRequests
    BY <2>4 DEF Verdicts, Results, Packet, Request
  <2>6. call'[c].got = ack.request /\ call'[c].request = r
    BY <1>0, <2>1, <2>4, <2>5, FinishMoves
  <2>7. Numbered(ack.id, r) /\ Numbered(ack.id, ack.request)
    BY <2>2, <2>3 DEF NumberInv
  <2>8. PICK i \in 0 .. MaxPacketID, s \in 0 .. MaxRequests : i = ack.id /\ s = ack.request
    BY <2>5
  <2>9. s = r \/ RoundApart(s, r)
    BY <1>0, <2>5, <2>7, <2>8, SameIdentifier
  <2> QED BY <2>6, <2>8, <2>9
<1> QED BY <1>1, <1>2, <1>3 DEF Moved

\* A call that succeeds was acknowledged for its own request: a late answer to
\* another one reaches it only if identifiers have gone all the way round.
THEOREM SuccessIsOwn ==
    Spec => []RightAck
<1>1. Init => NumberInv /\ RightAck
  <2> SUFFICES ASSUME Init PROVE NumberInv /\ RightAck
    OBVIOUS
  <2>1. \A c \in Callers : call[c] = NoCall
    BY DEF Init
  <2>2. On(out) = {} /\ On(in) = {}
    BY OnTypes DEF Init
  <2> QED BY <2>1, <2>2 DEF Init, NumberInv, RightAck, NoCall
<1>2. TableInv /\ NumberInv /\ RightAck /\ TableInv' /\ [Next]_vars => NumberInv' /\ RightAck'
  BY NumberStep, RightStep
<1> QED BY <1>1, <1>2, TableAlways, PTL DEF Spec
============================================================================
