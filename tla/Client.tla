------------------------------- MODULE Client -------------------------------
(***************************************************************************)
(* The client library (pkg/client/client.go): goroutines that publish,     *)
(* subscribe and unsubscribe over one connection, the read loop that hands *)
(* each acknowledgement to the call waiting for it, the keep-alive loop,   *)
(* and closing from any of them.                                           *)
(*                                                                         *)
(* A request is the n-th identifier handed out. The program knows it only  *)
(* by its packet identifier, which recurs every MaxPacketID requests; the  *)
(* model keeps the number beside it, to say whose acknowledgement is whose. *)
(***************************************************************************)
EXTENDS Integers, Sequences

CONSTANTS
    Callers,         \* goroutines using the client
    ReadLoop,        \* the goroutine of readLoop
    KeepAlive,       \* the goroutine of keepAliveLoop
    NoOne,
    Uses,            \* caller -> the kinds of call it makes
    MaxPacketID,     \* 65535 in the code
    MaxRequests,     \* bound: identifiers handed out
    MaxInbound,      \* bound: PUBLISH packets the broker sends
    SendBuffer       \* packets the socket takes before a write blocks

\* Publish at QoS 1 and Unsubscribe take the same steps: both are "await", and
\* packet.Ack is the answer to either.
Awaiting == {"await", "subscribe"}
Kinds    == Awaiting \cup {"disconnect", "close"}

ASSUME ClientAssumption ==
    /\ ReadLoop # KeepAlive /\ NoOne \notin {ReadLoop, KeepAlive}
    /\ {ReadLoop, KeepAlive, NoOne} \cap Callers = {}
    /\ Uses \in [Callers -> SUBSET Kinds]
    /\ MaxPacketID \in Nat \ {0} /\ SendBuffer \in Nat \ {0}
    /\ MaxRequests \in Nat /\ MaxInbound \in Nat

VARIABLES
    conn,        \* Client.conn: none, open or closed at this end
    hungUp,      \* the broker's end is closed
    cursor,      \* nextPacketID, its low 16 bits
    requests,    \* how many identifiers were handed out
    pending,     \* Client.pending: identifier -> the request waiting, or 0
    answer,      \* request -> what its channel holds
    pc,          \* goroutine -> where it is
    call,        \* caller -> the call it is making
    inHand,      \* the acknowledgement deliver has and the channel it found
    writeMu,     \* who holds Client.writeMu
    buf,         \* Writer.buf: the packet encoded last
    out, in,     \* packets under way to and from the broker
    inbound,     \* how many PUBLISH packets the broker sent
    closer,      \* who runs, or ran, the body of closeOnce
    done,        \* Client.done is closed
    readErr,     \* Client.readErr is set
    written,     \* history: requests that went onto the wire whole
    sharing,     \* history: requests in progress beside one of the same identifier
    heard        \* history: requests whose acknowledgement was read

requestVars == <<cursor, requests, pending, answer, call, sharing>>
wireVars    == <<out, in, inbound, hungUp>>
writeVars   == <<writeMu, buf, written>>
closeVars   == <<conn, closer, done, readErr>>
readVars    == <<inHand, heard>>
vars == <<requestVars, wireVars, writeVars, closeVars, readVars, pc>>

PacketID  == 1 .. MaxPacketID
Request   == 1 .. MaxRequests
Procs     == Callers \cup {ReadLoop, KeepAlive}
AckTypes  == {"ack", "suback"}

Packet    == [type : Awaiting \cup AckTypes \cup
                     {"ping", "puback", "disconnect", "received", "empty"},
              id : 0 .. MaxPacketID, request : 0 .. MaxRequests]
Empty     == [type |-> "empty", id |-> 0, request |-> 0]
Plain(t)  == [type |-> t, id |-> 0, request |-> 0]
NoCall    == [kind |-> "none", id |-> 0, request |-> 0, got |-> 0, result |-> "none"]

TypeOK ==
    /\ conn \in {"none", "open", "closed"} /\ hungUp \in BOOLEAN
    /\ cursor \in 0 .. MaxPacketID /\ requests \in 0 .. MaxRequests
    /\ pending \in [PacketID -> 0 .. MaxRequests]
    /\ answer \in [Request -> Packet]
    /\ pc \in [Procs -> {"off", "idle", "expect", "lock", "sending", "wait", "forget",
                         "read", "deliver", "tick", "close", "closing", "ended"}]
    /\ \A c \in Callers :
         /\ call[c].kind \in Kinds \cup {"none"}
         /\ call[c].kind \in Awaiting => call[c].id \in PacketID
         /\ call[c].result \in {"none", "ok", "failed", "malformed", "refused",
                                "timeout", "readErr", "notConnected"}
    /\ inHand \in [channel : 0 .. MaxRequests, ack : Packet]
    /\ writeMu \in Procs \cup {NoOne} /\ buf \in Packet
    /\ Len(out) <= SendBuffer /\ \A i \in DOMAIN out : out[i] \in Packet
    /\ \A i \in DOMAIN in : in[i] \in Packet
    /\ inbound \in 0 .. MaxInbound
    /\ closer \in Procs \cup {NoOne} /\ done \in BOOLEAN /\ readErr \in BOOLEAN
    /\ {written, heard, sharing} \subseteq SUBSET Request

Init ==
    /\ conn = "none" /\ hungUp = FALSE
    /\ cursor = 0 /\ requests = 0
    /\ pending = [i \in PacketID |-> 0] /\ answer = [r \in Request |-> Empty]
    /\ pc = [p \in Procs |-> IF p \in Callers THEN "idle" ELSE "off"]
    /\ call = [c \in Callers |-> NoCall]
    /\ inHand = [channel |-> 0, ack |-> Empty]
    /\ writeMu = NoOne /\ buf = Empty
    /\ out = <<>> /\ in = <<>> /\ inbound = 0
    /\ closer = NoOne /\ done = FALSE /\ readErr = FALSE
    /\ written = {} /\ heard = {} /\ sharing = {}

Goto(p, l) == pc' = [pc EXCEPT ![p] = l]

\* Requests whose call has not returned. The histories and the channels of the
\* others are of no use to anyone and are not kept.
Live == {call[c].request : c \in Callers} \ {0}
----------------------------------------------------------------------------
(***************************************************************************)
(* Connect. The handshake runs before the read loop exists and carries     *)
(* nothing but itself, so it is one step for each outcome. A dial that     *)
(* fails changes nothing. Connect belongs to a client that has not been    *)
(* closed and is not yet in use. It asks for a keep-alive, so that both    *)
(* goroutines run.                                                         *)
(***************************************************************************)
Connectable ==
    /\ pc[ReadLoop] = "off" /\ ~done
    /\ \A c \in Callers : pc[c] = "idle"

ConnectAccepted ==
    /\ Connectable
    /\ conn' = "open" /\ cursor' = 0
    /\ pc' = [pc EXCEPT ![ReadLoop] = "read", ![KeepAlive] = "tick"]
    /\ UNCHANGED <<requests, pending, answer, call, sharing, wireVars, writeVars, readVars,
                   closer, done, readErr>>

\* A refusal, a failed write or read, or an unexpected packet closes the new
\* socket, but Client.conn keeps it.
ConnectRefused ==
    /\ Connectable
    /\ conn' = "closed" /\ cursor' = 0
    /\ UNCHANGED <<requests, pending, answer, call, sharing, wireVars, writeVars, readVars,
                   closer, done, readErr, pc>>
----------------------------------------------------------------------------
(***************************************************************************)
(* A call. Before the first Connect every request is refused at once with  *)
(* ErrNotConnected and nothing changes.                                    *)
(***************************************************************************)
\* Mutant: the identifier wraps to zero.
AllocateFromZero == (cursor + 1) % (MaxPacketID + 1)

\* Add and truncate to uint16; zero is passed over.
AllocatePacketID ==
    LET next == (cursor + 1) % (MaxPacketID + 1)
    IN  IF next = 0 THEN 1 ELSE next

Begin(c, kind) ==
    /\ pc[c] = "idle" /\ conn # "none" /\ requests < MaxRequests
    /\ kind \in Uses[c]
    /\ cursor' = AllocatePacketID /\ requests' = requests + 1
    /\ call' = [call EXCEPT ![c] = [kind |-> kind, id |-> AllocatePacketID,
                                    request |-> requests + 1, got |-> 0, result |-> "none"]]
    /\ LET twins == {call[d].request : d \in {d \in Callers : call[d].id = AllocatePacketID}}
       IN  sharing' = IF twins = {} THEN sharing ELSE sharing \cup twins \cup {requests + 1}
    /\ Goto(c, "expect")
    /\ UNCHANGED <<pending, answer, wireVars, writeVars, closeVars, readVars>>

\* A new channel takes the place of whatever waited under this identifier.
Expect(c) ==
    /\ pc[c] = "expect"
    /\ pending' = [pending EXCEPT ![call[c].id] = call[c].request]
    /\ Goto(c, "lock")
    /\ UNCHANGED <<cursor, requests, sharing, answer, call, wireVars, writeVars, closeVars, readVars>>

\* Disconnect writes, and closes whether that worked or not. (Publish at QoS 0
\* and Ping write too and do nothing else, as the keep-alive loop does below.)
BeginDisconnect(c) ==
    /\ pc[c] = "idle" /\ conn # "none" /\ "disconnect" \in Uses[c]
    /\ call' = [call EXCEPT ![c].kind = "disconnect"]
    /\ Goto(c, "lock")
    /\ UNCHANGED <<cursor, requests, sharing, pending, answer, wireVars, writeVars, closeVars, readVars>>

\* Close may come at any time; Disconnect before Connect does nothing.
BeginClose(c) ==
    /\ pc[c] = "idle" /\ "close" \in Uses[c]
    /\ call' = [call EXCEPT ![c].kind = "close"]
    /\ Goto(c, "close")
    /\ UNCHANGED <<cursor, requests, sharing, pending, answer, wireVars, writeVars, closeVars, readVars>>
----------------------------------------------------------------------------
(***************************************************************************)
(* write: callers, the read loop (PUBACK) and the keep-alive loop (PINGREQ)*)
(* share one Writer and its buffer.                                        *)
(***************************************************************************)
PacketOf(p) ==
    CASE p = ReadLoop  -> Plain("puback")
      [] p = KeepAlive -> Plain("ping")
      [] OTHER -> [type |-> call[p].kind, id |-> call[p].id, request |-> call[p].request]

\* Mutant: writeMu is not taken.
UnlockedEncode(p) ==
    /\ pc[p] \in {"lock", "tick"}
    /\ writeMu' = p /\ buf' = PacketOf(p)
    /\ Goto(p, "sending")
    /\ UNCHANGED <<written, requestVars, wireVars, closeVars, readVars>>

\* The ticker of the keep-alive loop may fire at any time.
LockAndEncode(p) ==
    /\ pc[p] \in {"lock", "tick"} /\ writeMu = NoOne
    /\ writeMu' = p /\ buf' = PacketOf(p)
    /\ Goto(p, "sending")
    /\ UNCHANGED <<written, requestVars, wireVars, closeVars, readVars>>

\* What the goroutine does once WritePacket has returned.
Written(p, ok) ==
    CASE p = ReadLoop  -> Goto(p, "read") /\ UNCHANGED call
      [] p = KeepAlive -> Goto(p, IF ok THEN "tick" ELSE "ended") /\ UNCHANGED call
      [] p \in Callers /\ call[p].kind = "disconnect" -> Goto(p, "close") /\ UNCHANGED call
      [] OTHER ->
            /\ Goto(p, IF ok THEN "wait" ELSE "forget")
            /\ call' = IF ok THEN call ELSE [call EXCEPT ![p].result = "failed"]

\* The socket takes the packet. A broker that has hung up never sees it.
Send(p) ==
    /\ pc[p] = "sending" /\ conn = "open" /\ Len(out) < SendBuffer
    /\ out' = IF hungUp THEN out ELSE Append(out, buf)
    /\ written' = written \cup ({buf.request} \cap Live)
    /\ writeMu' = NoOne /\ buf' = Empty
    /\ Written(p, TRUE)
    /\ UNCHANGED <<cursor, requests, sharing, pending, answer, in, inbound, hungUp, closeVars, readVars>>

SendFails(p) ==
    /\ pc[p] = "sending" /\ (conn = "closed" \/ hungUp)
    /\ writeMu' = NoOne /\ buf' = Empty
    /\ Written(p, FALSE)
    /\ UNCHANGED <<cursor, requests, sharing, pending, answer, written, wireVars, closeVars, readVars>>
----------------------------------------------------------------------------
(***************************************************************************)
(* Waiting: select over the channel, the timer and done. With several      *)
(* ready, any may be taken.                                                *)
(***************************************************************************)
Finish(c, got, result) ==
    /\ call' = [call EXCEPT ![c].got = got, ![c].result = result]
    /\ Goto(c, "forget")
    /\ UNCHANGED <<cursor, requests, sharing, pending, answer, wireVars, writeVars, closeVars, readVars>>

\* Publish and Unsubscribe take any acknowledgement; Subscribe wants a SUBACK,
\* and in it a granted QoS.
Verdicts(kind, ack) ==
    CASE kind # "subscribe"  -> {"ok"}
      [] ack.type = "suback" -> {"ok", "refused"}
      [] OTHER -> {"malformed"}

Answered(c) ==
    /\ pc[c] = "wait"
    /\ LET ack == answer[call[c].request]
       IN  /\ ack # Empty
           /\ \E v \in Verdicts(call[c].kind, ack) : Finish(c, ack.request, v)

TimesOut(c) == pc[c] = "wait" /\ Finish(c, 0, "timeout")

\* closedError
SeesDone(c) ==
    /\ pc[c] = "wait" /\ done
    /\ Finish(c, 0, IF readErr THEN "readErr" ELSE "notConnected")

Return(c) ==
    LET r == call[c].request
    IN  /\ call' = [call EXCEPT ![c] = NoCall]
        /\ Goto(c, "idle")
        /\ answer' = [answer EXCEPT ![r] = Empty]
        /\ written' = written \ {r} /\ heard' = heard \ {r} /\ sharing' = sharing \ {r}

\* Mutant: forgetting one call empties the table.
ForgetAll(c) ==
    /\ pc[c] = "forget"
    /\ pending' = [i \in PacketID |-> 0]
    /\ Return(c)
    /\ UNCHANGED <<cursor, requests, wireVars, writeMu, buf, closeVars, inHand>>

\* The deferred forget deletes by identifier, whoever waits there by now.
Forget(c) ==
    /\ pc[c] = "forget"
    /\ pending' = [pending EXCEPT ![call[c].id] = 0]
    /\ Return(c)
    /\ UNCHANGED <<cursor, requests, wireVars, writeMu, buf, closeVars, inHand>>
----------------------------------------------------------------------------
(***************************************************************************)
(* The read loop.                                                          *)
(***************************************************************************)
IsAck(p) == p.type \in AckTypes

\* Mutant: one channel serves every call.
AnyWaiter(id) ==
    IF \E i \in PacketID : pending[i] # 0
    THEN pending[CHOOSE i \in PacketID : pending[i] # 0] ELSE 0

\* deliver: the lookup under pendingMu.
Waiter(id) == pending[id]

\* A PUBLISH has been through OnMessage before its PUBACK is written. An
\* acknowledgement nobody waits for is dropped.
ReadPacket ==
    /\ pc[ReadLoop] = "read" /\ in # <<>>
    /\ LET p == Head(in)
           channel == IF IsAck(p) THEN Waiter(p.id) ELSE 0
       IN  /\ in' = Tail(in)
           /\ heard' = heard \cup ({p.request} \cap Live)
           /\ inHand' = IF channel # 0 THEN [channel |-> channel, ack |-> p] ELSE inHand
           /\ Goto(ReadLoop, CASE p.type = "received" -> "lock"
                               [] channel # 0 -> "deliver"
                               [] OTHER -> "read")
    /\ UNCHANGED <<requestVars, out, inbound, hungUp, writeVars, closeVars>>

\* deliver: the send, after the unlock. A full channel discards.
Deliver ==
    /\ pc[ReadLoop] = "deliver"
    /\ answer' = IF answer[inHand.channel] = Empty /\ inHand.channel \in Live
                 THEN [answer EXCEPT ![inHand.channel] = inHand.ack] ELSE answer
    /\ inHand' = [channel |-> 0, ack |-> Empty]
    /\ Goto(ReadLoop, "read")
    /\ UNCHANGED <<cursor, requests, sharing, pending, call, heard, wireVars, writeVars, closeVars>>

\* Mutant: the loop closes the client without saying why.
ReadFailsSilently ==
    /\ pc[ReadLoop] = "read" /\ (conn = "closed" \/ hungUp)
    /\ Goto(ReadLoop, "close")
    /\ UNCHANGED <<conn, closer, done, readErr, requestVars, wireVars, writeVars, readVars>>

\* What the reader has buffered may still be read, or not.
ReadFails ==
    /\ pc[ReadLoop] = "read" /\ (conn = "closed" \/ hungUp)
    /\ readErr' = TRUE
    /\ Goto(ReadLoop, "close")
    /\ UNCHANGED <<conn, closer, done, requestVars, wireVars, writeVars, readVars>>
----------------------------------------------------------------------------
(***************************************************************************)
(* The keep-alive loop and closing.                                        *)
(***************************************************************************)
KeepAliveSeesDone ==
    /\ pc[KeepAlive] = "tick" /\ done
    /\ Goto(KeepAlive, "ended")
    /\ UNCHANGED <<requestVars, wireVars, writeVars, closeVars, readVars>>

Closed(p) ==
    /\ Goto(p, IF p = ReadLoop THEN "ended" ELSE "idle")
    /\ call' = IF p = ReadLoop THEN call ELSE [call EXCEPT ![p] = NoCall]

\* close(done) comes first; the socket is closed after it.
CloseDone(p) ==
    /\ pc[p] = "close" /\ closer = NoOne
    /\ closer' = p /\ done' = TRUE
    /\ Goto(p, "closing")
    /\ UNCHANGED <<conn, readErr, requestVars, wireVars, writeVars, readVars>>

CloseConn(p) ==
    /\ pc[p] = "closing"
    /\ conn' = IF conn = "open" THEN "closed" ELSE conn
    /\ out' = <<>>          \* what the broker makes of it no longer matters
    /\ Closed(p)
    /\ UNCHANGED <<cursor, requests, sharing, pending, answer, closer, done, readErr,
                   in, inbound, hungUp, writeVars, readVars>>

\* Once.Do returns when the first call of it has finished.
CloseAgain(p) ==
    /\ pc[p] = "close" /\ closer # NoOne /\ pc[closer] # "closing"
    /\ Closed(p)
    /\ UNCHANGED <<cursor, requests, sharing, pending, answer, closeVars, wireVars, writeVars, readVars>>
----------------------------------------------------------------------------
(***************************************************************************)
(* The broker, as the client sees it. It reads and answers in order, and   *)
(* may leave a request unanswered, the case ErrTimeout is for. What the    *)
(* read loop ignores, PINGRESP and QoS 0 messages (OnMessage apart), is    *)
(* left out.                                                               *)
(***************************************************************************)
Acks(p) ==
    CASE p.type = "await"     -> {"ack"}
      [] p.type = "subscribe" -> {"suback"}
      [] OTHER -> {}

BrokerReads ==
    /\ conn = "open" /\ ~hungUp /\ out # <<>>
    /\ LET p == Head(out)
       IN  /\ out' = Tail(out)
           /\ hungUp' = (p.type = "disconnect")
           /\ \/ \E t \in Acks(p) : in' = Append(in, [p EXCEPT !.type = t])
              \/ in' = in
    /\ UNCHANGED <<inbound, requestVars, writeVars, closeVars, readVars, pc>>

\* At QoS 1, to be acknowledged.
BrokerPublishes ==
    /\ conn = "open" /\ ~hungUp /\ inbound < MaxInbound
    /\ inbound' = inbound + 1
    /\ in' = Append(in, Plain("received"))
    /\ UNCHANGED <<out, hungUp, requestVars, writeVars, closeVars, readVars, pc>>

BrokerHangsUp ==
    /\ conn = "open" /\ ~hungUp
    /\ hungUp' = TRUE /\ out' = <<>>
    /\ UNCHANGED <<in, inbound, requestVars, writeVars, closeVars, readVars, pc>>
----------------------------------------------------------------------------
\* The steps of a call once it has begun, its deadline included.
Calling(c) ==
    \/ Expect(c) \/ Answered(c) \/ TimesOut(c) \/ SeesDone(c) \/ Forget(c)

Writing(p) == Send(p) \/ SendFails(p)

Closing(p) == CloseDone(p) \/ CloseConn(p) \/ CloseAgain(p)

Reading == ReadPacket \/ Deliver \/ ReadFails

Next ==
    \/ ConnectAccepted \/ ConnectRefused
    \/ \E c \in Callers :
         \/ \E kind \in Awaiting : Begin(c, kind)
         \/ BeginDisconnect(c) \/ BeginClose(c)
         \/ Calling(c)
    \/ \E p \in Procs : LockAndEncode(p) \/ Writing(p) \/ Closing(p)
    \/ Reading \/ KeepAliveSeesDone
    \/ BrokerReads \/ BrokerPublishes \/ BrokerHangsUp

Spec == Init /\ [][Next]_vars
----------------------------------------------------------------------------
(***************************************************************************)
(* Properties.                                                             *)
(***************************************************************************)
\* Whole rounds of the identifiers lie between the two requests.
RoundApart(r, s) == r - s >= MaxPacketID \/ s - r >= MaxPacketID

\* A call that reports success was acknowledged for its own request. The
\* acknowledgement of another request ("a slow PUBACK", client.go:103-105) can
\* reach it only if the identifiers have come full circle in between.
RightAck ==
    \A c \in Callers :
      call[c].result = "ok" =>
        call[c].got = call[c].request \/ RoundApart(call[c].got, call[c].request)

\* A call whose acknowledgement the read loop has taken off the wire is not
\* left waiting: registration precedes the write, and other calls coming,
\* going or timing out do not disturb it, unless one of them held the same
\* identifier at the same time.
AckReachesWaiter ==
    \A c \in Callers :
      pc[c] = "wait" /\ call[c].request \in heard \ sharing =>
        \/ answer[call[c].request] # Empty
        \/ pc[ReadLoop] = "deliver" /\ inHand.channel = call[c].request

\* A call waits only for a request that went onto the wire whole, although
\* three kinds of goroutine share one Writer and its buffer (stream.go:166-176).
WaitsForWritten == \A c \in Callers : pc[c] = "wait" => call[c].request \in written

\* ErrNotConnected, on a connection that was made, means it was closed at this
\* end: when the read loop closes it, the reason is stored before done is
\* closed, so no waiting call can miss it.
ClosedByUs ==
    \A c \in Callers : call[c].result = "notConnected" => closer \in Callers
============================================================================
