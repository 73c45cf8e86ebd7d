-------------------------- MODULE ConnectionProofs --------------------------
(***************************************************************************)
(* Theorems about Connection, for any keep-alives, timeout and queue size. *)
(***************************************************************************)
EXTENDS Connection, FiniteSetTheorems, FunctionTheorems, TLAPS

USE ConnectionAssumption
    DEF ConnectionAssumption, closeVars, clientVars, timeVars, peerVars, writeVars
----------------------------------------------------------------------------
(***************************************************************************)
(* The inductive invariant.                                                *)
(***************************************************************************)
Early == {"await", "connect"}                          \* no CONNECT accepted
Greeting == {"connack", "connackEncoded", "install"}

\* Where the goroutines are and what they have in their hands.
ControlInv ==
    /\ inHand # "none" <=> writer \in {"writing", "drainWriting"}
    /\ writer \in {"draining", "drainWriting", "closing", "gone"} => Closed
    /\ reader \in Early => ~registered /\ keepAlive = 0
    /\ reader = "install" => registered

InHandAnswers == IF inHand = "answer" THEN 1 ELSE 0

\* Nothing is ever answered twice, and while the connection is open nothing
\* that was promised is missing.
OwingInv ==
    /\ owing >= Count(outbound, "answer") + InHandAnswers
    /\ ~Closed => owing = Count(outbound, "answer") + InHandAnswers

\* What the timers say about the ages they bound.
TimerInv ==
    /\ Handling => deadline = NoTimer
    /\ reader = "await" /\ ConnectTimeout > 0 =>
          IF Closed THEN waited = 0
          ELSE deadline \in Nat /\ deadline + waited = ConnectTimeout
    /\ reader = "read" =>
          IF Closed THEN waited = 0
          ELSE IF keepAlive = 0 THEN deadline = NoTimer
          ELSE deadline \in Nat /\ deadline + waited = Timeout
    /\ reader \in Early \cup Greeting => ticker = NoTimer
    /\ ticker # NoTimer => keepAlive # 0 /\ overdue + ticker <= Interval
    /\ overdue > 0 => ticker # NoTimer /\ idle > Timeout

\* Unless a packet is unread, the client has been silent for as long as the
\* broker has waited, or for longer than matters.
SilenceInv ==
    keepAlive # 0 /\ inbox = <<>> =>
        /\ silence >= idle \/ silence > Timeout
        /\ reader = "read" => silence >= waited

TypeInv == TypeOK /\ ControlInv /\ OwingInv /\ TimerInv

Inv == TypeInv /\ SilenceInv
----------------------------------------------------------------------------
(***************************************************************************)
(* Counting in a queue.                                                    *)
(***************************************************************************)
Positions(s, x) == {i \in 1..Len(s) : s[i] = x}

\* Positions can be counted.
LEMMA PositionsFinite ==
    ASSUME NEW s \in Seq(Out), NEW x
    PROVE  /\ IsFiniteSet(Positions(s, x))
           /\ Count(s, x) = Cardinality(Positions(s, x)) /\ Count(s, x) \in Nat
<1>1. IsFiniteSet(1..Len(s))
  BY FS_Interval
<1>2. IsFiniteSet(Positions(s, x))
  BY <1>1, FS_Subset DEF Positions
<1>3. Count(s, x) = Cardinality(Positions(s, x))
  BY DEF Count, Positions
<1> QED BY <1>2, <1>3, FS_CardinalityType

\* Nothing is in an empty queue.
LEMMA CountEmpty == \A x : Count(<<>>, x) = 0
<1> SUFFICES ASSUME NEW x PROVE Count(<<>>, x) = 0
  OBVIOUS
<1>1. Positions(<<>>, x) = {}
  BY DEF Positions
<1>2. Count(<<>>, x) = Cardinality(Positions(<<>>, x))
  BY DEF Count, Positions
<1> QED BY <1>1, <1>2, FS_EmptySet

\* Putting a packet into the queue.
LEMMA CountAppend ==
    ASSUME NEW s \in Seq(Out), NEW e \in Out, NEW x
    PROVE  Count(Append(s, e), x) = Count(s, x) + IF e = x THEN 1 ELSE 0
<1> DEFINE t == Append(s, e)
           n == Len(s) + 1
<1>1. /\ t \in Seq(Out) /\ Len(t) = n /\ t[n] = e
      /\ \A i \in 1..Len(s) : t[i] = s[i]
  OBVIOUS
<1> HIDE DEF t
<1>2. CASE e = x
  <2>1. Positions(t, x) = Positions(s, x) \cup {n} /\ n \notin Positions(s, x)
    BY <1>1, <1>2 DEF Positions
  <2>2. Cardinality(Positions(t, x)) = Cardinality(Positions(s, x)) + 1
    BY <2>1, PositionsFinite, FS_AddElement
  <2> QED BY <1>1, <1>2, <2>2, PositionsFinite DEF t
<1>3. CASE e # x
  <2>1. Positions(t, x) = Positions(s, x)
    BY <1>1, <1>3 DEF Positions
  <2>2. Count(t, x) = Count(s, x) /\ Count(s, x) \in Nat
    BY <1>1, <2>1, PositionsFinite
  <2> QED BY <1>3, <2>2 DEF t
<1> QED BY <1>2, <1>3

\* Taking one out: the others move up by one.
LEMMA CountTail ==
    ASSUME NEW s \in Seq(Out), s # <<>>, NEW x
    PROVE  Count(Tail(s), x) = Count(s, x) - IF Head(s) = x THEN 1 ELSE 0
<1> DEFINE t == Tail(s)
           rest == Positions(s, x) \ {1}
           f == [i \in rest |-> i - 1]
<1>1. /\ t \in Seq(Out) /\ Len(t) = Len(s) - 1 /\ Len(s) \in Nat \ {0}
      /\ Head(s) = s[1] /\ \A i \in 1..Len(t) : t[i] = s[i + 1]
  OBVIOUS
<1>2. f \in Bijection(rest, Positions(t, x))
  <2>1. f \in [rest -> Positions(t, x)]
    BY <1>1 DEF Positions
  <2>2. \A i, j \in rest : f[i] = f[j] => i = j
    BY <1>1 DEF Positions
  <2>3. \A k \in Positions(t, x) : \E i \in rest : f[i] = k
    <3> SUFFICES ASSUME NEW k \in Positions(t, x) PROVE k + 1 \in rest /\ f[k + 1] = k
      OBVIOUS
    <3> QED BY <1>1 DEF Positions
  <2> QED BY <2>1, <2>2, <2>3, Fun_IsBij
<1>3. IsFiniteSet(Positions(s, x)) /\ Cardinality(Positions(s, x)) \in Nat
  BY PositionsFinite, FS_CardinalityType
<1>4. /\ IsFiniteSet(rest)
      /\ Cardinality(rest) = Cardinality(Positions(s, x)) - IF s[1] = x THEN 1 ELSE 0
  <2>1. 1 \in Positions(s, x) <=> s[1] = x
    BY <1>1 DEF Positions
  <2> QED BY <1>3, <2>1, FS_RemoveElement
<1>5. Cardinality(Positions(t, x)) = Cardinality(rest)
  BY <1>2, <1>4, FS_Bijection, Fun_ExistsBij
<1> QED BY <1>1, <1>4, <1>5, PositionsFinite
----------------------------------------------------------------------------
(***************************************************************************)
(* Types, control, answers and timers.  The timers are part of it: that    *)
(* none is counted below zero takes what TimerInv says of them.            *)
(***************************************************************************)
\* The ages and limits the clock works with.
LEMMA Numbers ==
    ASSUME TypeOK
    PROVE  /\ keepAlive \in Nat /\ Timeout \in Nat /\ Interval \in Nat
           /\ ReadLimit \in Nat
           /\ Timeout = 3 * keepAlive
BY DEF TypeOK, Timeout, Interval, ReadLimit

\* Reading takes a packet from the socket.
LEMMA InboxTail ==
    ASSUME TypeOK, NEW p, Arrived(p)
    PROVE  /\ p \in Kind
           /\ Tail(inbox) \in Seq(Kind) /\ Len(Tail(inbox)) <= InboxSize
<1>1. inbox \in Seq(Kind) /\ inbox # <<>> /\ p = Head(inbox)
  BY DEF TypeOK, Arrived
<1> QED BY <1>1 DEF TypeOK

\* The parts of the invariant that a step of the handshake can disturb.
LEMMA ConnectStep ==
    ASSUME TypeInv,
           \/ AwaitFails \/ AwaitConnect \/ Accept \/ Refuse \/ ConnectFails
           \/ EncodeConnack \/ WriteConnack \/ ConnackFails \/ Install
    PROVE  TypeInv'
<1> USE DEF TypeInv, TypeOK, ControlInv, OwingInv, TimerInv, InHandAnswers, Closed,
            Early, Greeting, Handling, Timer, Reason, Timeout, Interval
<1>1. CASE AwaitFails
  <2>1. inbox' \in Seq(Kind) /\ Len(inbox') <= InboxSize
    BY <1>1, InboxTail DEF AwaitFails
  <2> QED BY <1>1, <2>1 DEF AwaitFails, Close
<1>2. CASE AwaitConnect
  <2>1. inbox' \in Seq(Kind) /\ Len(inbox') <= InboxSize
    BY <1>2, InboxTail DEF AwaitConnect
  <2> QED BY <1>2, <2>1 DEF AwaitConnect
<1>3. CASE Accept
  BY <1>3 DEF Accept
<1>4. CASE Refuse
  BY <1>4 DEF Refuse
<1>5. CASE ConnectFails
  BY <1>5 DEF ConnectFails, Close
<1>6. CASE EncodeConnack
  BY <1>6 DEF EncodeConnack
<1>7. CASE WriteConnack
  BY <1>7 DEF WriteConnack, Close, StayOpen, BufferAfter
<1>8. CASE ConnackFails
  BY <1>8 DEF ConnackFails, Close, BufferAfter
<1>9. CASE Install
  BY <1>9 DEF Install, StartTicker
<1> QED BY <1>1, <1>2, <1>3, <1>4, <1>5, <1>6, <1>7, <1>8, <1>9

\* The read loop and its handlers.
LEMMA ReadStep ==
    ASSUME TypeInv,
           \/ NextRead \/ StopReading \/ ReadPacket \/ HandleReadError
           \/ Answer \/ DispatchOneway \/ DispatchDisconnect \/ DispatchWrong
           \/ ReaderStops \/ Teardown
    PROVE  TypeInv'
<1> USE DEF TypeInv, TypeOK, ControlInv, OwingInv, TimerInv, InHandAnswers, Closed,
            Early, Greeting, Handling, Timer, Reason, Timeout, Interval
<1>1. CASE NextRead
  BY <1>1 DEF NextRead, ReadDeadline
<1>2. CASE StopReading
  BY <1>2 DEF StopReading
<1>3. CASE ReadPacket
  <2>1. packet' \in Kind /\ inbox' \in Seq(Kind) /\ Len(inbox') <= InboxSize
    BY <1>3, InboxTail DEF ReadPacket
  <2> QED BY <1>3, <2>1 DEF ReadPacket
<1>4. CASE HandleReadError
  <2>1. inbox' \in Seq(Kind) /\ Len(inbox') <= InboxSize
    BY <1>4, InboxTail DEF HandleReadError
  <2> QED BY <1>4, <2>1 DEF HandleReadError, Close
<1>5. CASE Answer
  <2>1. Count(Append(outbound, "answer"), "answer") = Count(outbound, "answer") + 1
    BY CountAppend DEF Out
  <2>2. Count(outbound, "answer") \in Nat
    BY PositionsFinite
  <2>3. CASE CanSend
    <3>1. subscribed' \in BOOLEAN
      BY <1>5, Zenon DEF Answer
    <3>2. /\ outbound' = Append(outbound, "answer") /\ outbound' \in Seq(Out)
          /\ Len(outbound') <= OutboundQueueSize
      <4>1. outbound' = Append(outbound, "answer") /\ Len(outbound) < OutboundQueueSize
        BY <1>5, <2>3 DEF Answer, CanSend
      <4> HIDE DEF ControlInv, OwingInv, TimerInv
      <4> QED BY <4>1 DEF Out
    <3>3. owing' = owing + 1 /\ UNCHANGED <<inHand, reason>>
      BY <1>5, <2>3 DEF Answer, StayOpen
    <3>4. OwingInv'
      BY <2>1, <2>2, <3>2, <3>3
    <3> QED BY <1>5, <2>3, <3>1, <3>2, <3>4 DEF Answer, StayOpen
  <2>4. CASE ~CanSend
    <3>1. subscribed' \in BOOLEAN
      BY <1>5, Zenon DEF Answer
    <3> QED BY <1>5, <2>2, <2>4, <3>1 DEF Answer, Close
  <2> QED BY <2>3, <2>4
<1>6. CASE DispatchOneway
  BY <1>6 DEF DispatchOneway
<1>7. CASE DispatchDisconnect
  BY <1>7 DEF DispatchDisconnect, Close
<1>8. CASE DispatchWrong
  BY <1>8 DEF DispatchWrong, Close
<1>9. CASE ReaderStops
  BY <1>9 DEF ReaderStops
<1>10. CASE Teardown
  BY <1>10 DEF Teardown
<1> QED BY <1>1, <1>2, <1>3, <1>4, <1>5, <1>6, <1>7, <1>8, <1>9, <1>10

\* The writer.
LEMMA WriteStep ==
    ASSUME TypeInv, WriterStep
    PROVE  TypeInv'
<1> USE DEF TypeInv, TypeOK, ControlInv, OwingInv, TimerInv, InHandAnswers, Closed,
            Early, Greeting, Handling, Timer, Reason, Timeout, Interval
<1>1. CASE TakeOutbound
  <2>1. outbound # <<>> /\ inHand = "none"
    BY <1>1 DEF TakeOutbound
  <2>2. /\ Head(outbound) \in Out /\ Tail(outbound) \in Seq(Out)
        /\ Len(Tail(outbound)) <= OutboundQueueSize
    BY <2>1
  <2>3. Count(Tail(outbound), "answer") =
            Count(outbound, "answer") - IF Head(outbound) = "answer" THEN 1 ELSE 0
    BY <2>1, CountTail
  <2>4. Count(outbound, "answer") \in Nat
    BY PositionsFinite
  <2> QED BY <1>1, <2>1, <2>2, <2>3, <2>4 DEF TakeOutbound, Out
<1>2. CASE WriteOutbound
  <2>1. Count(outbound, "answer") \in Nat
    BY PositionsFinite
  <2> QED BY <1>2, <2>1 DEF WriteOutbound, Out, BufferAfter
<1>3. CASE WriteFails
  <2>1. Count(outbound, "answer") \in Nat
    BY PositionsFinite
  <2>2. CASE writer = "writing"
    BY <1>3, <2>1, <2>2 DEF WriteFails, Close, Out, BufferAfter
  <2>3. CASE writer = "drainWriting"
    BY <1>3, <2>1, <2>3 DEF WriteFails, StayOpen, Out, BufferAfter
  <2> QED BY <1>3, <2>2, <2>3 DEF WriteFails
<1>4. CASE WriterStops
  BY <1>4 DEF WriterStops
<1> QED BY <1>1, <1>2, <1>3, <1>4 DEF WriterStep

\* The clock, the keep-alive loop, the client and those who call in from outside.
LEMMA OtherStep ==
    ASSUME TypeInv,
           \/ KeepAliveTick \/ KeepAliveCancelled \/ CloseSocket \/ CloseFromOutside
           \/ SendPublish \/ Tick \/ (\E p \in Kind : PeerSends(p)) \/ PeerStops
    PROVE  TypeInv'
<1> USE DEF TypeInv, TypeOK, ControlInv, OwingInv, TimerInv, InHandAnswers, Closed,
            Early, Greeting, Handling, Timer, Reason, Timeout, Interval
<1>1. CASE KeepAliveTick
  <2>1. CASE IsKeepAliveExpired
    BY <1>1, <2>1 DEF KeepAliveTick, Close
  <2>2. CASE ~IsKeepAliveExpired
    <3>1. keepAlive # 0 /\ idle <= Timeout /\ ticker' = Interval
      BY <1>1, <2>2 DEF KeepAliveTick, IsKeepAliveExpired
    <3>2. TimerInv'
      BY <1>1, <2>2, <3>1 DEF KeepAliveTick
    <3> QED BY <1>1, <2>2, <3>1, <3>2 DEF KeepAliveTick
  <2> QED BY <2>1, <2>2
<1>2. CASE KeepAliveCancelled
  BY <1>2 DEF KeepAliveCancelled
<1>3. CASE CloseSocket
  <2>1. sockOpen' \in BOOLEAN
    BY <1>3, Zenon DEF CloseSocket
  <2> QED BY <1>3, <2>1 DEF CloseSocket
<1>4. CASE CloseFromOutside
  BY <1>4 DEF CloseFromOutside, Close
<1>5. CASE SendPublish
  <2>1. Count(Append(outbound, "publish"), "answer") = Count(outbound, "answer") + 0
    BY CountAppend DEF Out
  <2>2. Count(outbound, "answer") \in Nat
    BY PositionsFinite
  <2> QED BY <1>5, <2>1, <2>2 DEF SendPublish, CanSend, Out
<1>6. CASE Tick
  <2>1. UNCHANGED <<reader, packet, writeVars, buffer, outbound, closeVars, clientVars,
                    peerVars, owing>>
    BY <1>6 DEF Tick
  <2>2. /\ deadline' = Sooner(deadline) /\ ticker' = Sooner(ticker)
        /\ deadline # 0 /\ ticker # 0
    BY <1>6 DEF Tick, MayWait
  <2>3. deadline' \in Timer /\ ticker' \in Timer
    BY <2>2 DEF Sooner
  <2>4. /\ idle' \in Nat /\ silence' \in Nat /\ waited' \in Nat
        /\ idle' >= idle
    BY <1>6 DEF Tick, Older
  <2>5. (reader \in {"await", "read"} \/ Handling) /\ ~Closed
    BY <1>6 DEF Tick, MayWait, Blocked
  <2>6. reader = "await" /\ ConnectTimeout > 0 => waited' = waited + 1
    BY <1>6 DEF Tick, Blocked, Older, ReadLimit
  <2>7. reader = "read" /\ keepAlive # 0 => waited' = waited + 1
    BY <1>6 DEF Tick, Blocked, Older, ReadLimit
  <2>8. /\ overdue' \in Nat /\ overdue' <= overdue + 1
        /\ overdue' > 0 => ticker # NoTimer /\ idle' > Timeout
    BY <1>6 DEF Tick, Older
  <2>9. TimerInv'
    <3>1. Handling => deadline' = NoTimer
      BY <2>2 DEF Sooner
    <3>2. reader = "await" /\ ConnectTimeout > 0 =>
             deadline' \in Nat /\ deadline' + waited' = ConnectTimeout
      BY <2>2, <2>3, <2>5, <2>6 DEF Sooner
    <3>3. reader = "read" =>
             IF keepAlive = 0 THEN deadline' = NoTimer
             ELSE deadline' \in Nat /\ deadline' + waited' = Timeout
      BY <2>2, <2>3, <2>5, <2>7 DEF Sooner
    <3>4. ticker' # NoTimer => keepAlive # 0 /\ overdue' + ticker' <= Interval
      BY <2>2, <2>8 DEF Sooner
    <3>5. reader \in Early \cup Greeting => ticker' = NoTimer
      BY <2>2 DEF Sooner
    <3>6. overdue' > 0 => ticker' # NoTimer /\ idle' > Timeout
      BY <2>2, <2>8 DEF Sooner
    <3>7. Timeout' = Timeout /\ Interval' = Interval /\ ~Closed' /\ (Handling' <=> Handling)
      BY <2>1, <2>5
    <3> HIDE DEF Timeout, Interval, Closed, OwingInv, ControlInv, TypeOK, Greeting, Early,
                Handling
    <3> QED BY <2>1, <2>5, <3>1, <3>2, <3>3, <3>4, <3>5, <3>6, <3>7
  <2>10. TypeOK' /\ ControlInv' /\ OwingInv'
    BY <2>1, <2>3, <2>4, <2>8
  <2> QED BY <2>9, <2>10
<1>7. ASSUME NEW p \in Kind, PeerSends(p) PROVE TypeInv'
  BY <1>7 DEF PeerSends
<1>8. CASE PeerStops
  BY <1>8 DEF PeerStops
<1> QED BY <1>1, <1>2, <1>3, <1>4, <1>5, <1>6, <1>7, <1>8

\* One step of any goroutine, of the client or of the clock.
LEMMA TypeStep == TypeInv /\ [Next]_vars => TypeInv'
<1> SUFFICES ASSUME TypeInv, [Next]_vars PROVE TypeInv'
  OBVIOUS
<1>1. CASE UNCHANGED vars
  BY <1>1 DEF vars, TypeInv, TypeOK, ControlInv, OwingInv, TimerInv, InHandAnswers,
         Closed, Handling, Timeout, Interval
<1> QED BY <1>1, ConnectStep, ReadStep, WriteStep, OtherStep DEF Next, ReaderStep

\* Serve has just begun.
LEMMA TypeInit == Init => TypeInv
<1> SUFFICES ASSUME Init PROVE TypeInv
  OBVIOUS
<1>1. /\ sockOpen \in BOOLEAN /\ client \in BOOLEAN /\ registered \in BOOLEAN
      /\ subscribed \in BOOLEAN
  BY Zenon DEF Init
<1>2. TypeOK
  BY <1>1 DEF Init, TypeOK, Reason, Timer, ConnectDeadline
<1>3. OwingInv
  BY CountEmpty DEF Init, OwingInv, InHandAnswers
<1>4. ControlInv /\ TimerInv
  BY DEF Init, ControlInv, TimerInv, Closed, Early, Greeting, Handling,
         ConnectDeadline
<1> QED BY <1>2, <1>3, <1>4 DEF TypeInv

\* Type correctness; in particular no timer is counted past zero, no answer is
\* written that nobody promised, and neither queue outgrows its capacity.
THEOREM TypeCorrect == Spec => []TypeOK
<1>1. TypeInv => TypeOK
  BY DEF TypeInv
<1> QED BY <1>1, TypeInit, TypeStep, PTL DEF Spec

\* A full queue costs messages or the connection, never an answer.
THEOREM NoAnswerLost == Spec => []AnswersKept
<1>1. TypeInv => AnswersKept
  BY DEF TypeInv, OwingInv, InHandAnswers, AnswersKept
<1> QED BY <1>1, TypeInit, TypeStep, PTL DEF Spec

\* Whatever the timeout and the keep-alive, and however long the handshake and the
\* handlers take: silence is noticed within the bounds the code sets itself.
THEOREM NoSilenceMissed == Spec => []SilenceNoticed
<1>1. TypeInv => SilenceNoticed
  <2> SUFFICES ASSUME TypeInv PROVE SilenceNoticed
    OBVIOUS
  <2> USE DEF TypeInv, TypeOK, TimerInv, Timer
  <2>1. Timeout \in Nat /\ Interval \in Nat
    BY Numbers
  <2>2. reader = "await" /\ ConnectTimeout > 0 => waited <= ConnectTimeout
    OBVIOUS
  <2>3. reader = "read" /\ keepAlive # 0 => waited <= Timeout
    BY <2>1
  <2>4. overdue <= Interval
    BY <2>1
  <2> QED BY <2>2, <2>3, <2>4 DEF SilenceNoticed
<1> QED BY <1>1, TypeInit, TypeStep, PTL DEF Spec
----------------------------------------------------------------------------
(***************************************************************************)
(* KeepAliveFair: how long the client has been silent is not what the      *)
(* broker measures, so an invariant relates the two.                       *)
(***************************************************************************)
\* Steps that neither read nor reset a clock.
LEMMA FrameSilence ==
    ASSUME SilenceInv, UNCHANGED <<keepAlive, inbox, idle, silence, waited>>,
           reader' = "read" => reader = "read"
    PROVE  SilenceInv'
BY DEF SilenceInv, Timeout

\* A closed connection has no ages left.
LEMMA CloseSilence ==
    ASSUME idle' = 0, silence' = 0, waited' = 0
    PROVE  SilenceInv'
BY DEF SilenceInv

\* The steps that move a clock, or read.
LEMMA ClockSilence ==
    ASSUME Inv,
           \/ Tick \/ NextRead \/ ReadPacket \/ Accept \/ AwaitConnect
           \/ \E p \in Kind : PeerSends(p)
    PROVE  SilenceInv'
<1> USE DEF Inv, TypeInv, TypeOK
<1>1. Timeout \in Nat /\ Interval \in Nat
  BY Numbers
<1>2. CASE Tick
  <2> SUFFICES ASSUME keepAlive # 0, inbox = <<>>
               PROVE  /\ silence' >= idle' \/ silence' > Timeout
                      /\ reader = "read" => silence' >= waited'
    BY <1>2 DEF Tick, SilenceInv, Timeout
  <2>1. silence' = IF silence <= Timeout THEN silence + 1 ELSE silence
    BY <1>2 DEF Tick, Older
  <2>2. idle' \in {idle, idle + 1}
    BY <1>2 DEF Tick, Older
  <2>3. silence' >= idle' \/ silence' > Timeout
    BY <1>1, <2>1, <2>2 DEF SilenceInv
  <2>4. reader = "read" => silence' >= waited'
    <3> SUFFICES ASSUME reader = "read" PROVE silence' >= waited'
      OBVIOUS
    <3>1. ~Closed /\ deadline # 0
      BY <1>2 DEF Tick, MayWait, Handling
    <3>2. waited < Timeout
      BY <1>1, <3>1 DEF TimerInv
    <3>3. waited' = waited + 1
      BY <1>1, <1>2, <3>2 DEF Tick, Blocked, Older, ReadLimit
    <3> QED BY <1>1, <2>1, <3>2, <3>3 DEF SilenceInv
  <2> QED BY <2>3, <2>4
<1>3. CASE NextRead
  BY <1>1, <1>3 DEF NextRead, SilenceInv, Timeout
<1>4. CASE ReadPacket
  BY <1>1, <1>4 DEF ReadPacket, SilenceInv, Timeout
<1>5. CASE Accept
  BY <1>5 DEF Accept, SilenceInv
<1>6. CASE AwaitConnect
  BY <1>6 DEF AwaitConnect, SilenceInv, ControlInv, Early
<1>7. ASSUME NEW p \in Kind, PeerSends(p) PROVE SilenceInv'
  <2>1. inbox' # <<>>
    BY <1>7 DEF PeerSends
  <2> QED BY <2>1 DEF SilenceInv
<1> QED BY <1>2, <1>3, <1>4, <1>5, <1>6, <1>7

\* The other steps of the reader.
LEMMA ReaderSilence ==
    ASSUME Inv,
           \/ AwaitFails \/ Refuse \/ ConnectFails \/ EncodeConnack \/ WriteConnack
           \/ ConnackFails \/ Install \/ StopReading \/ HandleReadError \/ Answer
           \/ DispatchOneway \/ DispatchDisconnect \/ DispatchWrong \/ ReaderStops
           \/ Teardown
    PROVE  SilenceInv'
<1> USE DEF Inv
<1>1. CASE AwaitFails \/ ConnectFails \/ ConnackFails \/ HandleReadError
           \/ DispatchDisconnect \/ DispatchWrong
  BY <1>1, CloseSilence
     DEF AwaitFails, ConnectFails, ConnackFails, HandleReadError, DispatchDisconnect,
         DispatchWrong, Close
<1>2. CASE Refuse \/ EncodeConnack \/ Install \/ StopReading
           \/ DispatchOneway \/ ReaderStops \/ Teardown
  BY <1>2, FrameSilence
     DEF Refuse, EncodeConnack, Install, StopReading, DispatchOneway, ReaderStops, Teardown
<1>3. CASE WriteConnack \/ Answer
  BY <1>3, FrameSilence, CloseSilence DEF WriteConnack, Answer, Close, StayOpen
<1> QED BY <1>1, <1>2, <1>3

\* Everybody else.
LEMMA OtherSilence ==
    ASSUME Inv,
           \/ WriterStep \/ KeepAliveTick \/ KeepAliveCancelled \/ CloseSocket
           \/ CloseFromOutside \/ SendPublish \/ PeerStops \/ UNCHANGED vars
    PROVE  SilenceInv'
<1> USE DEF Inv
<1>1. CASE KeepAliveTick \/ CloseFromOutside \/ WriteFails
  BY <1>1, FrameSilence, CloseSilence
     DEF KeepAliveTick, CloseFromOutside, WriteFails, Close, StayOpen
<1>2. CASE TakeOutbound \/ WriteOutbound \/ WriterStops \/ KeepAliveCancelled
           \/ CloseSocket \/ SendPublish \/ PeerStops
  BY <1>2, FrameSilence
     DEF TakeOutbound, WriteOutbound, WriterStops, KeepAliveCancelled, CloseSocket,
         SendPublish, PeerStops
<1>3. CASE UNCHANGED vars
  BY <1>3, FrameSilence DEF vars
<1> QED BY <1>1, <1>2, <1>3 DEF WriterStep

\* One step.
LEMMA InvStep == Inv /\ [Next]_vars => Inv'
<1> SUFFICES ASSUME Inv, [Next]_vars PROVE Inv'
  OBVIOUS
<1>1. TypeInv'
  BY TypeStep DEF Inv
<1>2. SilenceInv'
  BY ClockSilence, ReaderSilence, OtherSilence DEF Next, ReaderStep
<1> QED BY <1>1, <1>2 DEF Inv

\* Which steps close a connection for a missed keep-alive.
LEMMA KeepAliveReason ==
    ASSUME [Next]_vars, ~Closed, reason' = "keepAlive"
    PROVE  \/ reader = "read" /\ TimedOut
           \/ IsKeepAliveExpired
<1> USE DEF Closed
<1>1. CASE HandleReadError
  BY <1>1 DEF HandleReadError, Close
<1>2. CASE KeepAliveTick
  BY <1>2 DEF KeepAliveTick
<1>3. CASE AwaitFails \/ ConnectFails \/ WriteConnack \/ ConnackFails \/ Answer
           \/ DispatchDisconnect \/ DispatchWrong
  BY <1>3 DEF AwaitFails, ConnectFails, WriteConnack, ConnackFails, Answer,
         DispatchDisconnect, DispatchWrong, Close, StayOpen
<1>4. CASE AwaitConnect \/ Accept \/ Refuse \/ EncodeConnack \/ Install \/ NextRead
           \/ StopReading \/ ReadPacket \/ DispatchOneway \/ ReaderStops \/ Teardown
  BY <1>4 DEF AwaitConnect, Accept, Refuse, EncodeConnack, Install, NextRead, StopReading,
         ReadPacket, DispatchOneway, ReaderStops, Teardown
<1>5. CASE WriterStep
  BY <1>5 DEF WriterStep, TakeOutbound, WriteOutbound, WriteFails, WriterStops, Close, StayOpen
<1>6. CASE \/ KeepAliveCancelled \/ CloseSocket \/ CloseFromOutside \/ SendPublish \/ Tick
           \/ (\E p \in Kind : PeerSends(p)) \/ PeerStops \/ UNCHANGED vars
  BY <1>6 DEF KeepAliveCancelled, CloseSocket, CloseFromOutside, SendPublish, Tick,
         PeerSends, PeerStops, vars, Close
<1> QED BY <1>1, <1>2, <1>3, <1>4, <1>5, <1>6 DEF Next, ReaderStep

\* Neither of the two timers that watch a client ever closes one that turned
\* keep-alive off, or that spoke within one and a half of it and was read.
THEOREM KeepAliveJust == Spec => KeepAliveFair
<1>1. Init => Inv
  BY TypeInit DEF Inv, Init, SilenceInv
<1>2. Inv /\ [Next]_vars =>
        [~Closed /\ reason' = "keepAlive" =>
            /\ keepAlive # 0
            /\ silence >= Timeout \/ inbox # <<>>]_vars
  <2> SUFFICES ASSUME Inv, [Next]_vars, ~Closed, reason' = "keepAlive"
               PROVE  keepAlive # 0 /\ (silence >= Timeout \/ inbox # <<>>)
    OBVIOUS
  <2> USE DEF Inv, TypeInv, TypeOK, Timer
  <2>1. Timeout \in Nat
    BY Numbers
  <2>2. CASE reader = "read" /\ TimedOut
    <3>1. deadline = 0 /\ keepAlive # 0 /\ waited = Timeout
      BY <2>1, <2>2 DEF TimedOut, TimerInv
    <3> QED BY <3>1, <2>1, <2>2 DEF SilenceInv
  <2>3. CASE IsKeepAliveExpired
    BY <2>1, <2>3 DEF IsKeepAliveExpired, SilenceInv
  <2> QED BY <2>2, <2>3, KeepAliveReason
<1> QED BY <1>1, <1>2, InvStep, PTL DEF Spec, KeepAliveFair
============================================================================
