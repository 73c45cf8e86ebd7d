---------------------------- MODULE ServerProofs ----------------------------
(***************************************************************************)
(* Theorems about Server and the listener in it, for any set of sockets,   *)
(* finite or not, and any limit.                                           *)
(***************************************************************************)
EXTENDS Server, FiniteSetTheorems, TLAPS

USE ListenerAssumption, ServerAssumption
    DEF ListenerAssumption, ServerAssumption, acceptVars, countVars, stopVars,
        listenerVars, adminVars, loopVars, resultVars
----------------------------------------------------------------------------
(***************************************************************************)
(* The inductive invariant of the listener.                                *)
(***************************************************************************)
\* What connCount and wg count; the wait group counts the accept loop as well.
Held    == {c \in Conns : serving[c] \in {"serving", "returned", "deleted"}}
Running == {c \in Conns : serving[c] \in {"serving", "returned", "deleted", "counted"}}
LoopRuns == accept \in {"accepting", "accepted", "stored"}

CountInv ==
    /\ IsFiniteSet(Held) /\ IsFiniteSet(Running)
    /\ connCount = Cardinality(Held)
    /\ wg = Cardinality(Running) + IF LoopRuns THEN 1 ELSE 0

\* The map holds what is served and what the accept loop has just stored.
MapInv ==
    connections = {c \in Conns : \/ serving[c] \in {"serving", "returned"}
                                 \/ accept = "stored" /\ c = accepted}

\* How a socket, its goroutine and the accept loop go together.
SocketInv ==
    /\ accepted # NoConn <=> accept \in {"accepted", "stored"}
    /\ accept = "accepted" => sock[accepted] = "accepted"
    /\ accept = "stored" => sock[accepted] \in {"open", "closed"}
    /\ accepted # NoConn => serving[accepted] = "none"
    /\ \A c \in Conns :
          /\ sock[c] \in {"idle", "dialled"} => serving[c] = "none"
          /\ sock[c] = "accepted" => c = accepted
          /\ sock[c] = "open" => serving[c] = "serving" \/ c = accepted

\* Between the check and the count there is room for one more.
RoomInv ==
    MaxConnections > 0 =>
        connCount + (IF accept = "stored" THEN 1 ELSE 0) <= MaxConnections

\* Start and Stop, each of which happens once.
PhaseInv ==
    /\ stop = "idle" /\ ~started => accept = "none"
    /\ started \/ stop # "idle" => accept # "none"
    /\ stop \in {"range", "wait", "clean", "timedOut"} => ~listening
    /\ stop = "clean" => accept = "done" /\ Running = {}

\* A socket that Range will not close.
Missed(c) == sock[c] \in {"accepted", "open"} /\ (stop = "range" => c \notin unvisited)

\* There is at most one, and Range was given only sockets that were stored.
MissInv ==
    /\ \A c \in unvisited : sock[c] \in {"open", "closed"}
    /\ stop \in {"range", "wait", "clean", "timedOut"} =>
          \A c, d \in Conns : Missed(c) /\ Missed(d) => c = d

ListenerInv ==
    /\ ListenerTypeOK
    /\ CountInv /\ MapInv /\ SocketInv /\ RoomInv /\ PhaseInv /\ MissInv

\* The inductive invariant of the rest of the process.
StopInv ==
    /\ server \in {"idle", "bound", "looping", "up"} <=> stop = "idle"
    /\ server \in {"stopAdmin", "stopLoops", "stopped"} =>
          stop \in {"clean", "timedOut"} /\ admin \in {"off", "shutdown"}
    /\ server \in {"stopLoops", "stopped"} => failed \/ ~request
    /\ server = "stopped" => late \/ loop = "done"

Inv == TypeOK /\ ListenerInv /\ StopInv
----------------------------------------------------------------------------
(***************************************************************************)
(* Counting.                                                               *)
(***************************************************************************)
\* Steps that touch no goroutine and leave the accept loop running or not.
LEMMA CountFrame ==
    ASSUME CountInv, UNCHANGED <<serving, connCount, wg>>, LoopRuns' <=> LoopRuns
    PROVE  CountInv'
BY DEF CountInv, Held, Running

\* The accept loop starts and ends.
LEMMA LoopCount ==
    ASSUME ListenerInv, Start \/ AcceptFails
    PROVE  CountInv'
<1>1. UNCHANGED <<serving, connCount>> /\ Held' = Held /\ Running' = Running
  BY DEF Start, AcceptFails, Held, Running
<1>2. Cardinality(Running) \in Nat
  BY FS_CardinalityType DEF ListenerInv, CountInv
<1>3. CASE Start
  <2>1. ~LoopRuns /\ LoopRuns'
    BY <1>3 DEF Start, LoopRuns, ListenerInv, PhaseInv
  <2> QED BY <1>1, <1>2, <1>3, <2>1 DEF Start, CountInv, ListenerInv
<1>4. CASE AcceptFails
  <2>1. LoopRuns /\ ~LoopRuns'
    BY <1>4 DEF AcceptFails, LoopRuns
  <2> QED BY <1>1, <1>2, <1>4, <2>1 DEF AcceptFails, CountInv, ListenerInv
<1> QED BY <1>3, <1>4

\* The accept loop starts a goroutine for a socket that has none.
LEMMA ServeCount ==
    ASSUME ListenerInv, ServeConnection
    PROVE  CountInv'
<1> USE DEF ListenerInv
<1>1. accepted \in Conns /\ serving[accepted] = "none"
  BY DEF ServeConnection, SocketInv, ListenerTypeOK
<1>2. /\ Held' = Held \cup {accepted} /\ accepted \notin Held
      /\ Running' = Running \cup {accepted} /\ accepted \notin Running
  BY <1>1 DEF ServeConnection, Held, Running, ListenerTypeOK
<1>3. /\ IsFiniteSet(Held') /\ Cardinality(Held') = Cardinality(Held) + 1
      /\ IsFiniteSet(Running') /\ Cardinality(Running') = Cardinality(Running) + 1
  BY <1>2, FS_AddElement DEF CountInv
<1>4. Cardinality(Running) \in Nat /\ LoopRuns /\ LoopRuns'
  BY FS_CardinalityType DEF CountInv, ServeConnection, LoopRuns
<1> QED BY <1>3, <1>4 DEF CountInv, ServeConnection

\* A goroutine counts itself out of each number once.
LEMMA GoroutineCount ==
    ASSUME ListenerInv, NEW c \in Conns, Goroutine(c)
    PROVE  CountInv'
<1> USE DEF ListenerInv
<1>1. (LoopRuns' <=> LoopRuns) /\ Cardinality(Running) \in Nat
  BY FS_CardinalityType
     DEF Goroutine, ServeReturns, Forget, CountDown, Done, LoopRuns, CountInv
<1>2. CASE ServeReturns(c) \/ Forget(c)
  <2>1. Held' = Held /\ Running' = Running
    BY <1>2 DEF ServeReturns, Forget, Held, Running, ListenerTypeOK
  <2> QED BY <1>1, <1>2, <2>1 DEF ServeReturns, Forget, CountInv
<1>3. CASE CountDown(c)
  <2>1. Held' = Held \ {c} /\ c \in Held /\ Running' = Running
    BY <1>3 DEF CountDown, Held, Running, ListenerTypeOK
  <2>2. IsFiniteSet(Held') /\ Cardinality(Held') = Cardinality(Held) - 1
    BY <2>1, FS_RemoveElement DEF CountInv
  <2> QED BY <1>1, <1>3, <2>1, <2>2 DEF CountDown, CountInv
<1>4. CASE Done(c)
  <2>1. Running' = Running \ {c} /\ c \in Running /\ Held' = Held
    BY <1>4 DEF Done, Held, Running, ListenerTypeOK
  <2>2. IsFiniteSet(Running') /\ Cardinality(Running') = Cardinality(Running) - 1
    BY <2>1, FS_RemoveElement DEF CountInv
  <2> QED BY <1>1, <1>4, <2>1, <2>2 DEF Done, CountInv
<1> QED BY <1>2, <1>3, <1>4 DEF Goroutine

\* One step of the listener.
LEMMA CountStep ==
    ASSUME ListenerInv, Listening \/ Start \/ StopCancels
    PROVE  CountInv' /\ connCount' \in Nat /\ wg' \in Nat
<1>1. ASSUME NEW c \in Conns, Dial(c) \/ Accept(c) \/ ConnectionCloses(c)
      PROVE  CountInv'
  BY <1>1, CountFrame
     DEF ListenerInv, Dial, Accept, ConnectionCloses, LoopRuns
<1>2. ASSUME RefuseAtLimit \/ StoreConnection \/ StopCancels PROVE CountInv'
  <2>1. UNCHANGED <<serving, connCount, wg>> /\ (LoopRuns' <=> LoopRuns)
    BY <1>2 DEF RefuseAtLimit, StoreConnection, StopCancels, LoopRuns
  <2> QED BY <2>1, CountFrame DEF ListenerInv
<1>3. ASSUME Stopping PROVE CountInv'
  <2>1. UNCHANGED <<serving, connCount, wg, accept>>
    BY <1>3 DEF Stopping, StopClosesListener, StopVisits, StopRangeEnds, StopReturns
  <2> QED BY <2>1, CountFrame DEF ListenerInv, LoopRuns
<1>4. CountInv'
  BY <1>1, <1>2, <1>3, LoopCount, ServeCount, GoroutineCount DEF Listening, AcceptLoop
<1>5. Cardinality(Held') \in Nat /\ Cardinality(Running') \in Nat
  BY <1>4, FS_CardinalityType DEF CountInv
<1> QED BY <1>4, <1>5 DEF CountInv
----------------------------------------------------------------------------
(***************************************************************************)
(* The rest of the listener's invariant.                                   *)
(***************************************************************************)
\* Start.
LEMMA StartStep ==
    ASSUME ListenerInv, Start
    PROVE  ListenerInv'
<1>1. CountInv' /\ connCount' \in Nat /\ wg' \in Nat
  BY CountStep
<1> QED BY <1>1 DEF Start, ListenerInv, ListenerTypeOK, MapInv, SocketInv, RoomInv,
             PhaseInv, MissInv, Missed, Running

\* The accept loop.
LEMMA AcceptStep ==
    ASSUME ListenerInv, AcceptLoop \/ \E c \in Conns : Dial(c) \/ Accept(c)
    PROVE  ListenerInv'
<1>1. CountInv' /\ connCount' \in Nat /\ wg' \in Nat
  BY CountStep DEF Listening
<1> USE DEF ListenerInv, ListenerTypeOK, SocketInv
<1>2. ASSUME NEW c \in Conns, Dial(c) PROVE ListenerInv'
  BY <1>1, <1>2 DEF Dial, MapInv, RoomInv, PhaseInv, MissInv, Missed, Running
<1>3. ASSUME NEW c \in Conns, Accept(c) PROVE ListenerInv'
  BY <1>1, <1>3 DEF Accept, MapInv, RoomInv, PhaseInv, MissInv, Missed, Running
<1>4. CASE AcceptFails
  BY <1>1, <1>4 DEF AcceptFails, MapInv, RoomInv, PhaseInv, MissInv, Missed, Running
<1>5. CASE RefuseAtLimit
  BY <1>1, <1>5 DEF RefuseAtLimit, MapInv, RoomInv, PhaseInv, MissInv, Missed, Running
<1>6. CASE StoreConnection
  BY <1>1, <1>6 DEF StoreConnection, AtLimit, MapInv, RoomInv, PhaseInv, MissInv, Missed, Running
<1>7. CASE ServeConnection
  BY <1>1, <1>7 DEF ServeConnection, MapInv, RoomInv, PhaseInv, MissInv, Missed, Running
<1> QED BY <1>2, <1>3, <1>4, <1>5, <1>6, <1>7 DEF AcceptLoop

\* A connection's goroutine.
LEMMA GoroutineStep ==
    ASSUME ListenerInv, NEW c \in Conns, ConnectionCloses(c) \/ Goroutine(c)
    PROVE  ListenerInv'
<1>1. CountInv' /\ connCount' \in Nat /\ wg' \in Nat
  BY CountStep DEF Listening
<1> USE DEF ListenerInv, ListenerTypeOK, SocketInv, MapInv, RoomInv, PhaseInv,
            MissInv, Missed, Running
<1>2. CASE ConnectionCloses(c)
  BY <1>1, <1>2 DEF ConnectionCloses
<1>3. CASE ServeReturns(c)
  BY <1>1, <1>3 DEF ServeReturns
<1>4. CASE Forget(c)
  BY <1>1, <1>4 DEF Forget
<1>5. CASE CountDown(c)
  BY <1>1, <1>5 DEF CountDown
<1>6. CASE Done(c)
  BY <1>1, <1>6 DEF Done
<1> QED BY <1>2, <1>3, <1>4, <1>5, <1>6 DEF Goroutine

\* Stop.
LEMMA StopStep ==
    ASSUME ListenerInv, Stopping \/ StopCancels
    PROVE  ListenerInv'
<1>1. CountInv' /\ connCount' \in Nat /\ wg' \in Nat
  BY CountStep DEF Listening
<1> USE DEF ListenerInv, ListenerTypeOK, SocketInv, MapInv, RoomInv, PhaseInv,
            MissInv, Missed, Running
<1>2. CASE StopCancels
  BY <1>1, <1>2 DEF StopCancels
<1>3. CASE StopClosesListener
  BY <1>1, <1>3 DEF StopClosesListener
<1>4. ASSUME NEW c \in Conns, StopVisits(c) PROVE ListenerInv'
  BY <1>1, <1>4 DEF StopVisits
<1>5. CASE StopRangeEnds
  BY <1>1, <1>5 DEF StopRangeEnds
<1>6. CASE StopReturns
  <2>1. wg = 0 => Running = {} /\ accept = "done"
    <3> SUFFICES ASSUME wg = 0 PROVE Running = {} /\ accept = "done"
      OBVIOUS
    <3>1. Cardinality(Running) \in Nat
      BY FS_CardinalityType DEF CountInv
    <3>2. Cardinality(Running) = 0 /\ ~LoopRuns
      BY <3>1 DEF CountInv
    <3>3. Running = {}
      BY <3>2, FS_EmptySet DEF CountInv
    <3> QED BY <1>6, <3>2, <3>3 DEF StopReturns, LoopRuns
  <2> QED BY <1>1, <1>6, <2>1 DEF StopReturns
<1> QED BY <1>2, <1>3, <1>4, <1>5, <1>6 DEF Stopping
----------------------------------------------------------------------------
(***************************************************************************)
(* The process around it.                                                  *)
(***************************************************************************)
\* What the listener does by itself.
LEMMA ListeningStep ==
    ASSUME Inv, Listening, UNCHANGED <<server, adminVars, loopVars, resultVars>>
    PROVE  Inv'
<1>1. ListenerInv'
  BY AcceptStep, GoroutineStep, StopStep DEF Inv, Listening
<1>2. /\ stop' = "idle" <=> stop = "idle"
      /\ stop \in {"clean", "timedOut"} => stop' \in {"clean", "timedOut"}
  BY DEF Listening, AcceptLoop, AcceptFails, RefuseAtLimit, StoreConnection,
         ServeConnection, Stopping, StopClosesListener, StopVisits, StopRangeEnds,
         StopReturns, Dial, Accept, ConnectionCloses, Goroutine, ServeReturns, Forget,
         CountDown, Done
<1> QED BY <1>1, <1>2 DEF Inv, TypeOK, StopInv, ListenerInv

\* Start, and the beginning of Stop.
LEMMA BothStep ==
    ASSUME Inv, StartListener \/ StopListener
    PROVE  Inv'
<1>1. ListenerInv'
  BY StartStep, StopStep DEF Inv, StartListener, StopListener
<1>2. CASE StartListener
  BY <1>1, <1>2 DEF StartListener, Start, Inv, TypeOK, StopInv, ListenerInv
<1>3. CASE StopListener
  BY <1>1, <1>3 DEF StopListener, StopCancels, Inv, TypeOK, StopInv, ListenerInv
<1> QED BY <1>2, <1>3

\* The listener's invariant is about the listener only.
LEMMA ListenerFrame ==
    ASSUME ListenerInv, UNCHANGED listenerVars
    PROVE  ListenerInv'
BY DEF ListenerInv, ListenerTypeOK, CountInv, MapInv, SocketInv, RoomInv, PhaseInv,
       MissInv, Missed, Held, Running, LoopRuns

\* The other parts of the process.
LEMMA ServerStep ==
    ASSUME Inv,
           \/ Starting \/ AdminListens \/ AdminRequest \/ AdminAnswers
           \/ LoopWorks \/ LoopReturns \/ LoopStops \/ ServerStopping
    PROVE  Inv'
<1>1. UNCHANGED listenerVars
  BY DEF Starting, StartLoops, StartAdmin, AdminListens, AdminRequest, AdminAnswers,
         LoopWorks, LoopReturns, LoopStops, ServerStopping, StopAdmin, CancelLoops, Stopped
<1>2. ListenerInv' /\ ListenerTypeOK'
  BY <1>1, ListenerFrame DEF Inv, ListenerInv
<1>3. stop' = stop
  BY <1>1
<1> USE DEF Inv, TypeOK, StopInv
<1>4. CASE Starting
  BY <1>2, <1>3, <1>4 DEF Starting, StartLoops, StartAdmin
<1>5. CASE AdminListens \/ AdminRequest \/ AdminAnswers
  <2>1. request' \in BOOLEAN
    BY <1>5, Zenon DEF AdminListens, AdminRequest, AdminAnswers
  <2> QED BY <1>2, <1>3, <1>5, <2>1 DEF AdminListens, AdminRequest, AdminAnswers
<1>6. CASE LoopWorks \/ LoopReturns \/ LoopStops
  BY <1>2, <1>3, <1>6 DEF LoopWorks, LoopReturns, LoopStops
<1>7. CASE StopAdmin
  BY <1>2, <1>3, <1>7 DEF StopAdmin
<1>8. CASE CancelLoops
  BY <1>2, <1>3, <1>8 DEF CancelLoops
<1>9. CASE Stopped
  BY <1>2, <1>3, <1>9 DEF Stopped
<1> QED BY <1>4, <1>5, <1>6, <1>7, <1>8, <1>9 DEF ServerStopping

\* One step of the process.
LEMMA InvStep == Inv /\ [Next]_vars => Inv'
<1> SUFFICES ASSUME Inv, [Next]_vars PROVE Inv'
  OBVIOUS
<1>1. CASE UNCHANGED vars
  BY <1>1, ListenerFrame DEF vars, Inv, TypeOK, StopInv, ListenerInv
<1> QED BY <1>1, ListeningStep, BothStep, ServerStep DEF Next

\* Nothing has started.
LEMMA InvInit == Init => Inv
<1> SUFFICES ASSUME Init PROVE Inv
  OBVIOUS
<1>1. Held = {} /\ Running = {} /\ ~LoopRuns
  BY DEF Init, ListenerInit, Held, Running, LoopRuns
<1>2. CountInv
  BY <1>1, FS_EmptySet DEF Init, ListenerInit, CountInv
<1>3. /\ started \in BOOLEAN /\ listening \in BOOLEAN /\ cancelled \in BOOLEAN
      /\ request \in BOOLEAN /\ runCancelled \in BOOLEAN
      /\ failed \in BOOLEAN /\ late \in BOOLEAN
  BY Zenon DEF Init, ListenerInit
<1>4. ListenerTypeOK
  BY <1>3 DEF Init, ListenerInit, ListenerTypeOK
<1>5. MapInv /\ SocketInv /\ RoomInv /\ PhaseInv /\ MissInv
  BY DEF Init, ListenerInit, MapInv, SocketInv, RoomInv, PhaseInv, MissInv
<1> QED BY <1>2, <1>3, <1>4, <1>5 DEF Init, ListenerInit, Inv, TypeOK, ListenerInv, StopInv

\* The invariant, for the theorems.
LEMMA Invariance == Spec => []Inv
BY InvInit, InvStep, PTL DEF Spec
----------------------------------------------------------------------------
(***************************************************************************)
(* Theorems.                                                               *)
(***************************************************************************)
\* Type correctness; in particular neither connCount nor the wait group, which
\* would panic, ever falls below zero.
THEOREM TypeCorrect == Spec => []TypeOK
<1>1. Inv => TypeOK
  BY DEF Inv
<1> QED BY <1>1, Invariance, PTL

\* The limit holds although it is checked and counted in separate steps.
THEOREM LimitKept == Spec => []LimitHolds
<1>1. Inv => LimitHolds
  <2> SUFFICES ASSUME Inv, MaxConnections > 0
               PROVE  Cardinality(connections) <= MaxConnections /\ connCount <= MaxConnections
    BY DEF LimitHolds
  <2> USE DEF Inv, ListenerInv
  <2> DEFINE bound == IF accept = "stored" THEN Held \cup {accepted} ELSE Held
  <2>1. connections \subseteq bound
    BY DEF MapInv, Held
  <2>2. accept = "stored" => accepted \notin Held
    BY DEF SocketInv, Held
  <2>3. /\ IsFiniteSet(bound)
        /\ Cardinality(bound) = connCount + IF accept = "stored" THEN 1 ELSE 0
    BY <2>2, FS_AddElement DEF CountInv, ListenerTypeOK
  <2>4. Cardinality(connections) <= Cardinality(bound)
    BY <2>1, <2>3, FS_Subset
  <2>5. IsFiniteSet(connections)
    BY <2>1, <2>3, FS_Subset
  <2>6. Cardinality(connections) \in Nat
    BY <2>5, FS_CardinalityType
  <2> QED BY <2>3, <2>4, <2>6 DEF RoomInv, ListenerTypeOK
<1> QED BY <1>1, Invariance, PTL

\* When Stop has closed what it found, at most one connection is left, whatever
\* the accept loop and the goroutines were doing meanwhile.
THEOREM AtMostOneLeft == Spec => []OneSlipsPast
<1>1. Inv => OneSlipsPast
  <2> DEFINE left == {c \in Conns : sock[c] \in {"accepted", "open"}}
  <2> SUFFICES ASSUME Inv, stop \in {"wait", "clean", "timedOut"}
               PROVE  Cardinality(left) <= 1
    BY DEF OneSlipsPast
  <2>1. \A c, d \in left : c = d
    BY DEF Inv, ListenerInv, MissInv, Missed
  <2>2. CASE left = {}
    BY <2>2, FS_EmptySet
  <2>3. CASE left # {}
    <3>1. PICK c \in left : TRUE
      BY <2>3
    <3>2. left = {c}
      BY <2>1, <3>1
    <3>3. Cardinality({c}) = 1
      BY FS_Singleton
    <3> QED BY <3>2, <3>3
  <2> QED BY <2>2, <2>3
<1> QED BY <1>1, Invariance, PTL

\* Nothing uses a store once shutdown reports that it is done, except behind a
\* wait that timed out.
THEOREM QuietOnceStopped == Spec => []QuietAfterStop
<1>1. Inv => QuietAfterStop
  <2> SUFFICES ASSUME Inv, server = "stopped"
               PROVE  /\ stop = "clean" =>
                            /\ ~ConnectionsRun
                            /\ connections = {} /\ connCount = 0
                            /\ \A c \in Conns : sock[c] # "open"
                      /\ ~late => loop = "done"
                      /\ ~failed => ~request
    BY DEF QuietAfterStop
  <2> USE DEF Inv, ListenerInv
  <2>1. ASSUME stop = "clean"
        PROVE  /\ ~ConnectionsRun
               /\ connections = {} /\ connCount = 0
               /\ \A c \in Conns : sock[c] # "open"
    <3>1. accept = "done" /\ Running = {} /\ Held = {}
      BY <2>1 DEF PhaseInv, Running, Held
    <3>2. \A c \in Conns : serving[c] \in {"none", "done"}
      BY <3>1 DEF Running, ListenerTypeOK
    <3>3. connections = {} /\ ~ConnectionsRun
      BY <3>1, <3>2 DEF MapInv, ConnectionsRun
    <3>4. connCount = 0
      BY <3>1, FS_EmptySet DEF CountInv
    <3>5. \A c \in Conns : sock[c] # "open"
      BY <3>1, <3>2 DEF SocketInv, ListenerTypeOK
    <3> QED BY <3>3, <3>4, <3>5
  <2>2. (~late => loop = "done") /\ (~failed => ~request)
    BY DEF StopInv
  <2> QED BY <2>1, <2>2
<1> QED BY <1>1, Invariance, PTL
============================================================================
