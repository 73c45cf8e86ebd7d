------------------------------ MODULE Listener ------------------------------
(***************************************************************************)
(* The TCP listener (pkg/infrastructure/transport/listener.go): the accept *)
(* loop with its connection limit, one goroutine for each connection, and  *)
(* Stop, which drains them while the accept loop may still be working.     *)
(*                                                                         *)
(* The map of connections, the counter and the wait group are separate and *)
(* are updated one after the other, so each update is a step.              *)
(***************************************************************************)
EXTENDS Integers, FiniteSets

CONSTANTS Conns,            \* sockets that dial the broker, each once
          MaxConnections,   \* ListenerConfig.MaxConnections; 0 is no limit
          NoConn

ASSUME ListenerAssumption ==
    /\ NoConn \notin Conns
    /\ MaxConnections \in Nat

VARIABLES
    started,       \* Listener.started
    listening,     \* the listening socket is open
    cancelled,     \* the accept loop's context
    accept,        \* where the accept loop is
    accepted,      \* the socket it has in its hands, or NoConn
    sock,          \* socket -> its state
    serving,       \* socket -> where its goroutine is
    connections,   \* Listener.connections
    connCount,     \* Listener.connCount
    wg,            \* Listener.wg
    stop,          \* where Stop is
    unvisited      \* connections Range has still to visit

acceptVars == <<accept, accepted>>
countVars  == <<connections, connCount, wg>>
stopVars   == <<started, listening, cancelled, stop, unvisited>>
listenerVars == <<acceptVars, sock, serving, countVars, stopVars>>

ListenerTypeOK ==
    /\ started \in BOOLEAN /\ listening \in BOOLEAN /\ cancelled \in BOOLEAN
    /\ accept \in {"none", "accepting", "accepted", "stored", "done"}
    /\ accepted \in Conns \cup {NoConn}
    /\ sock \in [Conns -> {"idle", "dialled", "accepted", "open", "closed"}]
    /\ serving \in [Conns -> {"none", "serving", "returned", "deleted", "counted", "done"}]
    /\ connections \in SUBSET Conns
    /\ connCount \in Nat /\ wg \in Nat
    /\ stop \in {"idle", "close", "range", "wait", "clean", "timedOut"}
    /\ unvisited \in SUBSET Conns

ListenerInit ==
    /\ started = FALSE /\ listening = FALSE /\ cancelled = FALSE
    /\ accept = "none" /\ accepted = NoConn
    /\ sock = [c \in Conns |-> "idle"]
    /\ serving = [c \in Conns |-> "none"]
    /\ connections = {} /\ connCount = 0 /\ wg = 0
    /\ stop = "idle" /\ unvisited = {}
----------------------------------------------------------------------------
(***************************************************************************)
(* Start and the accept loop.                                              *)
(***************************************************************************)
\* A failed bind leaves everything as it was, so only success is a step.
Start ==
    /\ ~started /\ stop = "idle"
    /\ started' = TRUE /\ listening' = TRUE
    /\ accept' = "accepting" /\ wg' = wg + 1
    /\ UNCHANGED <<cancelled, accepted, sock, serving, connections, connCount,
                   stop, unvisited>>

\* The kernel completes the handshake and keeps the socket for Accept.
Dial(c) ==
    /\ listening /\ sock[c] = "idle"
    /\ sock' = [sock EXCEPT ![c] = "dialled"]
    /\ UNCHANGED <<acceptVars, serving, countVars, stopVars>>

\* Whether the context was cancelled meanwhile is not looked at.
Accept(c) ==
    /\ accept = "accepting" /\ listening /\ sock[c] = "dialled"
    /\ accept' = "accepted" /\ accepted' = c
    /\ sock' = [sock EXCEPT ![c] = "accepted"]
    /\ UNCHANGED <<serving, countVars, stopVars>>

\* Mutant: the error of a closed listener is taken for a temporary one.
AcceptRetries ==
    /\ accept = "accepting" /\ cancelled /\ listening
    /\ accept' = "done" /\ wg' = wg - 1
    /\ UNCHANGED <<accepted, sock, serving, connections, connCount, stopVars>>

\* Accept fails once Stop has closed the socket, and the loop returns; any
\* other error ends the loop only when the context is cancelled.
AcceptFails ==
    /\ accept = "accepting" /\ (cancelled \/ ~listening)
    /\ accept' = "done" /\ wg' = wg - 1
    /\ UNCHANGED <<accepted, sock, serving, connections, connCount, stopVars>>

\* Mutant: one connection too many.
AtLimitPlusOne == MaxConnections > 0 /\ connCount > MaxConnections

AtLimit == MaxConnections > 0 /\ connCount >= MaxConnections

RefuseAtLimit ==
    /\ accept = "accepted" /\ AtLimit
    /\ sock' = [sock EXCEPT ![accepted] = "closed"]
    /\ accept' = "accepting" /\ accepted' = NoConn
    /\ UNCHANGED <<serving, countVars, stopVars>>

StoreConnection ==
    /\ accept = "accepted" /\ ~AtLimit
    /\ connections' = connections \cup {accepted}
    /\ sock' = [sock EXCEPT ![accepted] = "open"]
    /\ accept' = "stored"
    /\ UNCHANGED <<accepted, serving, connCount, wg, stopVars>>

\* Mutant: a connection is counted only when it goes.
ServeUncounted ==
    /\ accept = "stored"
    /\ wg' = wg + 1
    /\ serving' = [serving EXCEPT ![accepted] = "serving"]
    /\ accept' = "accepting" /\ accepted' = NoConn
    /\ UNCHANGED <<sock, connections, connCount, stopVars>>

ServeConnection ==
    /\ accept = "stored"
    /\ connCount' = connCount + 1 /\ wg' = wg + 1
    /\ serving' = [serving EXCEPT ![accepted] = "serving"]
    /\ accept' = "accepting" /\ accepted' = NoConn
    /\ UNCHANGED <<sock, connections, stopVars>>
----------------------------------------------------------------------------
(***************************************************************************)
(* A connection's goroutine.  Its deferred calls run last in, first out.   *)
(***************************************************************************)
\* Close, for a reason of the connection's own.
ConnectionCloses(c) ==
    /\ serving[c] = "serving" /\ sock[c] = "open"
    /\ sock' = [sock EXCEPT ![c] = "closed"]
    /\ UNCHANGED <<acceptVars, serving, countVars, stopVars>>

\* Serve returns after the read loop, the write loop and teardown.
ServeReturns(c) ==
    /\ serving[c] = "serving" /\ sock[c] = "closed"
    /\ serving' = [serving EXCEPT ![c] = "returned"]
    /\ UNCHANGED <<acceptVars, sock, countVars, stopVars>>

Forget(c) ==
    /\ serving[c] = "returned"
    /\ connections' = connections \ {c}
    /\ serving' = [serving EXCEPT ![c] = "deleted"]
    /\ UNCHANGED <<acceptVars, sock, connCount, wg, stopVars>>

CountDown(c) ==
    /\ serving[c] = "deleted"
    /\ connCount' = connCount - 1
    /\ serving' = [serving EXCEPT ![c] = "counted"]
    /\ UNCHANGED <<acceptVars, sock, connections, wg, stopVars>>

Done(c) ==
    /\ serving[c] = "counted"
    /\ wg' = wg - 1
    /\ serving' = [serving EXCEPT ![c] = "done"]
    /\ UNCHANGED <<acceptVars, sock, connections, connCount, stopVars>>
----------------------------------------------------------------------------
(***************************************************************************)
(* Stop.                                                                   *)
(***************************************************************************)
StopCancels ==
    /\ stop = "idle" /\ started
    /\ cancelled' = TRUE /\ stop' = "close"
    /\ UNCHANGED <<acceptVars, sock, serving, countVars, started, listening, unvisited>>

\* Mutant: the listening socket is left open while the connections are closed.
StopLeavesListener ==
    /\ stop = "close"
    /\ stop' = "range" /\ unvisited' = connections
    /\ UNCHANGED <<acceptVars, sock, serving, countVars, started, listening, cancelled>>

\* The kernel resets what it still kept for Accept.
StopClosesListener ==
    /\ stop = "close"
    /\ listening' = FALSE
    /\ sock' = [c \in Conns |-> IF sock[c] = "dialled" THEN "closed" ELSE sock[c]]
    /\ stop' = "range" /\ unvisited' = connections
    /\ UNCHANGED <<acceptVars, serving, countVars, started, cancelled>>

\* Range visits what the map held when it began, unless it is gone by then, and
\* may or may not visit what is stored meanwhile.
StopVisits(c) ==
    /\ stop = "range" /\ c \in connections
    /\ sock' = [sock EXCEPT ![c] = "closed"]
    /\ unvisited' = unvisited \ {c}
    /\ UNCHANGED <<acceptVars, serving, countVars, started, listening, cancelled, stop>>

StopRangeEnds ==
    /\ stop = "range" /\ unvisited \cap connections = {}
    /\ stop' = "wait"
    /\ UNCHANGED <<acceptVars, sock, serving, countVars, started, listening,
                   cancelled, unvisited>>

StopReturns ==
    /\ stop = "wait"
    /\ \/ wg = 0 /\ stop' = "clean"
       \/ stop' = "timedOut"         \* ShutdownTimeout
    /\ started' = FALSE
    /\ UNCHANGED <<acceptVars, sock, serving, countVars, listening, cancelled, unvisited>>
----------------------------------------------------------------------------
AcceptLoop == AcceptFails \/ RefuseAtLimit \/ StoreConnection \/ ServeConnection
Goroutine(c) == ServeReturns(c) \/ Forget(c) \/ CountDown(c) \/ Done(c)
Stopping ==
    \/ StopClosesListener
    \/ \E c \in Conns : StopVisits(c)
    \/ StopRangeEnds \/ StopReturns

\* What goes on between Start and Stop, and while Stop runs; module Server calls
\* the two.
Listening ==
    \/ AcceptLoop \/ Stopping
    \/ \E c \in Conns : Dial(c) \/ Accept(c) \/ ConnectionCloses(c) \/ Goroutine(c)
----------------------------------------------------------------------------
(***************************************************************************)
(* Properties.                                                             *)
(***************************************************************************)
\* The limit is checked and counted in separate steps while connections come
\* and go, and still no more than MaxConnections are ever held.
LimitHolds ==
    MaxConnections > 0 =>
        /\ Cardinality(connections) <= MaxConnections
        /\ connCount <= MaxConnections

\* Stop closes every live connection: when it has returned, by its timeout too,
\* and the accept loop has ended, no connection is open any more.
StopClosesAll ==
    stop \in {"clean", "timedOut"} /\ accept = "done" =>
        \A c \in Conns : sock[c] # "open"

\* How far the code is from that: Stop leaves at most one connection open, the
\* one the accept loop had in its hands when the listening socket was closed,
\* which can slip past Range and is then served although Stop has returned.
OneSlipsPast ==
    stop \in {"wait", "clean", "timedOut"} =>
        Cardinality({c \in Conns : sock[c] \in {"accepted", "open"}}) <= 1
============================================================================
