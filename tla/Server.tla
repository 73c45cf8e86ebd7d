------------------------------- MODULE Server -------------------------------
(***************************************************************************)
(* The broker process (cmd/server/server.go, cmd/main.go): Start, the      *)
(* background loops, the admin HTTP server, and Stop, which takes them     *)
(* down in order - the listener (module Listener), the admin server, the   *)
(* loops - and waits for each of them, but only so long.                   *)
(*                                                                         *)
(* After Stop the model goes on: what a timeout left running shows.        *)
(***************************************************************************)
EXTENDS Listener

CONSTANT AdminEnabled    \* AdminConfig.Enabled

ASSUME ServerAssumption == AdminEnabled \in BOOLEAN

VARIABLES
    server,         \* where Start, run or Stop is
    admin,          \* the admin server
    request,        \* an admin request is being answered (bound: one at a time)
    loop,           \* where backgroundLoops is
    runCancelled,   \* the loops' context
    failed,         \* Stop's firstErr is set
    late            \* Stop gave up waiting for the loops

adminVars  == <<admin, request>>
loopVars   == <<loop, runCancelled>>
resultVars == <<failed, late>>
vars == <<listenerVars, server, adminVars, loopVars, resultVars>>

TypeOK ==
    /\ ListenerTypeOK
    /\ server \in {"idle", "bound", "looping", "up", "stopListener", "stopAdmin",
                   "stopLoops", "stopped"}
    /\ admin \in {"off", "starting", "serving", "broken", "shutdown"}
    /\ request \in BOOLEAN
    /\ loop \in {"none", "select", "retransmit", "sample", "done"}
    /\ runCancelled \in BOOLEAN /\ failed \in BOOLEAN /\ late \in BOOLEAN

Init ==
    /\ ListenerInit
    /\ server = "idle" /\ admin = "off" /\ request = FALSE
    /\ loop = "none" /\ runCancelled = FALSE
    /\ failed = FALSE /\ late = FALSE
----------------------------------------------------------------------------
(***************************************************************************)
(* Start.  The listener accepts before the rest is there.                  *)
(***************************************************************************)
StartListener ==
    /\ server = "idle"
    /\ Start
    /\ server' = "bound"
    /\ UNCHANGED <<adminVars, loopVars, resultVars>>

StartLoops ==
    /\ server = "bound"
    /\ loop' = "select"
    /\ server' = "looping"
    /\ UNCHANGED <<listenerVars, adminVars, runCancelled, resultVars>>

\* startAdminServer sets adminServer; ListenAndServe runs in a goroutine.
StartAdmin ==
    /\ server = "looping"
    /\ admin' = IF AdminEnabled THEN "starting" ELSE "off"
    /\ server' = "up"
    /\ UNCHANGED <<listenerVars, request, loopVars, resultVars>>

\* Without its address the admin server is gone and the broker stays.
AdminListens ==
    /\ admin = "starting"
    /\ admin' \in {"serving", "broken"}
    /\ UNCHANGED <<listenerVars, server, request, loopVars, resultVars>>

AdminRequest ==
    /\ admin = "serving" /\ ~request
    /\ request' = TRUE
    /\ UNCHANGED <<listenerVars, server, admin, loopVars, resultVars>>

AdminAnswers ==
    /\ request
    /\ request' = FALSE
    /\ UNCHANGED <<listenerVars, server, admin, loopVars, resultVars>>
----------------------------------------------------------------------------
(***************************************************************************)
(* backgroundLoops.                                                        *)
(***************************************************************************)
\* A ticker fires.  If the context is cancelled as well, select takes either.
LoopWorks ==
    /\ loop = "select"
    /\ loop' \in {"retransmit", "sample"}
    /\ UNCHANGED <<listenerVars, server, adminVars, runCancelled, resultVars>>

\* RetransmitExpired or sampleGauges returns.
LoopReturns ==
    /\ loop \in {"retransmit", "sample"}
    /\ loop' = "select"
    /\ UNCHANGED <<listenerVars, server, adminVars, runCancelled, resultVars>>

LoopStops ==
    /\ loop = "select" /\ runCancelled
    /\ loop' = "done"
    /\ UNCHANGED <<listenerVars, server, adminVars, runCancelled, resultVars>>
----------------------------------------------------------------------------
(***************************************************************************)
(* Stop.                                                                   *)
(***************************************************************************)
\* A signal: run calls Stop, which begins with Listener.Stop.
StopListener ==
    /\ server = "up"
    /\ StopCancels
    /\ server' = "stopListener"
    /\ UNCHANGED <<adminVars, loopVars, resultVars>>

\* Listener.Stop has returned, without an error even after its timeout.
\* Shutdown closes the admin listener, or keeps it from ever listening ...
StopAdmin ==
    /\ server = "stopListener" /\ stop \in {"clean", "timedOut"}
    /\ admin' = IF admin = "off" THEN "off" ELSE "shutdown"
    /\ server' = "stopAdmin"
    /\ UNCHANGED <<listenerVars, request, loopVars, resultVars>>

\* ... and waits for the requests, ten seconds at most.  Then cancel.
CancelLoops ==
    /\ server = "stopAdmin"
    /\ \/ ~request /\ UNCHANGED failed
       \/ failed' = TRUE
    /\ runCancelled' = TRUE
    /\ server' = "stopLoops"
    /\ UNCHANGED <<listenerVars, adminVars, loop, late>>

\* Mutant: Stop does not wait for the loops.
StoppedAtOnce ==
    /\ server = "stopLoops"
    /\ server' = "stopped"
    /\ UNCHANGED <<listenerVars, adminVars, loopVars, resultVars>>

\* The loops have returned, or five seconds have passed.
Stopped ==
    /\ server = "stopLoops"
    /\ \/ loop = "done" /\ UNCHANGED late
       \/ late' = TRUE
    /\ server' = "stopped"
    /\ UNCHANGED <<listenerVars, adminVars, loopVars, failed>>
----------------------------------------------------------------------------
Starting == StartLoops \/ StartAdmin
ServerStopping == StopAdmin \/ CancelLoops \/ Stopped

Next ==
    \/ Listening /\ UNCHANGED <<server, adminVars, loopVars, resultVars>>
    \/ StartListener \/ Starting
    \/ AdminListens \/ AdminRequest \/ AdminAnswers
    \/ LoopWorks \/ LoopReturns \/ LoopStops
    \/ StopListener \/ ServerStopping

(***************************************************************************)
(* The accept loop, the goroutines and a Stop that was called keep         *)
(* running; what they wait for in Stop has a timeout.  RetransmitExpired   *)
(* and sampleGauges return, and a select that finds its context cancelled  *)
(* time and again takes that branch in the end, because it chooses at      *)
(* random.  Nobody has to dial, to hang up or to send a signal.            *)
(***************************************************************************)
Alone(A) == A /\ UNCHANGED <<server, adminVars, loopVars, resultVars>>

Fairness ==
    /\ WF_vars(Alone(AcceptLoop))
    /\ \A c \in Conns : WF_vars(Alone(Goroutine(c)))
    /\ WF_vars(Alone(Stopping))
    /\ WF_vars(Starting) /\ WF_vars(ServerStopping)
    /\ WF_vars(LoopReturns) /\ SF_vars(LoopStops)

Spec == Init /\ [][Next]_vars /\ Fairness
----------------------------------------------------------------------------
(***************************************************************************)
(* Properties.                                                             *)
(***************************************************************************)
\* A connection is being served, or the accept loop may yet start one.
ConnectionsRun == accept # "done" \/ \E c \in Conns : serving[c] \notin {"none", "done"}

\* Nothing uses a store once shutdown reports that it is done, except behind a
\* wait that timed out: after a clean stop no goroutine is left, no socket is open
\* and both of the listener's tables are empty; the loops have returned unless
\* they were late, and so has every admin request unless Stop failed.
QuietAfterStop ==
    server = "stopped" =>
        /\ stop = "clean" =>
              /\ ~ConnectionsRun
              /\ connections = {} /\ connCount = 0
              /\ \A c \in Conns : sock[c] # "open"
        /\ ~late => loop = "done"
        /\ ~failed => ~request

\* Every shutdown ends: Stop returns whoever hangs, and after it the accept loop,
\* the loops and every goroutine whose connection is closed.
ShutsDown ==
    server = "stopListener" ~>
        /\ server = "stopped" /\ loop = "done" /\ accept = "done"
        /\ \A c \in Conns : serving[c] \in {"none", "done"} \/ sock[c] = "open"
============================================================================
