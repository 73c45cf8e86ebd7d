------------------------------ MODULE Takeover ------------------------------
(***************************************************************************)
(* Several connections that use ONE client identifier, from CONNECT to     *)
(* teardown: Connection.Serve (pkg/infrastructure/transport/connection.go) *)
(* driving ConnectionService.Connect and Disconnect                        *)
(* (pkg/application/connection/service.go), the session store, the client  *)
(* registry, the sink map and the subscription index.                      *)
(*                                                                         *)
(* Each of those stores has its own lock and none is held across a call,   *)
(* so one step here is one call on one store; everything in between may    *)
(* interleave with the other connections' goroutines.  SessionStore.Update *)
(* is two steps: it finds the entry, releases the map, and only then locks *)
(* the entry, which may no longer be the stored one.                       *)
(*                                                                         *)
(* A session entry is named after the connection that Put it.  The client  *)
(* has one topic filter it may subscribe to.                               *)
(***************************************************************************)
EXTENDS Naturals, FiniteSets

CONSTANTS Conns,         \* connections that use the identifier, each once
          Subscribers,   \* those whose client sends SUBSCRIBE and UNSUBSCRIBE
          NoConn

ASSUME TakeoverAssumption ==
    /\ NoConn \notin Conns
    /\ Subscribers \subseteq Conns

VARIABLES
    \* the stores, at this client identifier
    entry,      \* SessionStore: the stored entry, or NoConn
    live,       \* entry -> its session is marked connected
    subs,       \* entry -> its session holds the filter
    index,      \* SubscriptionIndex holds the filter for this client
    registry,   \* ClientRegistry: the registered client, or NoConn
    sink,       \* PublishingService's sink map, or NoConn
    \* each connection
    clean,      \* CleanSession of its CONNECT
    pc,         \* where its serving goroutine is
    reason,     \* closeReason; "none" while the connection is open
    held,       \* the session entry it has looked up
    displaced,  \* ConnectResult.Displaced
    wills,      \* how often its will has been published
    \* history, for the properties only
    strayed     \* an UNSUBSCRIBE has changed a session that was no longer stored

storeVars == <<entry, live, subs>>
vars == <<storeVars, index, registry, sink, clean, strayed, pc, reason, held, displaced, wills>>

Handshake == {"unsubscribeAll", "delete", "put", "resume", "resuming",
              "register", "registerSink", "connack", "displace"}
Serving   == {"live", "subscribing", "unsubscribing"}
Teardown  == {"unregister", "will", "supersededWill", "cleanup", "deleting", "marking"}
Over      == {"refused", "gaveUp", "ended"}

OptConn == Conns \cup {NoConn}

TypeOK ==
    /\ entry \in OptConn /\ registry \in OptConn /\ sink \in OptConn
    /\ live \in [Conns -> BOOLEAN] /\ subs \in [Conns -> BOOLEAN]
    /\ index \in BOOLEAN
    /\ clean \in [Conns -> BOOLEAN]
    /\ pc \in [Conns -> {"idle"} \cup Handshake \cup Serving \cup Teardown \cup Over]
    /\ reason \in [Conns -> {"none", "abnormal", "takenOver", "disconnect"}]
    /\ held \in [Conns -> OptConn] /\ displaced \in [Conns -> OptConn]
    /\ wills \in [Conns -> {0, 1}]
    /\ strayed \in BOOLEAN

Init ==
    /\ entry = NoConn /\ registry = NoConn /\ sink = NoConn
    /\ live = [c \in Conns |-> FALSE] /\ subs = [c \in Conns |-> FALSE]
    /\ index = FALSE
    /\ clean \in [Conns -> BOOLEAN]
    /\ pc = [c \in Conns |-> "idle"]
    /\ reason = [c \in Conns |-> "none"]
    /\ held = [c \in Conns |-> NoConn] /\ displaced = [c \in Conns |-> NoConn]
    /\ wills = [c \in Conns |-> 0]
    /\ strayed = FALSE

Goto(c, l) == pc' = [pc EXCEPT ![c] = l]

\* SessionStore.Update finds the stored entry, and lets go of it when done.
Lookup(c)  == held' = [held EXCEPT ![c] = entry]
Release(c) == held' = [held EXCEPT ![c] = NoConn]

\* Mutant: without closeOnce the last reason wins.
CloseAgain(c, r) == reason' = [reason EXCEPT ![c] = r]

\* Connection.Close: the first reason is the one that is kept.
CloseConn(c, r) ==
    reason' = IF reason[c] = "none" THEN [reason EXCEPT ![c] = r] ELSE reason
----------------------------------------------------------------------------
(***************************************************************************)
(* CONNECT.                                                                *)
(***************************************************************************)
\* Everything that ends the handshake before a store is touched: no CONNECT
\* in time, another packet first, and the refusals of Connect.
Refuse(c) ==
    /\ pc[c] = "idle"
    /\ CloseConn(c, "abnormal")
    /\ Goto(c, "refused")
    /\ UNCHANGED <<storeVars, index, registry, sink, clean, strayed, held,
                   displaced, wills>>

\* resolveSession begins by reading the store.
GetSession(c) ==
    /\ pc[c] = "idle"
    /\ Goto(c, IF entry = NoConn THEN "put"
               ELSE IF clean[c] \/ clean[entry] THEN "unsubscribeAll"
               ELSE "resume")
    /\ UNCHANGED <<storeVars, index, registry, sink, clean, strayed, reason,
                   held, displaced, wills>>

UnsubscribeAll(c) ==
    /\ pc[c] = "unsubscribeAll"
    /\ index' = FALSE
    /\ Goto(c, "delete")
    /\ UNCHANGED <<storeVars, registry, sink, clean, strayed, reason, held,
                   displaced, wills>>

DeleteOld(c) ==
    /\ pc[c] = "delete"
    /\ entry' = NoConn
    /\ Goto(c, "put")
    /\ UNCHANGED <<live, subs, index, registry, sink, clean, strayed, reason,
                   held, displaced, wills>>

PutNew(c) ==
    /\ pc[c] = "put"
    /\ entry' = c
    /\ live' = [live EXCEPT ![c] = TRUE]
    /\ subs' = [subs EXCEPT ![c] = FALSE]
    /\ Goto(c, "register")
    /\ UNCHANGED <<index, registry, sink, clean, strayed, reason, held,
                   displaced, wills>>

\* Update(Resume), whose error - no session - is ignored.
ResumeLookup(c) ==
    /\ pc[c] = "resume"
    /\ Lookup(c)
    /\ Goto(c, IF entry = NoConn THEN "register" ELSE "resuming")
    /\ UNCHANGED <<storeVars, index, registry, sink, clean, strayed, reason,
                   displaced, wills>>

Resume(c) ==
    /\ pc[c] = "resuming"
    /\ live' = [live EXCEPT ![held[c]] = TRUE]
    /\ Release(c)
    /\ Goto(c, "register")
    /\ UNCHANGED <<entry, subs, index, registry, sink, clean, strayed, reason,
                   displaced, wills>>

Register(c) ==
    /\ pc[c] = "register"
    /\ registry' = c
    /\ Goto(c, "registerSink")
    /\ UNCHANGED <<storeVars, index, sink, clean, strayed, reason, held,
                   displaced, wills>>

RegisterSink(c) ==
    /\ pc[c] = "registerSink"
    /\ displaced' = [displaced EXCEPT ![c] = sink]
    /\ sink' = c
    /\ Goto(c, "connack")
    /\ UNCHANGED <<storeVars, index, registry, clean, strayed, reason, held, wills>>

\* The CONNACK is out, and c.client is set.
WriteConnack(c) ==
    /\ pc[c] = "connack" /\ reason[c] = "none"
    /\ Goto(c, "displace")
    /\ UNCHANGED <<storeVars, index, registry, sink, clean, strayed, reason,
                   held, displaced, wills>>

\* The peer is gone, or the connection has been taken over already and its
\* socket is closed.  c.client is nil, so teardown releases nothing and the
\* connection this one displaced is never closed.
ConnackFails(c) ==
    /\ pc[c] = "connack"
    /\ CloseConn(c, "abnormal")
    /\ Goto(c, "gaveUp")
    /\ UNCHANGED <<storeVars, index, registry, sink, clean, strayed, held,
                   displaced, wills>>

\* Mutant: the displaced connection is left alone.
DisplaceNobody(c) ==
    /\ pc[c] = "displace"
    /\ displaced' = [displaced EXCEPT ![c] = NoConn]
    /\ Goto(c, "live")
    /\ UNCHANGED <<storeVars, index, registry, sink, clean, strayed, reason,
                   held, wills>>

\* Displaced.Close.  ResumeSession, which follows, is the subject of Delivery.
Displace(c) ==
    /\ pc[c] = "displace"
    /\ IF displaced[c] # NoConn
       THEN CloseConn(displaced[c], "takenOver")
       ELSE UNCHANGED reason
    /\ displaced' = [displaced EXCEPT ![c] = NoConn]
    /\ Goto(c, "live")
    /\ UNCHANGED <<storeVars, index, registry, sink, clean, strayed, held, wills>>
----------------------------------------------------------------------------
(***************************************************************************)
(* The connection is up.                                                   *)
(***************************************************************************)
\* A DISCONNECT packet.
ClientDisconnects(c) ==
    /\ pc[c] = "live" /\ reason[c] = "none"
    /\ CloseConn(c, "disconnect")
    /\ UNCHANGED <<storeVars, index, registry, sink, clean, strayed, pc, held,
                   displaced, wills>>

\* A read or write error, a missed keep-alive, a protocol violation or the
\* listener stopping: any goroutine may call Close, at any time.
ConnectionBreaks(c) ==
    /\ pc[c] \in Serving \cup {"displace"}
    /\ CloseConn(c, "abnormal")
    /\ UNCHANGED <<storeVars, index, registry, sink, clean, strayed, pc, held,
                   displaced, wills>>

\* SubscriptionService.Subscribe and Unsubscribe: Update finds the entry.
\* Without one the error closes the connection.
UpdateLookup(c) ==
    /\ c \in Subscribers
    /\ pc[c] = "live" /\ reason[c] = "none"
    /\ Lookup(c)
    /\ \/ /\ entry = NoConn
          /\ CloseConn(c, "abnormal")
          /\ UNCHANGED pc
       \/ /\ entry # NoConn
          /\ \E l \in {"subscribing", "unsubscribing"} : Goto(c, l)
          /\ UNCHANGED reason
    /\ UNCHANGED <<storeVars, index, registry, sink, clean, strayed, displaced,
                   wills>>

\* Session.Subscribe and Unsubscribe, of the session that was found.
SetSubscribed(c, yes) == subs' = [subs EXCEPT ![held[c]] = yes]

\* ... and the session and the index change under that entry's lock.
Subscribe(c) ==
    /\ pc[c] \in {"subscribing", "unsubscribing"}
    /\ SetSubscribed(c, pc[c] = "subscribing")
    /\ index' = (pc[c] = "subscribing")
    /\ strayed' = (strayed \/ (pc[c] = "unsubscribing" /\ held[c] # entry))
    /\ Release(c)
    /\ Goto(c, "live")
    /\ UNCHANGED <<entry, live, registry, sink, clean, reason, displaced, wills>>
----------------------------------------------------------------------------
(***************************************************************************)
(* Teardown, once the reader has noticed that the connection is closed.    *)
(***************************************************************************)
\* Mutant: the sink is removed whoever it belongs to.
UnregisterAnySink(c) ==
    /\ pc[c] = "live" /\ reason[c] # "none"
    /\ sink' = NoConn
    /\ Goto(c, "unregister")
    /\ UNCHANGED <<storeVars, index, registry, clean, strayed, reason, held,
                   displaced, wills>>

UnregisterSink(c) ==
    /\ pc[c] = "live" /\ reason[c] # "none"
    /\ sink' = IF sink = c THEN NoConn ELSE sink
    /\ Goto(c, "unregister")
    /\ UNCHANGED <<storeVars, index, registry, clean, strayed, reason, held,
                   displaced, wills>>

\* Mutant: the registered client is removed before the identities are compared.
UnregisterAny(c) ==
    /\ pc[c] = "unregister"
    /\ registry' = NoConn
    /\ Goto(c, IF registry = c THEN "will" ELSE "supersededWill")
    /\ UNCHANGED <<storeVars, index, sink, clean, strayed, reason, held,
                   displaced, wills>>

\* Disconnect begins with the identity-checked Unregister, whose answer decides
\* what happens after the will.
Unregister(c) ==
    /\ pc[c] = "unregister"
    /\ registry' = IF registry = c THEN NoConn ELSE registry
    /\ Goto(c, IF registry = c THEN "will" ELSE "supersededWill")
    /\ UNCHANGED <<storeVars, index, sink, clean, strayed, reason, held,
                   displaced, wills>>

\* Client.Disconnect: only a DISCONNECT packet takes the will with it.
WillDue(c) == reason[c] # "disconnect"

\* Mutant: teardown is reached twice and Client.Disconnect is not idempotent.
PublishWillTwice(c) ==
    /\ pc[c] \in {"will", "supersededWill"}
    /\ wills' = IF WillDue(c) THEN [wills EXCEPT ![c] = @ + 1] ELSE wills
    /\ \/ Goto(c, IF pc[c] = "will" THEN "cleanup" ELSE "ended")
       \/ UNCHANGED pc
    /\ UNCHANGED <<storeVars, index, registry, sink, clean, strayed, reason,
                   held, displaced>>

\* The will goes out unless the close was graceful, superseded or not.
PublishWill(c) ==
    /\ pc[c] \in {"will", "supersededWill"}
    /\ wills' = IF WillDue(c) THEN [wills EXCEPT ![c] = @ + 1] ELSE wills
    /\ Goto(c, IF pc[c] = "will" THEN "cleanup" ELSE "ended")
    /\ UNCHANGED <<storeVars, index, registry, sink, clean, strayed, reason,
                   held, displaced>>

\* A clean session takes its subscriptions with it ...
CleanupIndex(c) ==
    /\ pc[c] = "cleanup" /\ clean[c]
    /\ index' = FALSE
    /\ Goto(c, "deleting")
    /\ UNCHANGED <<storeVars, registry, sink, clean, strayed, reason, held,
                   displaced, wills>>

\* Mutant: another connection's session is left alone.
DeleteOwnSession(c) ==
    /\ pc[c] = "deleting"
    /\ entry' = IF entry = c THEN NoConn ELSE entry
    /\ Goto(c, "ended")
    /\ UNCHANGED <<live, subs, index, registry, sink, clean, strayed, reason,
                   held, displaced, wills>>

DeleteSession(c) ==
    /\ pc[c] = "deleting"
    /\ entry' = NoConn
    /\ Goto(c, "ended")
    /\ UNCHANGED <<live, subs, index, registry, sink, clean, strayed, reason,
                   held, displaced, wills>>

\* ... a persistent one is marked disconnected, if it is still there.
MarkLookup(c) ==
    /\ pc[c] = "cleanup" /\ ~clean[c]
    /\ Lookup(c)
    /\ Goto(c, IF entry = NoConn THEN "ended" ELSE "marking")
    /\ UNCHANGED <<storeVars, index, registry, sink, clean, strayed, reason,
                   displaced, wills>>

MarkDisconnected(c) ==
    /\ pc[c] = "marking"
    /\ live' = [live EXCEPT ![held[c]] = FALSE]
    /\ Release(c)
    /\ Goto(c, "ended")
    /\ UNCHANGED <<entry, subs, index, registry, sink, clean, strayed, reason,
                   displaced, wills>>
----------------------------------------------------------------------------
Connect(c) ==
    \/ UnsubscribeAll(c) \/ DeleteOld(c) \/ PutNew(c)
    \/ ResumeLookup(c) \/ Resume(c)
    \/ Register(c) \/ RegisterSink(c)

Disconnect(c) ==
    \/ UnregisterSink(c) \/ Unregister(c) \/ PublishWill(c)
    \/ CleanupIndex(c) \/ DeleteSession(c) \/ MarkLookup(c) \/ MarkDisconnected(c)

\* The serving goroutine, once it has a CONNECT and while nobody talks to it.
Serve(c) ==
    \/ Connect(c)
    \/ WriteConnack(c) \/ ConnackFails(c) \/ Displace(c)
    \/ Subscribe(c)
    \/ Disconnect(c)

Next == \E c \in Conns :
    \/ Refuse(c) \/ GetSession(c)
    \/ Serve(c)
    \/ UpdateLookup(c)
    \/ ClientDisconnects(c) \/ ConnectionBreaks(c)

(***************************************************************************)
(* Goroutines run: a call on a store returns, and a socket write returns   *)
(* within WriteTimeout, one way or the other.  Nothing is assumed of the   *)
(* clients: none has to connect, to speak or to leave.                     *)
(***************************************************************************)
Fairness == \A c \in Conns : WF_vars(Serve(c))

Spec == Init /\ [][Next]_vars /\ Fairness
----------------------------------------------------------------------------
(***************************************************************************)
(* Properties.                                                             *)
(***************************************************************************)
Up(c) == pc[c] \in {"connack", "displace"} \cup Serving /\ reason[c] = "none"

\* No connection is left deaf: while it is open it owns the sink, or the one
\* that took the sink from it is about to close it - or lost its own CONNACK,
\* and with it the only reference to the connection it displaced.
NoDeafClient ==
    \A c \in Conns : Up(c) =>
        \/ sink = c
        \/ \E d \in Conns : displaced[d] = c /\ pc[d] \in {"connack", "displace", "gaveUp"}

\* When every connection is over, nothing is registered but what a connection
\* that gave up at its CONNACK left behind: it may still be the registered
\* client and the sink, and nobody else may.  With no client registered, a
\* session that is kept is marked disconnected, and none is kept if all asked
\* for a clean one.
NothingLeaks ==
    (\A c \in Conns : pc[c] \in Over \cup {"idle"}) =>
        /\ registry # NoConn => pc[registry] = "gaveUp"
        /\ sink # NoConn => pc[sink] = "gaveUp"
        /\ entry # NoConn /\ registry = NoConn =>
              ~live[entry] /\ \E c \in Conns : ~clean[c]

\* The will is a verdict on how the connection ended: never published once a
\* DISCONNECT has closed it, whatever fails afterwards, and published in the
\* end when an accepted connection was closed for any other reason.
NoWillAfterDisconnect == \A c \in Conns :
    [](reason[c] = "disconnect" => [](wills[c] = 0))

WillRule ==
    /\ NoWillAfterDisconnect
    /\ \A c \in Conns :
          (pc[c] \in Serving /\ reason[c] \in {"abnormal", "takenOver"}) ~> wills[c] = 1

\* A takeover ends the connection it displaces, if the CONNACK gets through.
DisplacedEnds == \A c \in Conns :
    (\E d \in Conns : displaced[d] = c) ~>
        \/ pc[c] \in Over
        \/ \E d \in Conns : displaced[d] = c /\ pc[d] = "gaveUp"

\* Nothing is under way on any connection.
Settled == \A c \in Conns :
    \/ pc[c] \in Over \cup {"idle"}
    \/ pc[c] = "live" /\ reason[c] = "none"

\* A teardown that races a reconnect does not tear down the session of the
\* connection that superseded it: an open connection that is the registered
\* client AND owns the sink has a session, once nothing is under way.
SessionSurvives ==
    Settled => \A c \in Conns :
        pc[c] = "live" /\ registry = c /\ sink = c => entry # NoConn

\* A subscription the stored session remembers is one the index knows of, so its
\* messages arrive: whatever teardown or CONNECT empties the index deletes the
\* stored session after it.  The exception is an UNSUBSCRIBE that found its
\* session before a takeover replaced it and changes the shared index after.
SubscriptionsIndexed ==
    Settled /\ ~strayed => (entry # NoConn /\ subs[entry] => index)
============================================================================
