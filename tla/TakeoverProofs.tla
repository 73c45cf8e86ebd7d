--------------------------- MODULE TakeoverProofs ---------------------------
(***************************************************************************)
(* Theorems about Takeover, for any number of connections.                 *)
(***************************************************************************)
EXTENDS Takeover, TLAPS

USE TakeoverAssumption DEF TakeoverAssumption, storeVars, OptConn
----------------------------------------------------------------------------
(***************************************************************************)
(* Types.  That a will is published at most once needs to know that it has *)
(* not been published before teardown reaches it.                          *)
(***************************************************************************)
WillInv == \A c \in Conns :
    pc[c] \notin {"cleanup", "deleting", "marking", "ended"} => wills[c] = 0

TypeInv == TypeOK /\ WillInv

\* The handshake up to the CONNACK.
LEMMA ConnectType ==
    ASSUME TypeInv, NEW c \in Conns,
           Refuse(c) \/ GetSession(c) \/ Connect(c)
    PROVE  TypeInv'
<1> USE DEF TypeInv, TypeOK, WillInv, Goto, Handshake, Serving, Teardown, Over
<1>1. CASE Refuse(c)
  BY <1>1 DEF Refuse, CloseConn
<1>2. CASE GetSession(c)
  BY <1>2 DEF GetSession
<1>3. CASE UnsubscribeAll(c)
  BY <1>3 DEF UnsubscribeAll
<1>4. CASE DeleteOld(c)
  BY <1>4 DEF DeleteOld
<1>5. CASE PutNew(c)
  BY <1>5 DEF PutNew
<1>6. CASE ResumeLookup(c)
  BY <1>6 DEF ResumeLookup, Lookup
<1>7. CASE Resume(c)
  BY <1>7 DEF Resume, Release
<1>8. CASE Register(c)
  BY <1>8 DEF Register
<1>9. CASE RegisterSink(c)
  BY <1>9 DEF RegisterSink
<1> QED BY <1>1, <1>2, <1>3, <1>4, <1>5, <1>6, <1>7, <1>8, <1>9 DEF Connect

\* From the CONNACK to the end of service.
LEMMA ServeType ==
    ASSUME TypeInv, NEW c \in Conns,
           \/ WriteConnack(c) \/ ConnackFails(c) \/ Displace(c)
           \/ ClientDisconnects(c) \/ ConnectionBreaks(c)
           \/ UpdateLookup(c) \/ Subscribe(c)
    PROVE  TypeInv'
<1> USE DEF TypeInv, TypeOK, WillInv, Goto, Handshake, Serving, Teardown, Over
<1>1. CASE WriteConnack(c)
  BY <1>1 DEF WriteConnack
<1>2. CASE ConnackFails(c)
  BY <1>2 DEF ConnackFails, CloseConn
<1>3. CASE Displace(c)
  BY <1>3 DEF Displace, CloseConn
<1>4. CASE ClientDisconnects(c)
  BY <1>4 DEF ClientDisconnects, CloseConn
<1>5. CASE ConnectionBreaks(c)
  BY <1>5 DEF ConnectionBreaks, CloseConn
<1>6. CASE UpdateLookup(c)
  BY <1>6 DEF UpdateLookup, Lookup, CloseConn
<1>7. CASE Subscribe(c)
  BY <1>7 DEF Subscribe, SetSubscribed, Release
<1> QED BY <1>1, <1>2, <1>3, <1>4, <1>5, <1>6, <1>7

\* Teardown: the will is where the count could leave its range.
LEMMA DisconnectType ==
    ASSUME TypeInv, NEW c \in Conns, Disconnect(c)
    PROVE  TypeInv'
<1> USE DEF TypeInv, TypeOK, WillInv, Goto, Handshake, Serving, Teardown, Over
<1>1. CASE UnregisterSink(c)
  BY <1>1 DEF UnregisterSink
<1>2. CASE Unregister(c)
  BY <1>2 DEF Unregister
<1>3. CASE PublishWill(c)
  <2>1. wills[c] = 0
    BY <1>3 DEF PublishWill
  <2> QED BY <1>3, <2>1 DEF PublishWill
<1>4. CASE CleanupIndex(c)
  BY <1>4 DEF CleanupIndex
<1>5. CASE DeleteSession(c)
  BY <1>5 DEF DeleteSession
<1>6. CASE MarkLookup(c)
  BY <1>6 DEF MarkLookup, Lookup
<1>7. CASE MarkDisconnected(c)
  BY <1>7 DEF MarkDisconnected, Release
<1> QED BY <1>1, <1>2, <1>3, <1>4, <1>5, <1>6, <1>7 DEF Disconnect

\* One step of any connection.
LEMMA TypeStep == TypeInv /\ [Next]_vars => TypeInv'
<1> SUFFICES ASSUME TypeInv, [Next]_vars PROVE TypeInv'
  OBVIOUS
<1>1. ASSUME NEW c \in Conns, Refuse(c) \/ GetSession(c) \/ Connect(c) PROVE TypeInv'
  BY <1>1, ConnectType
<1>2. ASSUME NEW c \in Conns,
             \/ WriteConnack(c) \/ ConnackFails(c) \/ Displace(c)
             \/ ClientDisconnects(c) \/ ConnectionBreaks(c)
             \/ UpdateLookup(c) \/ Subscribe(c)
      PROVE  TypeInv'
  BY <1>2, ServeType
<1>3. ASSUME NEW c \in Conns, Disconnect(c) PROVE TypeInv'
  BY <1>3, DisconnectType
<1>4. CASE UNCHANGED vars
  BY <1>4 DEF vars, TypeInv, TypeOK, WillInv
<1> QED BY <1>1, <1>2, <1>3, <1>4 DEF Next, Serve

\* No connection has begun.
LEMMA TypeInit == Init => TypeInv
<1> SUFFICES ASSUME Init PROVE TypeInv
  OBVIOUS
<1>1. index \in BOOLEAN
  BY Zenon DEF Init
<1> QED BY <1>1 DEF Init, TypeInv, TypeOK, WillInv

\* Type correctness; in particular no connection ever publishes its will twice.
THEOREM TypeCorrect == Spec => []TypeOK
<1>1. TypeInv => TypeOK
  BY DEF TypeInv
<1> QED BY <1>1, TypeInit, TypeStep, PTL DEF Spec
----------------------------------------------------------------------------
(***************************************************************************)
(* NoDeafClient is inductive, given the types: only RegisterSink takes the *)
(* sink from a connection that is up, and whoever takes it keeps a         *)
(* reference to that connection until it has closed it.                    *)
(***************************************************************************)
Waiting == {"connack", "displace", "gaveUp"}

\* Steps that neither move the sink nor bring a connection up.
LEMMA FrameNoDeaf ==
    ASSUME NoDeafClient,
           UNCHANGED <<sink, displaced>>,
           \A d \in Conns : pc[d] \in Waiting => pc'[d] \in Waiting,
           \A d \in Conns : Up(d)' => Up(d)
    PROVE  NoDeafClient'
BY DEF NoDeafClient, Waiting

\* The four steps that do.
LEMMA SinkNoDeaf ==
    ASSUME TypeInv, NoDeafClient, NEW c \in Conns,
           RegisterSink(c) \/ WriteConnack(c) \/ Displace(c) \/ UnregisterSink(c)
    PROVE  NoDeafClient'
<1> USE DEF TypeInv, TypeOK, NoDeafClient, Up, Goto, Serving
<1>1. CASE RegisterSink(c)
  BY <1>1 DEF RegisterSink
<1>2. CASE WriteConnack(c)
  BY <1>2 DEF WriteConnack
<1>3. CASE Displace(c)
  BY <1>3 DEF Displace, CloseConn
<1>4. CASE UnregisterSink(c)
  BY <1>4 DEF UnregisterSink
<1> QED BY <1>1, <1>2, <1>3, <1>4

\* One step of any connection.
LEMMA NoDeafStep == TypeInv /\ NoDeafClient /\ [Next]_vars => NoDeafClient'
<1> SUFFICES ASSUME TypeInv, NoDeafClient, [Next]_vars PROVE NoDeafClient'
  OBVIOUS
<1>1. ASSUME NEW c \in Conns,
             RegisterSink(c) \/ WriteConnack(c) \/ Displace(c) \/ UnregisterSink(c)
      PROVE  NoDeafClient'
  BY <1>1, SinkNoDeaf
<1>2. ASSUME NEW c \in Conns,
             \/ Refuse(c) \/ GetSession(c) \/ UnsubscribeAll(c) \/ DeleteOld(c)
             \/ PutNew(c) \/ ResumeLookup(c) \/ Resume(c) \/ Register(c)
      PROVE  NoDeafClient'
  BY <1>2, FrameNoDeaf
     DEF Refuse, GetSession, UnsubscribeAll, DeleteOld, PutNew, ResumeLookup, Resume,
         Register, CloseConn, Goto, Up, Serving, Waiting, TypeInv, TypeOK
<1>3. ASSUME NEW c \in Conns,
             ConnackFails(c) \/ ClientDisconnects(c) \/ ConnectionBreaks(c)
      PROVE  NoDeafClient'
  BY <1>3, FrameNoDeaf
     DEF ConnackFails, ClientDisconnects, ConnectionBreaks, CloseConn, Goto, Up,
         Serving, Waiting, TypeInv, TypeOK
<1>4. ASSUME NEW c \in Conns, UpdateLookup(c) \/ Subscribe(c) PROVE NoDeafClient'
  BY <1>4, FrameNoDeaf
     DEF UpdateLookup, Subscribe, CloseConn, Goto, Up, Serving, Waiting, TypeInv, TypeOK
<1>5. ASSUME NEW c \in Conns,
             \/ Unregister(c) \/ PublishWill(c) \/ CleanupIndex(c)
             \/ DeleteSession(c) \/ MarkLookup(c) \/ MarkDisconnected(c)
      PROVE  NoDeafClient'
  BY <1>5, FrameNoDeaf
     DEF Unregister, PublishWill, CleanupIndex, DeleteSession, MarkLookup,
         MarkDisconnected, Goto, Up, Serving, Waiting, TypeInv, TypeOK
<1>6. CASE UNCHANGED vars
  BY <1>6 DEF vars, NoDeafClient, Up
<1> QED BY <1>1, <1>2, <1>3, <1>4, <1>5, <1>6 DEF Next, Serve, Connect, Disconnect

\* However many connections use one identifier, and however their handshakes and
\* teardowns interleave: an open connection owns the sink, or the connection that
\* took the sink from it still refers to it.
THEOREM NobodyDeaf == Spec => []NoDeafClient
<1>1. Init => NoDeafClient
  BY DEF Init, NoDeafClient, Up, Serving
<1>2. TypeInv /\ NoDeafClient /\ [Next]_vars => (TypeInv /\ NoDeafClient)'
  BY TypeStep, NoDeafStep
<1> QED BY <1>1, <1>2, TypeInit, PTL DEF Spec
----------------------------------------------------------------------------
(***************************************************************************)
(* SubscriptionsIndexed: whoever empties the index deletes the stored      *)
(* session after it.                                                       *)
(***************************************************************************)
Deleting == {"delete", "deleting"}

IndexInv ==
    entry # NoConn /\ subs[entry] =>
        index \/ strayed \/ \E c \in Conns : pc[c] \in Deleting

\* Steps that touch neither the sessions nor the index.
LEMMA FrameIndex ==
    ASSUME IndexInv, UNCHANGED <<entry, subs, index, strayed>>,
           \A d \in Conns : pc[d] \in Deleting => pc'[d] \in Deleting
    PROVE  IndexInv'
BY DEF IndexInv

\* The steps that do.
LEMMA StoreIndex ==
    ASSUME TypeInv, IndexInv, NEW c \in Conns,
           \/ UnsubscribeAll(c) \/ DeleteOld(c) \/ PutNew(c) \/ Subscribe(c)
           \/ CleanupIndex(c) \/ DeleteSession(c)
    PROVE  IndexInv'
<1> USE DEF TypeInv, TypeOK, Goto, Deleting
<1>1. CASE UnsubscribeAll(c)
  <2>1. pc'[c] \in Deleting
    BY <1>1 DEF UnsubscribeAll
  <2> QED BY <2>1 DEF IndexInv
<1>2. CASE DeleteOld(c)
  BY <1>2 DEF DeleteOld, IndexInv
<1>3. CASE PutNew(c)
  BY <1>3 DEF PutNew, IndexInv
<1>4. CASE Subscribe(c)
  <2>1. \A d \in Conns : pc[d] \in Deleting => pc'[d] \in Deleting
    BY <1>4 DEF Subscribe
  <2>2. entry' = entry /\ subs' = [subs EXCEPT ![held[c]] = (pc[c] = "subscribing")]
    BY <1>4 DEF Subscribe, SetSubscribed
  <2>3. CASE pc[c] = "subscribing"
    <3>1. index'
      BY <1>4, <2>3 DEF Subscribe
    <3> QED BY <3>1 DEF IndexInv
  <2>4. CASE pc[c] = "unsubscribing" /\ held[c] # entry
    <3>1. strayed'
      BY <1>4, <2>4 DEF Subscribe
    <3> QED BY <3>1 DEF IndexInv
  <2>5. CASE pc[c] = "unsubscribing" /\ held[c] = entry
    <3>1. entry # NoConn => ~subs'[entry]
      BY <2>2, <2>5
    <3> QED BY <2>2, <3>1 DEF IndexInv
  <2> QED BY <1>4, <2>3, <2>4, <2>5 DEF Subscribe
<1>5. CASE CleanupIndex(c)
  <2>1. pc'[c] \in Deleting
    BY <1>5 DEF CleanupIndex
  <2> QED BY <2>1 DEF IndexInv
<1>6. CASE DeleteSession(c)
  BY <1>6 DEF DeleteSession, IndexInv
<1> QED BY <1>1, <1>2, <1>3, <1>4, <1>5, <1>6

\* One step of any connection.
LEMMA IndexStep == TypeInv /\ IndexInv /\ [Next]_vars => IndexInv'
<1> SUFFICES ASSUME TypeInv, IndexInv, [Next]_vars PROVE IndexInv'
  OBVIOUS
<1>1. ASSUME NEW c \in Conns,
             \/ Refuse(c) \/ GetSession(c) \/ ResumeLookup(c) \/ Resume(c) \/ Register(c)
             \/ RegisterSink(c) \/ WriteConnack(c) \/ ConnackFails(c) \/ Displace(c)
      PROVE  IndexInv'
  BY <1>1, FrameIndex
     DEF Refuse, GetSession, ResumeLookup, Resume, Register, RegisterSink, WriteConnack,
         ConnackFails, Displace, Goto, TypeInv, TypeOK, Deleting
<1>2. ASSUME NEW c \in Conns,
             ClientDisconnects(c) \/ ConnectionBreaks(c) \/ UpdateLookup(c)
      PROVE  IndexInv'
  BY <1>2, FrameIndex
     DEF ClientDisconnects, ConnectionBreaks, UpdateLookup, Goto, TypeInv, TypeOK, Deleting
<1>3. ASSUME NEW c \in Conns,
             \/ UnregisterSink(c) \/ Unregister(c) \/ PublishWill(c)
             \/ MarkLookup(c) \/ MarkDisconnected(c)
      PROVE  IndexInv'
  BY <1>3, FrameIndex
     DEF UnregisterSink, Unregister, PublishWill, MarkLookup, MarkDisconnected, Goto,
         TypeInv, TypeOK, Deleting
<1>4. CASE UNCHANGED vars
  BY <1>4, FrameIndex DEF vars
<1> QED BY <1>1, <1>2, <1>3, <1>4, StoreIndex DEF Next, Serve, Connect, Disconnect

\* However many connections use one identifier: a subscription that the stored
\* session remembers is in the index when nothing is under way, unless an
\* UNSUBSCRIBE has changed a session that was replaced.
THEOREM NoSubscriptionForgotten == Spec => []SubscriptionsIndexed
<1>1. Init => IndexInv
  BY DEF Init, IndexInv
<1>2. TypeInv /\ IndexInv => SubscriptionsIndexed
  BY DEF IndexInv, SubscriptionsIndexed, Settled, Over, Deleting
<1>3. TypeInv /\ IndexInv /\ [Next]_vars => (TypeInv /\ IndexInv)'
  BY TypeStep, IndexStep
<1> QED BY <1>1, <1>2, <1>3, TypeInit, PTL DEF Spec
----------------------------------------------------------------------------
(***************************************************************************)
(* NothingLeaks.                                                           *)
(***************************************************************************)
\* Whoever is in the registry or in the sink map has yet to take itself out.
OwnerInv ==
    /\ \A c \in Conns : registry = c =>
          pc[c] \in {"registerSink", "connack", "displace", "gaveUp", "unregister"} \cup Serving
    /\ \A c \in Conns : sink = c =>
          pc[c] \in {"connack", "displace", "gaveUp"} \cup Serving

\* A connection that will register itself, or that has taken itself out as the
\* registered one and has yet to delete or to mark the stored session.
Responsible(c) ==
    \/ pc[c] \in {"unsubscribeAll", "delete", "put", "resume", "resuming", "register",
                  "will", "cleanup", "deleting"}
    \/ pc[c] = "marking" /\ held[c] = entry /\ ~clean[c]

\* Somebody is always responsible for a session that is marked connected, and
\* for any session if all clients ask for clean ones.
EntryInv ==
    entry # NoConn /\ (live[entry] \/ \A c \in Conns : clean[c]) =>
        registry # NoConn \/ \E c \in Conns : Responsible(c)

LeakInv == OwnerInv /\ EntryInv

\* CONNECT: from the lookup of the session to the registration.
LEMMA ConnectLeak ==
    ASSUME TypeInv, LeakInv, NEW c \in Conns,
           Refuse(c) \/ GetSession(c) \/ Connect(c)
    PROVE  LeakInv'
<1> USE DEF TypeInv, TypeOK, LeakInv, OwnerInv, EntryInv, Responsible, Goto, Serving
<1>1. CASE Refuse(c)
  BY <1>1 DEF Refuse
<1>2. CASE GetSession(c)
  BY <1>2 DEF GetSession
<1>3. CASE UnsubscribeAll(c)
  BY <1>3 DEF UnsubscribeAll
<1>4. CASE DeleteOld(c)
  BY <1>4 DEF DeleteOld
<1>5. CASE PutNew(c)
  BY <1>5 DEF PutNew
<1>6. CASE ResumeLookup(c)
  BY <1>6 DEF ResumeLookup, Lookup
<1>7. CASE Resume(c)
  BY <1>7 DEF Resume, Release
<1>8. CASE Register(c)
  BY <1>8 DEF Register
<1>9. CASE RegisterSink(c)
  BY <1>9 DEF RegisterSink
<1> QED BY <1>1, <1>2, <1>3, <1>4, <1>5, <1>6, <1>7, <1>8, <1>9 DEF Connect

\* From the CONNACK to the end of service.
LEMMA ServeLeak ==
    ASSUME TypeInv, LeakInv, NEW c \in Conns,
           \/ WriteConnack(c) \/ ConnackFails(c) \/ Displace(c)
           \/ ClientDisconnects(c) \/ ConnectionBreaks(c)
           \/ UpdateLookup(c) \/ Subscribe(c)
    PROVE  LeakInv'
<1> USE DEF TypeInv, TypeOK, LeakInv, OwnerInv, EntryInv, Responsible, Goto, Serving
<1>1. CASE WriteConnack(c)
  BY <1>1 DEF WriteConnack
<1>2. CASE ConnackFails(c)
  BY <1>2 DEF ConnackFails
<1>3. CASE Displace(c)
  BY <1>3 DEF Displace
<1>4. CASE ClientDisconnects(c) \/ ConnectionBreaks(c)
  BY <1>4 DEF ClientDisconnects, ConnectionBreaks
<1>5. CASE UpdateLookup(c)
  BY <1>5 DEF UpdateLookup, Lookup
<1>6. CASE Subscribe(c)
  BY <1>6 DEF Subscribe, Release
<1> QED BY <1>1, <1>2, <1>3, <1>4, <1>5, <1>6

\* Teardown.
LEMMA DisconnectLeak ==
    ASSUME TypeInv, LeakInv, NEW c \in Conns, Disconnect(c)
    PROVE  LeakInv'
<1> USE DEF TypeInv, TypeOK, LeakInv, OwnerInv, EntryInv, Responsible, Goto, Serving
<1>1. CASE UnregisterSink(c)
  BY <1>1 DEF UnregisterSink
<1>2. CASE Unregister(c)
  BY <1>2 DEF Unregister
<1>3. CASE PublishWill(c)
  BY <1>3 DEF PublishWill
<1>4. CASE CleanupIndex(c)
  BY <1>4 DEF CleanupIndex
<1>5. CASE DeleteSession(c)
  BY <1>5 DEF DeleteSession
<1>6. CASE MarkLookup(c)
  BY <1>6 DEF MarkLookup, Lookup
<1>7. CASE MarkDisconnected(c)
  BY <1>7 DEF MarkDisconnected, Release
<1> QED BY <1>1, <1>2, <1>3, <1>4, <1>5, <1>6, <1>7 DEF Disconnect

\* However many connections use one identifier and in whatever order they end:
\* afterwards only one that gave up at its CONNACK can still be registered, and
\* if none is, a session that is left is a persistent client's and is marked
\* disconnected.
THEOREM NothingLeftBehind == Spec => []NothingLeaks
<1>1. Init => LeakInv
  BY DEF Init, LeakInv, OwnerInv, EntryInv
<1>2. TypeInv /\ LeakInv => NothingLeaks
  BY DEF TypeInv, TypeOK, OptConn, LeakInv, OwnerInv, EntryInv, Responsible, Serving,
         Over, NothingLeaks
<1>3. TypeInv /\ LeakInv /\ [Next]_vars => LeakInv'
  <2> SUFFICES ASSUME TypeInv, LeakInv, [Next]_vars PROVE LeakInv'
    OBVIOUS
  <2>1. CASE UNCHANGED vars
    BY <2>1 DEF vars, LeakInv, OwnerInv, EntryInv, Responsible
  <2> QED BY <2>1, ConnectLeak, ServeLeak, DisconnectLeak DEF Next, Serve
<1>4. TypeInv /\ LeakInv /\ [Next]_vars => (TypeInv /\ LeakInv)'
  BY <1>3, TypeStep
<1> QED BY <1>1, <1>2, <1>4, TypeInit, PTL DEF Spec
----------------------------------------------------------------------------
(***************************************************************************)
(* The safety half of WillRule: the first reason for closing is kept, and  *)
(* WillInv places the publication after it.                                *)
(***************************************************************************)
Graceful(c) == reason[c] = "disconnect" /\ wills[c] = 0

\* A DISCONNECT comes before any teardown.
DisconnectInv == \A c \in Conns : reason[c] = "disconnect" => wills[c] = 0

\* No step publishes the will of a graceful close, or changes its reason.
LEMMA GracefulStep ==
    ASSUME TypeInv, NEW c \in Conns, Graceful(c), [Next]_vars
    PROVE  Graceful(c)'
<1> USE DEF Graceful, TypeInv, TypeOK
<1>1. ASSUME NEW d \in Conns, Refuse(d) \/ GetSession(d) \/ Connect(d) PROVE Graceful(c)'
  BY <1>1 DEF Refuse, GetSession, Connect, UnsubscribeAll, DeleteOld, PutNew, ResumeLookup,
         Resume, Register, RegisterSink, CloseConn
<1>2. ASSUME NEW d \in Conns,
             \/ WriteConnack(d) \/ ConnackFails(d) \/ Displace(d) \/ ClientDisconnects(d)
             \/ ConnectionBreaks(d) \/ UpdateLookup(d) \/ Subscribe(d)
      PROVE  Graceful(c)'
  BY <1>2 DEF WriteConnack, ConnackFails, Displace, ClientDisconnects, ConnectionBreaks,
         UpdateLookup, Subscribe, CloseConn
<1>3. ASSUME NEW d \in Conns, Disconnect(d) PROVE Graceful(c)'
  BY <1>3 DEF Disconnect, UnregisterSink, Unregister, PublishWill, WillDue, CleanupIndex,
         DeleteSession, MarkLookup, MarkDisconnected
<1>4. CASE UNCHANGED vars
  BY <1>4 DEF vars
<1> QED BY <1>1, <1>2, <1>3, <1>4 DEF Next, Serve

\* Only a connection that is up, and has published nothing, takes a DISCONNECT.
LEMMA DisconnectStep == TypeInv /\ DisconnectInv /\ [Next]_vars => DisconnectInv'
<1> SUFFICES ASSUME TypeInv, DisconnectInv, [Next]_vars, NEW c \in Conns,
                    reason'[c] = "disconnect"
             PROVE  wills'[c] = 0
  BY DEF DisconnectInv
<1>1. CASE reason[c] = "disconnect"
  BY <1>1, GracefulStep DEF Graceful, DisconnectInv
<1>2. CASE reason[c] # "disconnect"
  <2>1. ClientDisconnects(c)
    BY <1>2 DEF Next, Serve, Connect, Disconnect, Refuse, GetSession, UnsubscribeAll,
           DeleteOld, PutNew, ResumeLookup, Resume, Register, RegisterSink, WriteConnack,
           ConnackFails, Displace, ClientDisconnects, ConnectionBreaks, UpdateLookup,
           Subscribe, UnregisterSink, Unregister, PublishWill, CleanupIndex, DeleteSession,
           MarkLookup, MarkDisconnected, CloseConn, vars, TypeInv, TypeOK
  <2> QED BY <2>1 DEF ClientDisconnects, TypeInv, WillInv
<1> QED BY <1>1, <1>2

\* A DISCONNECT takes the will with it, whatever fails afterwards and whoever
\* takes the connection over.
THEOREM DisconnectKeepsWill == Spec => NoWillAfterDisconnect
<1> SUFFICES ASSUME NEW c \in Conns
             PROVE  Spec => [](reason[c] = "disconnect" => [](wills[c] = 0))
  BY DEF NoWillAfterDisconnect
<1>1. Init => DisconnectInv
  BY DEF Init, DisconnectInv
<1>2. DisconnectInv => (reason[c] = "disconnect" => Graceful(c))
  BY DEF DisconnectInv, Graceful
<1>3. TypeInv /\ Graceful(c) /\ [Next]_vars => Graceful(c)'
  BY GracefulStep
<1>4. Graceful(c) => wills[c] = 0
  BY DEF Graceful
<1> QED BY <1>1, <1>2, <1>3, <1>4, TypeInit, TypeStep, DisconnectStep, PTL DEF Spec
----------------------------------------------------------------------------
(***************************************************************************)
(* The other half of WillRule promises that a will does go out.  Its safety *)
(* core: teardown cannot get past the will without deciding it.            *)
(***************************************************************************)
PastWill == {"cleanup", "deleting", "marking", "ended"}

\* A connection that is torn down has been closed, for a reason that stays.
ReasonInv == \A c \in Conns : pc[c] \in Teardown \cup {"ended"} => reason[c] # "none"

\* A connection that has got past its will has published it, once, unless its
\* client said DISCONNECT: also when it was superseded, and whatever reasons to close
\* arrived after the first.
WillDecided == \A c \in Conns : pc[c] \in PastWill =>
    /\ reason[c] # "none"
    /\ wills[c] = IF reason[c] = "disconnect" THEN 0 ELSE 1

VerdictInv == ReasonInv /\ WillDecided

\* The handshake neither reaches teardown nor touches a connection that has.
LEMMA ConnectVerdict ==
    ASSUME TypeInv, VerdictInv, NEW d \in Conns, Refuse(d) \/ GetSession(d) \/ Connect(d)
    PROVE  VerdictInv'
  BY DEF TypeInv, TypeOK, VerdictInv, ReasonInv, WillDecided, PastWill, Teardown, Goto,
         Refuse, GetSession, Connect, UnsubscribeAll, DeleteOld, PutNew, ResumeLookup,
         Resume, Register, RegisterSink, CloseConn

\* While a connection is served, only its reason changes, and only the first time.
LEMMA ServeVerdict ==
    ASSUME TypeInv, VerdictInv, NEW d \in Conns,
           \/ WriteConnack(d) \/ ConnackFails(d) \/ Displace(d) \/ ClientDisconnects(d)
           \/ ConnectionBreaks(d) \/ UpdateLookup(d) \/ Subscribe(d)
    PROVE  VerdictInv'
<1> USE DEF TypeInv, TypeOK, VerdictInv, ReasonInv, WillDecided, PastWill, Teardown, Goto,
        CloseConn
<1>1. CASE WriteConnack(d) \/ ConnackFails(d)
  BY <1>1 DEF WriteConnack, ConnackFails
<1>2. CASE Displace(d)
  BY <1>2 DEF Displace
<1>3. CASE ClientDisconnects(d) \/ ConnectionBreaks(d)
  BY <1>3 DEF ClientDisconnects, ConnectionBreaks, Serving
<1>4. CASE UpdateLookup(d) \/ Subscribe(d)
  BY <1>4 DEF UpdateLookup, Subscribe
<1> QED BY <1>1, <1>2, <1>3, <1>4

\* Teardown publishes the will, none having been published before, or keeps it.
LEMMA DisconnectVerdict ==
    ASSUME TypeInv, VerdictInv, NEW d \in Conns, Disconnect(d)
    PROVE  VerdictInv'
<1> USE DEF TypeInv, TypeOK, VerdictInv, ReasonInv, WillDecided, PastWill, Teardown, Goto
<1>1. CASE UnregisterSink(d) \/ Unregister(d)
  BY <1>1 DEF UnregisterSink, Unregister
<1>2. CASE PublishWill(d)
  BY <1>2 DEF PublishWill, WillDue, WillInv
<1>3. CASE CleanupIndex(d) \/ DeleteSession(d) \/ MarkLookup(d) \/ MarkDisconnected(d)
  BY <1>3 DEF CleanupIndex, DeleteSession, MarkLookup, MarkDisconnected
<1> QED BY <1>1, <1>2, <1>3 DEF Disconnect

\* No connection ends with its will undecided: when teardown is past it, the will has
\* been published exactly once if the connection was lost or taken over, and not at all
\* if its client said DISCONNECT.
THEOREM NoWillForgotten == Spec => []WillDecided
<1>1. Init => VerdictInv
  BY DEF Init, VerdictInv, ReasonInv, WillDecided, PastWill, Teardown
<1>2. TypeInv /\ VerdictInv /\ [Next]_vars => VerdictInv'
  <2> SUFFICES ASSUME TypeInv, VerdictInv, [Next]_vars PROVE VerdictInv'
    OBVIOUS
  <2>1. CASE UNCHANGED vars
    BY <2>1 DEF vars, VerdictInv, ReasonInv, WillDecided
  <2> QED BY <2>1, ConnectVerdict, ServeVerdict, DisconnectVerdict DEF Next, Serve
<1>3. VerdictInv => WillDecided
  BY DEF VerdictInv
<1> QED BY <1>1, <1>2, <1>3, TypeInit, TypeStep, PTL DEF Spec
============================================================================
