------------------------------ MODULE Retained ------------------------------
(***************************************************************************)
(* Retained messages meeting live ones: PublishingService.Publish and      *)
(* DeliverRetained (pkg/application/publishing/service.go) over the        *)
(* retained store and the subscription index, with SUBSCRIBE and           *)
(* UNSUBSCRIBE running on other goroutines.                                *)
(*                                                                         *)
(* The index is taken as what module Subscriptions promises, the QoS left  *)
(* out, and a message counts as received when deliver or sendPublish is    *)
(* called for it: what becomes of it then is the subject of Delivery.      *)
(***************************************************************************)
EXTENDS Topics, FiniteSets

CONSTANTS Clients, Filters, TopicNames,
          Publishers,    \* connections that publish
          MaxMessages    \* bound: messages published

ASSUME RetainedAssumption ==
    /\ \A f \in Filters : IsTopicFilter(f)
    /\ \A t \in TopicNames : IsTopicName(t)
    /\ MaxMessages \in Nat

VARIABLES
    retained,     \* RetainedStore: topic -> its retained message, or NoMsg
    subs,         \* SubscriptionIndex: client -> its filters
    log,          \* the messages published so far, in the order Publish began
    publishing,   \* publisher -> the message it is publishing, or NoMsg
    matched,      \* publisher -> index.Match has run
    fanout,       \* publisher -> the subscribers it has still to deliver to
    subscribing,  \* client -> the filter of the SUBSCRIBE in progress, or NoFilter
    looked,       \* client -> retained.Matching has run
    backlog,      \* client -> the retained messages it has still to get
    \* history, for the properties only
    live,         \* client -> message -> how often it got it as live traffic
    stored,       \* client -> messages it got as retained state
    due           \* message -> clients that have been subscribed to it all along

storeVars == <<retained, subs>>
pubVars   == <<log, publishing, matched, fanout>>
subVars   == <<subscribing, looked, backlog>>
vars == <<storeVars, pubVars, subVars, live, stored, due>>

NoMsg    == 0
NoFilter == <<>>
Message  == 1..MaxMessages
Kinds    == {"plain", "retain", "clear"}   \* clear: retain set, payload empty

\* What index.Match finds, given who holds which filters.
Subscribed(s, t) == {c \in Clients : \E f \in s[c] : Matches(f, t)}

\* A retained message is one that asked for it, is not empty, and is on the
\* topic it is stored under.
TypeOK ==
    /\ log \in Seq([topic : TopicNames, kind : Kinds])
    /\ retained \in [TopicNames -> 0..Len(log)]
    /\ \A t \in TopicNames :
          retained[t] # NoMsg => log[retained[t]] = [topic |-> t, kind |-> "retain"]
    /\ subs \in [Clients -> SUBSET Filters]
    /\ publishing \in [Publishers -> 0..Len(log)]
    /\ matched \in [Publishers -> BOOLEAN]
    /\ fanout \in [Publishers -> SUBSET Clients]
    /\ subscribing \in [Clients -> Filters \cup {NoFilter}]
    /\ looked \in [Clients -> BOOLEAN]
    /\ backlog \in [Clients -> SUBSET Message]
    /\ live \in [Clients -> [Message -> Nat]]
    /\ stored \in [Clients -> SUBSET Message]
    /\ due \in [Message -> SUBSET Clients]

Init ==
    /\ retained = [t \in TopicNames |-> NoMsg]
    /\ subs = [c \in Clients |-> {}]
    /\ log = <<>>
    /\ publishing = [p \in Publishers |-> NoMsg]
    /\ matched = [p \in Publishers |-> FALSE]
    /\ fanout = [p \in Publishers |-> {}]
    /\ subscribing = [c \in Clients |-> NoFilter]
    /\ looked = [c \in Clients |-> FALSE]
    /\ backlog = [c \in Clients |-> {}]
    /\ live = [c \in Clients |-> [m \in Message |-> 0]]
    /\ stored = [c \in Clients |-> {}]
    /\ due = [m \in Message |-> {}]
----------------------------------------------------------------------------
(***************************************************************************)
(* Publish.                                                                *)
(***************************************************************************)
\* Mutant: an empty retained payload is stored like any other.
RetentionOfEmpty(t, k, m) ==
    retained' = IF k = "plain" THEN retained ELSE [retained EXCEPT ![t] = m]

\* RetainedStore: a topic has one retained message, the last.
Store(t, m) == [retained EXCEPT ![t] = m]
Remove(t)   == [retained EXCEPT ![t] = NoMsg]

\* applyRetention.
Retention(t, k, m) ==
    retained' = CASE k = "plain"  -> retained
                  [] k = "retain" -> Store(t, m)
                  [] k = "clear"  -> Remove(t)

Publish(p, t, k) ==
    /\ publishing[p] = NoMsg /\ Len(log) < MaxMessages
    /\ LET m == Len(log) + 1 IN
          /\ Retention(t, k, m)
          /\ publishing' = [publishing EXCEPT ![p] = m]
          /\ due' = [due EXCEPT ![m] = Subscribed(subs, t)]
    /\ log' = Append(log, [topic |-> t, kind |-> k])
    /\ UNCHANGED <<subs, matched, fanout, subVars, live, stored>>

Match(p) ==
    /\ publishing[p] # NoMsg /\ ~matched[p]
    /\ matched' = [matched EXCEPT ![p] = TRUE]
    /\ fanout' = [fanout EXCEPT ![p] = Subscribed(subs, log[publishing[p]].topic)]
    /\ UNCHANGED <<storeVars, log, publishing, subVars, live, stored, due>>

\* One subscriber of the fan-out; Match returns them in no particular order.
DeliverLive(p) ==
    /\ \E c \in fanout[p] :
          /\ live' = [live EXCEPT ![c][publishing[p]] = @ + 1]
          /\ fanout' = [fanout EXCEPT ![p] = @ \ {c}]
    /\ UNCHANGED <<storeVars, log, publishing, matched, subVars, stored, due>>

\* Mutant: the publisher gets its PUBACK while the fan-out is under way.
PublishEndsEarly(p) ==
    /\ matched[p]
    /\ publishing' = [publishing EXCEPT ![p] = NoMsg]
    /\ matched' = [matched EXCEPT ![p] = FALSE]
    /\ fanout' = [fanout EXCEPT ![p] = {}]
    /\ UNCHANGED <<storeVars, log, subVars, live, stored, due>>

\* Publish returns, and handlePublish sends the PUBACK.
PublishEnds(p) ==
    /\ matched[p] /\ fanout[p] = {}
    /\ publishing' = [publishing EXCEPT ![p] = NoMsg]
    /\ matched' = [matched EXCEPT ![p] = FALSE]
    /\ UNCHANGED <<storeVars, log, fanout, subVars, live, stored, due>>
----------------------------------------------------------------------------
(***************************************************************************)
(* SUBSCRIBE and UNSUBSCRIBE.  A client's packets are handled one by one.  *)
(***************************************************************************)
\* Session and index change together under the session's lock.
Subscribe(c, f) ==
    /\ subscribing[c] = NoFilter
    /\ subs' = [subs EXCEPT ![c] = @ \cup {f}]
    /\ subscribing' = [subscribing EXCEPT ![c] = f]
    /\ UNCHANGED <<retained, pubVars, looked, backlog, live, stored, due>>

\* Mutant: the store is asked for the filter as if it were a topic.
MatchingExact(c) ==
    /\ subscribing[c] # NoFilter /\ ~looked[c]
    /\ looked' = [looked EXCEPT ![c] = TRUE]
    /\ backlog' = [backlog EXCEPT ![c] =
           {retained[t] : t \in {u \in TopicNames : u = subscribing[c]}} \ {NoMsg}]
    /\ UNCHANGED <<storeVars, pubVars, subscribing, live, stored, due>>

\* After the lock is released, DeliverRetained asks the store.
Matching(c) ==
    /\ subscribing[c] # NoFilter /\ ~looked[c]
    /\ looked' = [looked EXCEPT ![c] = TRUE]
    /\ backlog' = [backlog EXCEPT ![c] =
           {retained[t] : t \in {u \in TopicNames : Matches(subscribing[c], u)}} \ {NoMsg}]
    /\ UNCHANGED <<storeVars, pubVars, subscribing, live, stored, due>>

DeliverRetained(c) ==
    /\ \E m \in backlog[c] :
          /\ stored' = [stored EXCEPT ![c] = @ \cup {m}]
          /\ backlog' = [backlog EXCEPT ![c] = @ \ {m}]
    /\ UNCHANGED <<storeVars, pubVars, subscribing, looked, live, due>>

\* Subscribe returns, and handleSubscribe sends the SUBACK.
SubscribeEnds(c) ==
    /\ looked[c] /\ backlog[c] = {}
    /\ subscribing' = [subscribing EXCEPT ![c] = NoFilter]
    /\ looked' = [looked EXCEPT ![c] = FALSE]
    /\ UNCHANGED <<storeVars, pubVars, backlog, live, stored, due>>

Unsubscribe(c, f) ==
    /\ subscribing[c] = NoFilter /\ f \in subs[c]
    /\ subs' = [subs EXCEPT ![c] = @ \ {f}]
    /\ due' = [m \in Message |->
                 IF m <= Len(log) THEN due[m] \cap Subscribed(subs', log[m].topic)
                                  ELSE due[m]]
    /\ UNCHANGED <<retained, pubVars, subVars, live, stored>>
----------------------------------------------------------------------------
Next ==
    \/ \E p \in Publishers :
          \/ \E t \in TopicNames, k \in Kinds : Publish(p, t, k)
          \/ Match(p) \/ DeliverLive(p) \/ PublishEnds(p)
    \/ \E c \in Clients :
          \/ \E f \in Filters : Subscribe(c, f) \/ Unsubscribe(c, f)
          \/ Matching(c) \/ DeliverRetained(c) \/ SubscribeEnds(c)

Spec == Init /\ [][Next]_vars
----------------------------------------------------------------------------
(***************************************************************************)
(* Properties.                                                             *)
(***************************************************************************)
\* No gap between stored state and live traffic: Publish stores before it reads
\* the index and SUBSCRIBE writes the index before it reads the store, so when
\* neither is under way a subscriber has got the retained message of every topic
\* it is subscribed to, one way or the other.
NoGap ==
    \A t \in TopicNames : \A c \in Subscribed(subs, t) :
        /\ subscribing[c] = NoFilter
        /\ \A p \in Publishers : publishing[p] # NoMsg => log[publishing[p]].topic # t
        /\ retained[t] # NoMsg
        => retained[t] \in stored[c] \/ live[c][retained[t]] > 0

\* A PUBACK means that the fan-out is over: a client that was subscribed when
\* Publish began, and has been since, got the message exactly once as live
\* traffic, however many of its filters match.
AckedReached ==
    \A m \in 1..Len(log) :
        /\ \A c \in Clients : live[c][m] <= 1
        /\ m \notin {publishing[p] : p \in Publishers} =>
               \A c \in due[m] : live[c][m] = 1
============================================================================
