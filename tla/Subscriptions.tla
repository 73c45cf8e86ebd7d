--------------------------- MODULE Subscriptions ---------------------------
(***************************************************************************)
(* What the subscription index promises: it is the set of subscriptions,   *)
(* at most one for each client and filter, with the QoS last granted       *)
(* (persistence.ISubscriptionIndex).  Module TopicIndex implements it.     *)
(***************************************************************************)
EXTENDS Topics

CONSTANTS Clients, Filters

QoS   == {0, 1}
NoQoS == -1

VARIABLE granted   \* client -> filter -> the QoS granted, or NoQoS

Init == granted = [c \in Clients |-> [f \in Filters |-> NoQoS]]

Subscribe(f, c, q) == granted' = [granted EXCEPT ![c][f] = q]

Unsubscribe(f, c) == granted' = [granted EXCEPT ![c][f] = NoQoS]

UnsubscribeAll(c) == granted' = [granted EXCEPT ![c] = [f \in Filters |-> NoQoS]]

Next == \E c \in Clients :
    \/ \E f \in Filters : Unsubscribe(f, c) \/ \E q \in QoS : Subscribe(f, c, q)
    \/ UnsubscribeAll(c)

Spec == Init /\ [][Next]_granted

\* Who gets a message: every client with a matching filter, once, at the
\* highest QoS among them.
Highest(S) == IF S = {} THEN NoQoS ELSE CHOOSE q \in S : \A r \in S : r <= q

Recipients(t) == [c \in Clients |-> Highest({granted[c][f] : f \in {g \in Filters : Matches(g, t)}})]
============================================================================
