----------------------------- MODULE TopicIndex -----------------------------
(***************************************************************************)
(* The topic trie                                                          *)
(* (pkg/infrastructure/persistence/memory/subscription_index.go).          *)
(*                                                                         *)
(* A node is named by the levels that lead to it from the root <<>>, so    *)
(* the trie is a function from the nodes that exist to their subscribers.  *)
(* The children map and the two wildcard fields are one here: the last     *)
(* level of a node's name tells which of them holds it.  Every operation   *)
(* runs under the index's lock; UnsubscribeAll, which goes through a map   *)
(* in whatever order Go's range takes, is one step per filter with the     *)
(* lock held.                                                              *)
(***************************************************************************)
EXTENDS Topics, FiniteSets

CONSTANTS Clients,
          NoClient,
          Filters,      \* the filters clients subscribe to
          TopicNames    \* the topics messages are published on

ASSUME TopicIndexAssumption ==
    /\ NoClient \notin Clients
    /\ \A f \in Filters : f \in Seq(STRING) /\ IsTopicFilter(f)
    /\ \A t \in TopicNames : t \in Seq(STRING) /\ IsTopicName(t)

VARIABLES trie,               \* node -> client -> granted QoS, or NoQoS
          clientFilters,      \* client -> the filters it holds
          subscriptionCount,
          lockedFor,          \* the client whose UnsubscribeAll holds the lock, or NoClient
          left                \* the filters its loop has not come to

vars == <<trie, clientFilters, subscriptionCount, lockedFor, left>>

QoS   == {0, 1}
NoQoS == -1
Root  == <<>>

Subscribers == [Clients -> QoS \cup {NoQoS}]
NoSubscribers == [c \in Clients |-> NoQoS]

\* The nodes on the way from the root to a filter's own node.
Path(f) == {SubSeq(f, 1, k) : k \in 0..Len(f)}

TypeOK ==
    /\ Root \in DOMAIN trie
    /\ trie \in [DOMAIN trie -> Subscribers]
    /\ DOMAIN trie \subseteq {Root} \cup UNION {Path(f) : f \in Filters}
    /\ clientFilters \in [Clients -> SUBSET Filters]
    /\ subscriptionCount \in Nat
    /\ lockedFor \in Clients \cup {NoClient}
    /\ left \subseteq Filters

Init ==
    /\ trie = [n \in {Root} |-> NoSubscribers]
    /\ clientFilters = [c \in Clients |-> {}]
    /\ subscriptionCount = 0
    /\ lockedFor = NoClient /\ left = {}

Holds(f, c) == f \in DOMAIN trie /\ trie[f][c] # NoQoS
----------------------------------------------------------------------------
\* childFor creates the nodes that are missing.
WithPath(f) == [n \in DOMAIN trie \cup Path(f) |->
                  IF n \in DOMAIN trie THEN trie[n] ELSE NoSubscribers]

\* Mutant: a repeated subscription is counted again.
SubscribeCounts(f, c, q) ==
    /\ lockedFor = NoClient
    /\ trie' = [WithPath(f) EXCEPT ![f][c] = q]
    /\ subscriptionCount' = subscriptionCount + 1
    /\ clientFilters' = [clientFilters EXCEPT ![c] = @ \cup {f}]
    /\ UNCHANGED <<lockedFor, left>>

Subscribe(f, c, q) ==
    /\ lockedFor = NoClient
    /\ trie' = [WithPath(f) EXCEPT ![f][c] = q]
    /\ subscriptionCount' =
           IF Holds(f, c) THEN subscriptionCount ELSE subscriptionCount + 1
    /\ clientFilters' = [clientFilters EXCEPT ![c] = @ \cup {f}]
    /\ UNCHANGED <<lockedFor, left>>

Children(t, n) == {m \in DOMAIN t : Len(m) = Len(n) + 1 /\ SubSeq(m, 1, Len(n)) = n}

\* Mutant: a node is pruned as soon as nobody subscribes at it.
EmptiedLeafOnly(t, f, d) ==
    d > 0 /\ \A k \in d..Len(f) : t[SubSeq(f, 1, k)] = NoSubscribers

\* Mutant: nothing is ever pruned.
EmptiedNever(t, f, d) == FALSE

\* Mutant: pruning goes on to the root.
EmptiedRoot(t, f, d) ==
    \A k \in d..Len(f) :
        /\ t[SubSeq(f, 1, k)] = NoSubscribers
        /\ Children(t, SubSeq(f, 1, k)) \subseteq Path(f)

\* Pruning goes up the path of f while the node has no subscribers and no child
\* but the one just detached; depth 0, the root, always stays.
Emptied(t, f, d) ==
    /\ d > 0
    /\ \A k \in d..Len(f) :
          /\ t[SubSeq(f, 1, k)] = NoSubscribers
          /\ Children(t, SubSeq(f, 1, k)) \subseteq Path(f)

\* removeLocked on a trie; a detached node goes with all that is below it.
\* Without the node, or without c's subscription at it, nothing changes.
Removed(t, f, c) ==
    IF f \notin DOMAIN t \/ t[f][c] = NoQoS
    THEN t
    ELSE LET u == [t EXCEPT ![f][c] = NoQoS]
             tops == {SubSeq(f, 1, d) : d \in {e \in 0..Len(f) : Emptied(u, f, e)}}
             pruned == {n \in DOMAIN u : Path(n) \cap tops # {}}
         IN  [n \in DOMAIN u \ pruned |-> u[n]]

RemoveLocked(f, c) ==
    /\ trie' = Removed(trie, f, c)
    /\ subscriptionCount' =
           IF Holds(f, c) THEN subscriptionCount - 1 ELSE subscriptionCount

Unsubscribe(f, c) ==
    /\ lockedFor = NoClient
    /\ RemoveLocked(f, c)
    /\ clientFilters' = [clientFilters EXCEPT ![c] = @ \ {f}]
    /\ UNCHANGED <<lockedFor, left>>

UnsubscribeAll(c) ==
    /\ lockedFor = NoClient
    /\ lockedFor' = c /\ left' = clientFilters[c]
    /\ UNCHANGED <<trie, clientFilters, subscriptionCount>>

UnsubscribeNext(f) ==
    /\ f \in left
    /\ RemoveLocked(f, lockedFor)
    /\ left' = left \ {f}
    /\ UNCHANGED <<clientFilters, lockedFor>>

UnsubscribeEnds ==
    /\ lockedFor # NoClient /\ left = {}
    /\ clientFilters' = [clientFilters EXCEPT ![lockedFor] = {}]
    /\ lockedFor' = NoClient
    /\ UNCHANGED <<trie, subscriptionCount, left>>

Next ==
    \/ \E c \in Clients, f \in Filters :
          Unsubscribe(f, c) \/ \E q \in QoS : Subscribe(f, c, q)
    \/ \E c \in Clients : UnsubscribeAll(c)
    \/ \E f \in Filters : UnsubscribeNext(f)
    \/ UnsubscribeEnds

Spec == Init /\ [][Next]_vars
----------------------------------------------------------------------------
(***************************************************************************)
(* Match.  The recursive walk visits, level by level, the child with the   *)
(* topic's level and the '+' child of every node it has reached; at the    *)
(* root of a system topic it skips the wildcards.                          *)
(***************************************************************************)
WalkFrom(t, k, n) ==
    {m \in DOMAIN trie :
        \/ m = Append(n, t[k])
        \/ m = Append(n, SingleLevelWildcard) /\ ~(k = 1 /\ IsSystem(t))}

\* The nodes walk reaches with exactly k levels of the topic consumed.
Walk(t) ==
    LET reach[k \in 0..Len(t)] ==
            IF k = 0 THEN {Root} ELSE UNION {WalkFrom(t, k, n) : n \in reach[k - 1]}
    IN  reach

\* Mutant: '#' is looked for only below a consumed level.
CollectedAtEnd(t) ==
    LET reach == Walk(t) IN
    reach[Len(t)] \cup
    {m \in DOMAIN trie : \E k \in 0..(Len(t) - 1) : \E n \in reach[k] :
        m = Append(n, MultiLevelWildcard) /\ ~(k = 0 /\ IsSystem(t))}

\* A '#' child is collected wherever the walk passes, its end included, and the
\* node itself where the topic ends.
Collected(t) ==
    LET reach == Walk(t) IN
    reach[Len(t)] \cup
    {m \in DOMAIN trie : \E k \in 0..Len(t) : \E n \in reach[k] :
        m = Append(n, MultiLevelWildcard) /\ ~(k = 0 /\ IsSystem(t))}

\* collect keeps the highest QoS per client.
Match(t) ==
    LET nodes == Collected(t) IN
    [c \in Clients |->
        LET qs == {trie[n][c] : n \in nodes} IN
        IF qs = {} THEN NoQoS ELSE CHOOSE q \in qs : \A r \in qs : r <= q]
----------------------------------------------------------------------------
(***************************************************************************)
(* Properties.                                                             *)
(***************************************************************************)
\* The set of subscriptions the trie stands for.  Nobody can look while
\* UnsubscribeAll holds the lock, so its client has none from then on.
Abstract == INSTANCE Subscriptions WITH
    granted <- [c \in Clients |-> [f \in Filters |->
                  IF f \in DOMAIN trie /\ c # lockedFor THEN trie[f][c] ELSE NoQoS]]

\* Every operation does to the trie what it does to the set of subscriptions:
\* pruning for one client never removes another client's subscription, and
\* UnsubscribeAll leaves none of its client's behind.
ImplementsSubscriptions == Abstract!Spec

\* The trie agrees with TopicFilter.Matches: whatever sequence of subscriptions
\* and removals shaped it, Match finds the clients with a matching filter, once
\* each, at the highest QoS granted.  Match takes the lock too.
MatchAgrees ==
    lockedFor = NoClient => \A t \in TopicNames : Match(t) = Abstract!Recipients(t)

\* removeLocked prunes what it emptied, so the trie does not grow for ever: every
\* leaf but the root is somebody's subscription.
NoDeadNodes ==
    \A n \in DOMAIN trie \ {Root} :
        Children(trie, n) = {} => \E c \in Clients : trie[n][c] # NoQoS

\* The two side tables agree with the trie: UnsubscribeAll finds exactly the
\* client's filters, and the gauge is the number of subscriptions.
TablesAgree ==
    /\ \A c \in Clients : {f \in DOMAIN trie : Holds(f, c)} =
          IF c = lockedFor THEN left ELSE clientFilters[c]
    /\ subscriptionCount = Cardinality({p \in Filters \X Clients : Holds(p[1], p[2])})
============================================================================
