-------------------------- MODULE TopicIndexProofs --------------------------
(***************************************************************************)
(* Theorems about TopicIndex, for every set of clients, filters and topics.*)
(***************************************************************************)
EXTENDS TopicIndex, FiniteSetTheorems, WellFoundedInduction, SequenceTheorems, TLAPS

USE TopicIndexAssumption DEF TopicIndexAssumption
----------------------------------------------------------------------------
(***************************************************************************)
(* Induction over the natural numbers, with a set for the predicate.       *)
(***************************************************************************)
\* A set of naturals has a least element.
LEMMA LeastNumber ==
    ASSUME NEW T \in SUBSET Nat, T # {}
    PROVE  \E x \in T : \A y \in T : x <= y
<1> DEFINE R == OpToRel(<, Nat)
<1>1. IsWellFoundedOn(R, Nat)
  BY NatLessThanWellFounded
<1>2. \A x, y \in Nat : y < x => <<y, x>> \in R
  BY SMT DEF OpToRel
<1> HIDE DEF R
<1>3. PICK x \in T : \A y \in T : ~(<<y, x>> \in R)
  BY <1>1, WFMin
<1>4. ASSUME NEW y \in T PROVE x <= y
  <2>1. x \in Nat /\ y \in Nat
    OBVIOUS
  <2>2. ~(y < x)
    BY <1>2, <1>3, <2>1
  <2> QED BY <2>1, <2>2
<1> QED BY <1>4

\* A set that holds 0 and is closed under successor holds every natural.
LEMMA SetInduction ==
    ASSUME NEW T, 0 \in T, \A n \in Nat : n \in T => n + 1 \in T
    PROVE  Nat \subseteq T
<1> SUFFICES ASSUME Nat \ T # {} PROVE FALSE
  OBVIOUS
<1>1. PICK x \in Nat \ T : \A y \in Nat \ T : x <= y
  BY LeastNumber
<1>2. x # 0 /\ x - 1 \in Nat
  BY <1>1
<1>3. x - 1 \in T
  BY <1>1, <1>2
<1> QED BY <1>1, <1>2, <1>3
----------------------------------------------------------------------------
(***************************************************************************)
(* Paths.                                                                  *)
(***************************************************************************)
Node == Seq(STRING)

Prefix(s, k) == SubSeq(s, 1, k)

\* A path has the first levels of what it leads to.
LEMMA PrefixProps ==
    ASSUME NEW s \in Node, NEW k \in 0..Len(s)
    PROVE  /\ Prefix(s, k) \in Node /\ Len(Prefix(s, k)) = k
           /\ \A i \in 1..k : Prefix(s, k)[i] = s[i]
<1>1. \A i \in 1..k : s[i] \in STRING
  BY DEF Node
<1>2. /\ SubSeq(s, 1, k) \in Seq(STRING)
      /\ Len(SubSeq(s, 1, k)) = IF 1 <= k THEN k - 1 + 1 ELSE 0
      /\ \A i \in 1..(k - 1 + 1) : SubSeq(s, 1, k)[i] = s[1 + i - 1]
  BY <1>1, SubSeqProperties
<1> QED BY <1>2 DEF Node, Prefix

\* Nodes are equal when their levels are.
LEMMA NodeEqual ==
    ASSUME NEW s \in Node, NEW t \in Node, Len(s) = Len(t),
           \A i \in 1..Len(s) : s[i] = t[i]
    PROVE  s = t
BY DEF Node

\* A path on a path.
LEMMA PrefixOfPrefix ==
    ASSUME NEW s \in Node, NEW k \in 0..Len(s), NEW j \in 0..k
    PROVE  Prefix(Prefix(s, k), j) = Prefix(s, j)
<1>1. j \in 0..Len(s) /\ Len(s) \in Nat
  BY DEF Node
<1>2. Prefix(s, k) \in Node /\ Len(Prefix(s, k)) = k
      /\ \A i \in 1..k : Prefix(s, k)[i] = s[i]
  BY PrefixProps
<1>3. /\ Prefix(s, j) \in Node /\ Len(Prefix(s, j)) = j
      /\ \A i \in 1..j : Prefix(s, j)[i] = s[i]
  BY <1>1, PrefixProps
<1>4. PICK u \in Node : u = Prefix(s, k)
  BY <1>2
<1>5. /\ Prefix(u, j) \in Node /\ Len(Prefix(u, j)) = j
      /\ \A i \in 1..j : Prefix(u, j)[i] = u[i]
  BY <1>2, <1>4, PrefixProps
<1>6. \A i \in 1..j : Prefix(u, j)[i] = Prefix(s, j)[i]
  BY <1>2, <1>3, <1>4, <1>5
<1>7. Prefix(u, j) = Prefix(s, j)
  BY <1>3, <1>5, <1>6, NodeEqual
<1> QED BY <1>4, <1>7

\* The whole path, and the empty one.
LEMMA PrefixEnds ==
    ASSUME NEW s \in Node
    PROVE  Prefix(s, Len(s)) = s /\ Prefix(s, 0) = Root
<1>1. Len(s) \in 0..Len(s) /\ 0 \in 0..Len(s)
  BY DEF Node
<1>2. Prefix(s, Len(s)) = s
  BY <1>1, PrefixProps, NodeEqual
<1>3. Prefix(s, 0) \in Node /\ Len(Prefix(s, 0)) = 0
  BY <1>1, PrefixProps
<1> QED BY <1>2, <1>3 DEF Node, Root

\* What is on the way to a node.
LEMMA PathProps ==
    ASSUME NEW s \in Node
    PROVE  /\ \A m : m \in Path(s) <=> \E k \in 0..Len(s) : m = Prefix(s, k)
           /\ s \in Path(s) /\ Root \in Path(s)
           /\ \A m \in Path(s) : /\ m \in Node /\ Len(m) \in 0..Len(s)
                                 /\ m = Prefix(s, Len(m))
                                 /\ Path(m) \subseteq Path(s)
<1>1. Len(s) \in Nat
  BY DEF Node
<1>2. \A m : m \in Path(s) <=> \E k \in 0..Len(s) : m = Prefix(s, k)
  BY DEF Path, Prefix
<1>3. s \in Path(s) /\ Root \in Path(s)
  BY <1>1, <1>2, PrefixEnds
<1>4. ASSUME NEW m \in Path(s)
      PROVE  m \in Node /\ Len(m) \in 0..Len(s) /\ m = Prefix(s, Len(m))
  BY <1>2, PrefixProps
<1>5. ASSUME NEW m \in Path(s) PROVE Path(m) \subseteq Path(s)
  <2> SUFFICES ASSUME NEW x \in Path(m) PROVE x \in Path(s)
    OBVIOUS
  <2>1. PICK j \in 0..Len(m) : x = Prefix(m, j)
    BY DEF Path, Prefix
  <2>2. m = Prefix(s, Len(m)) /\ Len(m) \in 0..Len(s)
    BY <1>4
  <2>3. Prefix(Prefix(s, Len(m)), j) = Prefix(s, j)
    BY <2>2, PrefixOfPrefix
  <2>4. j \in 0..Len(s)
    BY <1>1, <2>2
  <2> QED BY <1>2, <2>1, <2>2, <2>3, <2>4
<1> QED BY <1>2, <1>3, <1>4, <1>5
----------------------------------------------------------------------------
(***************************************************************************)
(* Removing a subscription from a trie.                                    *)
(***************************************************************************)
\* Every node of a trie hangs from the root, and only filters have subscribers.
IsTrie(t) ==
    /\ DOMAIN t \subseteq Node /\ Root \in DOMAIN t
    /\ t \in [DOMAIN t -> Subscribers]
    /\ \A n \in DOMAIN t : Path(n) \subseteq DOMAIN t

\* What c was granted at a node that may not exist.
Grant(t, n, c) == IF n \in DOMAIN t THEN t[n][c] ELSE NoQoS

Cleared(t, f, c) == [t EXCEPT ![f][c] = NoQoS]

Tops(u, f) == {SubSeq(f, 1, d) : d \in {e \in 0..Len(f) : Emptied(u, f, e)}}

Pruned(u, f) == {n \in DOMAIN u : Path(n) \cap Tops(u, f) # {}}

\* Clearing one subscription leaves a trie.
LEMMA ClearedTrie ==
    ASSUME NEW t, IsTrie(t), NEW f \in DOMAIN t, NEW c \in Clients
    PROVE  /\ IsTrie(Cleared(t, f, c)) /\ DOMAIN Cleared(t, f, c) = DOMAIN t
           /\ \A n \in DOMAIN t, d \in Clients :
                 Cleared(t, f, c)[n][d] = IF n = f /\ d = c THEN NoQoS ELSE t[n][d]
<1>1. DOMAIN Cleared(t, f, c) = DOMAIN t
  BY DEF Cleared
<1>2. t[f] \in [Clients -> QoS \cup {NoQoS}]
  BY DEF IsTrie, Subscribers
<1>3. \A n \in DOMAIN t : Cleared(t, f, c)[n] =
         IF n = f THEN [t[f] EXCEPT ![c] = NoQoS] ELSE t[n]
  BY DEF Cleared
<1>4. [t[f] EXCEPT ![c] = NoQoS] \in Subscribers
  BY <1>2 DEF Subscribers
<1>5. Cleared(t, f, c) \in [DOMAIN t -> Subscribers]
  BY <1>4 DEF Cleared, IsTrie
<1>6. IsTrie(Cleared(t, f, c))
  BY <1>1, <1>5 DEF IsTrie
<1> QED BY <1>1, <1>2, <1>3, <1>6

\* Below a node that pruning detaches there is nothing but the path it came up:
\* level by level, a child of a node on the path is on the path.
LEMMA PrunedOnPath ==
    ASSUME NEW u, IsTrie(u), NEW f \in Node, NEW n \in Pruned(u, f)
    PROVE  \E e \in 1..Len(f) :
              /\ Emptied(u, f, e)
              /\ Len(n) \in e..Len(f) /\ n = Prefix(f, Len(n))
<1>0. n \in Node /\ n \in DOMAIN u /\ Len(n) \in Nat /\ Len(f) \in Nat
  BY DEF Pruned, IsTrie, Node
<1>1. PICK e \in 0..Len(f) : Emptied(u, f, e) /\ Prefix(f, e) \in Path(n)
  BY DEF Pruned, Tops, Prefix
<1>2. /\ e > 0 /\ e \in 1..Len(f)
      /\ \A k \in e..Len(f) : Children(u, Prefix(f, k)) \subseteq Path(f)
  BY <1>0, <1>1 DEF Emptied, Prefix
<1>3. Len(Prefix(f, e)) = e
  BY PrefixProps
<1>4. e \in 0..Len(n) /\ Prefix(n, e) = Prefix(f, e)
  BY <1>0, <1>1, <1>3, PathProps
<1> DEFINE T == {i \in Nat : e + i <= Len(n) =>
                                e + i <= Len(f) /\ Prefix(n, e + i) = Prefix(f, e + i)}
<1>5. 0 \in T
  BY <1>4
<1>6. ASSUME NEW i \in Nat, i \in T PROVE i + 1 \in T
  <2> SUFFICES ASSUME e + (i + 1) <= Len(n)
               PROVE  e + (i + 1) <= Len(f) /\ Prefix(n, e + (i + 1)) = Prefix(f, e + (i + 1))
    OBVIOUS
  <2> DEFINE k == e + i
             m == Prefix(n, k + 1)
  <2>1. /\ k \in e..Len(f) /\ k \in 0..Len(n) /\ k + 1 \in 0..Len(n) /\ k \in Nat
        /\ Prefix(n, k) = Prefix(f, k)
    BY <1>0, <1>1, <1>6
  <2> HIDE DEF k
  <2>2. m \in Node /\ Len(m) = k + 1
    BY <1>0, <2>1, PrefixProps
  <2>3. m \in DOMAIN u
    <3>1. m \in Path(n)
      BY <1>0, <2>1, PathProps
    <3> QED BY <1>0, <3>1 DEF IsTrie
  <2>4. Len(Prefix(f, k)) = k /\ SubSeq(m, 1, k) = Prefix(f, k)
    <3>1. k \in 0..(k + 1) /\ k \in 0..Len(f)
      BY <1>0, <2>1
    <3>2. Prefix(m, k) = Prefix(n, k)
      BY <1>0, <2>1, <3>1, PrefixOfPrefix
    <3> QED BY <2>1, <3>1, <3>2, PrefixProps DEF Prefix
  <2>5. m \in Children(u, Prefix(f, k))
    BY <2>2, <2>3, <2>4 DEF Children
  <2>6. m \in Path(f)
    BY <1>2, <2>1, <2>5
  <2>7. k + 1 \in 0..Len(f) /\ m = Prefix(f, k + 1)
    BY <2>2, <2>6, PathProps
  <2>8. k + 1 = e + (i + 1)
    BY <1>1 DEF k
  <2> QED BY <1>0, <2>7, <2>8
<1>7. Nat \subseteq T
  <2> HIDE DEF T
  <2> QED BY <1>5, <1>6, SetInduction
<1>8. Len(n) - e \in T
  BY <1>0, <1>4, <1>7
<1>9. Len(n) \in e..Len(f) /\ Prefix(n, Len(n)) = Prefix(f, Len(n))
  BY <1>0, <1>4, <1>8
<1> QED BY <1>0, <1>1, <1>2, <1>9, PrefixEnds

\* So a pruned node has no subscribers.
LEMMA PrunedEmpty ==
    ASSUME NEW u, IsTrie(u), NEW f \in Node, NEW n \in Pruned(u, f)
    PROVE  u[n] = NoSubscribers
<1>1. PICK e \in 1..Len(f) : Emptied(u, f, e) /\ Len(n) \in e..Len(f) /\ n = Prefix(f, Len(n))
  BY PrunedOnPath
<1> QED BY <1>1 DEF Emptied, Prefix

\* removeLocked leaves a trie, with every grant but the one it removes.
LEMMA RemovedTrie ==
    ASSUME NEW t, IsTrie(t), NEW f \in Node, NEW c \in Clients
    PROVE  /\ IsTrie(Removed(t, f, c))
           /\ DOMAIN Removed(t, f, c) \subseteq DOMAIN t
           /\ Grant(Removed(t, f, c), f, c) = NoQoS
           /\ \A n, d : d \in Clients /\ ~(n = f /\ d = c) =>
                 Grant(Removed(t, f, c), n, d) = Grant(t, n, d)
<1>1. CASE f \notin DOMAIN t \/ t[f][c] = NoQoS
  <2>1. Removed(t, f, c) = t
    BY <1>1 DEF Removed
  <2> QED BY <1>1, <2>1 DEF Grant
<1>2. CASE f \in DOMAIN t /\ t[f][c] # NoQoS
  <2> DEFINE u == Cleared(t, f, c)
             r == Removed(t, f, c)
  <2>1. /\ IsTrie(u) /\ DOMAIN u = DOMAIN t
        /\ \A n \in DOMAIN t, d \in Clients :
              u[n][d] = IF n = f /\ d = c THEN NoQoS ELSE t[n][d]
    BY <1>2, ClearedTrie
  <2>2. r = [n \in DOMAIN u \ Pruned(u, f) |-> u[n]]
    BY <1>2 DEF Removed, Cleared, Pruned, Tops
  <2> HIDE DEF u, r
  <2>3. DOMAIN r = DOMAIN u \ Pruned(u, f)
    BY <2>2
  <2>4. Root \notin Pruned(u, f)
    <3>1. ASSUME Root \in Pruned(u, f) PROVE FALSE
      <4>1. PICK e \in 1..Len(f) : Len(Root) \in e..Len(f)
        BY <2>1, <3>1, PrunedOnPath
      <4> QED BY <4>1 DEF Root
    <3> QED BY <3>1
  <2>5. ASSUME NEW n \in DOMAIN r PROVE Path(n) \subseteq DOMAIN r
    <3>1. n \in Node /\ n \in DOMAIN u /\ Path(n) \subseteq DOMAIN u
      BY <2>1, <2>3 DEF IsTrie
    <3>2. ASSUME NEW m \in Path(n), m \in Pruned(u, f) PROVE FALSE
      <4>1. Path(m) \subseteq Path(n)
        BY <3>1, PathProps
      <4> QED BY <2>3, <3>1, <3>2, <4>1 DEF Pruned
    <3> QED BY <2>3, <3>1, <3>2
  <2>6. IsTrie(r)
    BY <2>1, <2>2, <2>3, <2>4, <2>5 DEF IsTrie
  <2>7. ASSUME NEW n, NEW d \in Clients
        PROVE  Grant(r, n, d) = IF n = f /\ d = c THEN NoQoS ELSE Grant(t, n, d)
    <3>1. CASE n \in DOMAIN r
      BY <2>1, <2>2, <2>3, <3>1 DEF Grant
    <3>2. CASE n \in Pruned(u, f)
      <4>1. n \in DOMAIN u /\ n \notin DOMAIN r
        BY <2>3, <3>2 DEF Pruned
      <4>2. u[n][d] = NoQoS
        BY <2>1, <3>2, PrunedEmpty DEF NoSubscribers
      <4> QED BY <2>1, <4>1, <4>2 DEF Grant
    <3>3. CASE n \notin DOMAIN u
      BY <2>1, <2>3, <3>3 DEF Grant
    <3> QED BY <2>3, <3>1, <3>2, <3>3
  <2> QED BY <2>1, <2>3, <2>6, <2>7 DEF r
<1> QED BY <1>1, <1>2

\* Every leaf but the root is somebody's subscription.
Alive(t) ==
    \A n \in DOMAIN t \ {Root} :
        Children(t, n) = {} => \E c \in Clients : t[n][c] # NoQoS

\* A node that kept no subscriber and lost its last child is pruned itself.
LEMMA RemovedAlive ==
    ASSUME NEW t, IsTrie(t), Alive(t), NEW f \in Node, f # Root, NEW c \in Clients
    PROVE  Alive(Removed(t, f, c))
<1>1. CASE f \notin DOMAIN t \/ t[f][c] = NoQoS
  <2>1. Removed(t, f, c) = t
    BY <1>1 DEF Removed
  <2> QED BY <2>1
<1>2. CASE f \in DOMAIN t /\ t[f][c] # NoQoS
  <2> DEFINE u == Cleared(t, f, c)
             r == Removed(t, f, c)
  <2>1. /\ IsTrie(u) /\ DOMAIN u = DOMAIN t
        /\ \A n \in DOMAIN t, d \in Clients :
              u[n][d] = IF n = f /\ d = c THEN NoQoS ELSE t[n][d]
    BY <1>2, ClearedTrie
  <2>2. r = [n \in DOMAIN u \ Pruned(u, f) |-> u[n]]
    BY <1>2 DEF Removed, Cleared, Pruned, Tops
  <2> HIDE DEF u, r
  <2>3. DOMAIN r = DOMAIN u \ Pruned(u, f)
    BY <2>2
  <2> SUFFICES ASSUME NEW n \in DOMAIN r \ {Root}, Children(r, n) = {},
                      \A d \in Clients : r[n][d] = NoQoS
               PROVE  FALSE
    BY DEF Alive, r
  <2>4. /\ n \in Node /\ n \in DOMAIN u /\ n \notin Pruned(u, f) /\ n # Root
        /\ Len(n) \in Nat /\ Len(f) \in Nat
    BY <2>1, <2>3 DEF IsTrie, Node
  <2>5. Len(n) > 0
    BY <2>4 DEF Node, Root
  <2>6. u[n] = NoSubscribers
    <3>1. u[n] \in Subscribers /\ \A d \in Clients : u[n][d] = NoQoS
      BY <2>1, <2>2, <2>4 DEF IsTrie
    <3> QED BY <3>1 DEF Subscribers, NoSubscribers
  <2>7. n \in Path(n)
    BY <2>4, PathProps
  <2>8. n \notin Tops(u, f)
    BY <2>4, <2>7 DEF Pruned
  <2>9. Children(u, n) \subseteq Pruned(u, f)
    BY <2>3 DEF Children
  <2>10. ASSUME NEW k \in 1..Len(f), n = Prefix(f, k),
                \A j \in (k + 1)..Len(f) : /\ u[SubSeq(f, 1, j)] = NoSubscribers
                                           /\ Children(u, SubSeq(f, 1, j)) \subseteq Path(f)
         PROVE  FALSE
    <3>1. Children(u, n) \subseteq Path(f)
      <4> SUFFICES ASSUME NEW m \in Children(u, n) PROVE m \in Path(f)
        OBVIOUS
      <4>1. PICK e \in 1..Len(f) : Len(m) \in e..Len(f) /\ m = Prefix(f, Len(m))
        BY <2>1, <2>9, PrunedOnPath
      <4> QED BY <4>1, PathProps
    <3>2. \A j \in k..Len(f) : j = k \/ j \in (k + 1)..Len(f)
      OBVIOUS
    <3>3. Emptied(u, f, k)
      BY <2>6, <2>10, <3>1, <3>2 DEF Emptied, Prefix
    <3>4. n \in Tops(u, f)
      BY <2>10, <3>3 DEF Tops, Prefix
    <3> QED BY <2>8, <3>4
  <2>11. CASE Children(u, n) = {}
    <3>1. Children(t, n) = {}
      BY <2>1, <2>11 DEF Children
    <3>2. n = f
      BY <2>1, <2>4, <2>6, <3>1 DEF Alive, NoSubscribers
    <3>3. n = Prefix(f, Len(f)) /\ Len(f) \in 1..Len(f)
      BY <2>4, <2>5, <3>2, PrefixEnds
    <3>4. (Len(f) + 1)..Len(f) = {}
      BY <2>4
    <3> QED BY <2>10, <3>3, <3>4
  <2>12. ASSUME NEW m \in Children(u, n) PROVE FALSE
    <3>1. m \in Pruned(u, f) /\ Len(m) = Len(n) + 1 /\ Prefix(m, Len(n)) = n
      BY <2>9 DEF Children, Prefix
    <3>2. PICK e \in 1..Len(f) :
             Emptied(u, f, e) /\ Len(m) \in e..Len(f) /\ m = Prefix(f, Len(m))
      BY <2>1, <3>1, PrunedOnPath
    <3>3. /\ Len(n) \in 1..Len(f) /\ Len(n) \in 0..Len(m) /\ Len(m) \in 0..Len(f)
          /\ Len(n) \in 0..Len(f)
      BY <2>4, <2>5, <3>1, <3>2
    <3>4. n = Prefix(f, Len(n))
      <4>1. Prefix(Prefix(f, Len(m)), Len(n)) = Prefix(f, Len(n))
        BY <3>3, PrefixOfPrefix
      <4> QED BY <3>1, <3>2, <4>1
    <3>5. e = Len(n) + 1
      <4>1. ASSUME e <= Len(n) PROVE FALSE
        <5>1. e \in 0..Len(n)
          BY <3>2, <3>3, <4>1
        <5>2. Prefix(Prefix(f, Len(n)), e) = Prefix(f, e)
          BY <3>3, <5>1, PrefixOfPrefix
        <5>3. Prefix(f, e) \in Path(n)
          BY <2>4, <3>4, <5>1, <5>2, PathProps
        <5>4. Prefix(f, e) \in Tops(u, f)
          BY <3>2 DEF Tops, Prefix
        <5> QED BY <2>4, <5>3, <5>4 DEF Pruned
      <4> QED BY <2>4, <3>1, <3>2, <4>1
    <3> QED BY <2>10, <3>2, <3>3, <3>4, <3>5 DEF Emptied
  <2> QED BY <2>11, <2>12
<1> QED BY <1>1, <1>2
----------------------------------------------------------------------------
(***************************************************************************)
(* Adding a subscription.                                                  *)
(***************************************************************************)
Inserted(f, c, q) == [WithPath(f) EXCEPT ![f][c] = q]

\* Subscribe leaves a trie, with one grant more or one grant replaced.
LEMMA InsertedTrie ==
    ASSUME NEW f \in Node, NEW c \in Clients, NEW q \in QoS, IsTrie(trie)
    PROVE  /\ IsTrie(Inserted(f, c, q))
           /\ DOMAIN Inserted(f, c, q) = DOMAIN trie \cup Path(f)
           /\ Grant(Inserted(f, c, q), f, c) = q
           /\ \A n, d : d \in Clients /\ ~(n = f /\ d = c) =>
                 Grant(Inserted(f, c, q), n, d) = Grant(trie, n, d)
<1> DEFINE w == WithPath(f)
           r == Inserted(f, c, q)
<1>1. f \in Path(f) /\ \A m \in Path(f) : m \in Node /\ Path(m) \subseteq Path(f)
  BY PathProps
<1>2. NoSubscribers \in Subscribers
  BY DEF NoSubscribers, Subscribers
<1>3. w = [n \in DOMAIN trie \cup Path(f) |-> IF n \in DOMAIN trie THEN trie[n] ELSE NoSubscribers]
  BY DEF WithPath
<1>4. r = [w EXCEPT ![f][c] = q]
  BY DEF Inserted
<1> HIDE DEF w, r
<1>5. /\ w \in [DOMAIN trie \cup Path(f) -> Subscribers] /\ DOMAIN w = DOMAIN trie \cup Path(f)
      /\ \A n \in DOMAIN w, d \in Clients : w[n][d] = Grant(trie, n, d)
  BY <1>2, <1>3 DEF IsTrie, Grant, NoSubscribers
<1>6. w[f] \in [Clients -> QoS \cup {NoQoS}]
  BY <1>1, <1>5 DEF Subscribers
<1>7. DOMAIN r = DOMAIN trie \cup Path(f)
  BY <1>4, <1>5
<1>8. \A n \in DOMAIN r : r[n] = IF n = f THEN [w[f] EXCEPT ![c] = q] ELSE w[n]
  BY <1>4, <1>5
<1>9. [w[f] EXCEPT ![c] = q] \in Subscribers
  BY <1>6 DEF Subscribers
<1>10. r \in [DOMAIN r -> Subscribers]
  BY <1>4, <1>5, <1>7, <1>9
<1>11. IsTrie(r)
  BY <1>1, <1>7, <1>10 DEF IsTrie
<1>12. Grant(r, f, c) = q
  BY <1>1, <1>5, <1>6, <1>7, <1>8 DEF Grant
<1>13. ASSUME NEW n, NEW d \in Clients, ~(n = f /\ d = c)
       PROVE  Grant(r, n, d) = Grant(trie, n, d)
  BY <1>1, <1>5, <1>6, <1>7, <1>8, <1>13, ZenonT(60) DEF Grant
<1> QED BY <1>7, <1>11, <1>12, <1>13 DEF r

\* The nodes it creates lead to the subscription.
LEMMA InsertedAlive ==
    ASSUME IsTrie(trie), Alive(trie), NEW f \in Node, NEW c \in Clients, NEW q \in QoS
    PROVE  Alive(Inserted(f, c, q))
<1> DEFINE r == Inserted(f, c, q)
<1>1. /\ IsTrie(r) /\ DOMAIN r = DOMAIN trie \cup Path(f) /\ Grant(r, f, c) = q
      /\ \A n, d : d \in Clients /\ ~(n = f /\ d = c) => Grant(r, n, d) = Grant(trie, n, d)
  BY InsertedTrie
<1> HIDE DEF r
<1> SUFFICES ASSUME NEW n \in DOMAIN r \ {Root}, Children(r, n) = {}
             PROVE  \E d \in Clients : r[n][d] # NoQoS
  BY DEF Alive, r
<1>2. CASE n = f
  BY <1>1, <1>2 DEF Grant, QoS, NoQoS
<1>3. CASE n # f /\ n \in DOMAIN trie
  <2>1. Children(trie, n) = {}
    BY <1>1 DEF Children
  <2>2. PICK d \in Clients : trie[n][d] # NoQoS
    BY <1>3, <2>1 DEF Alive
  <2> QED BY <1>1, <1>3, <2>2 DEF Grant
<1>4. CASE n # f /\ n \in Path(f)
  <2>1. /\ Len(n) \in 0..Len(f) /\ n = Prefix(f, Len(n)) /\ Len(f) \in Nat
    BY <1>4, PathProps DEF Node
  <2>2. Len(n) # Len(f)
    BY <1>4, <2>1, PrefixEnds
  <2> DEFINE k == Len(n)
             m == Prefix(f, k + 1)
  <2>3. k + 1 \in 0..Len(f) /\ k \in 0..(k + 1)
    BY <2>1, <2>2
  <2>4. m \in Path(f) /\ Len(m) = k + 1
    BY <2>3, PathProps, PrefixProps
  <2>5. Prefix(m, k) = n
    BY <2>1, <2>3, PrefixOfPrefix
  <2>6. m \in Children(r, n)
    BY <1>1, <2>4, <2>5 DEF Children, Prefix
  <2> QED BY <2>6
<1> QED BY <1>1, <1>2, <1>3, <1>4
----------------------------------------------------------------------------
(***************************************************************************)
(* The invariant.                                                          *)
(***************************************************************************)
\* What the tables say c holds; UnsubscribeAll takes the filters it has come to
\* out of the trie before it empties the client's entry.
Kept(c) == IF c = lockedFor THEN left ELSE clientFilters[c]

Granted == {p \in Filters \X Clients : Holds(p[1], p[2])}

ShapeInv ==
    /\ IsTrie(trie) /\ Alive(trie)
    /\ DOMAIN trie \subseteq {Root} \cup UNION {Path(f) : f \in Filters}

LockInv ==
    /\ clientFilters \in [Clients -> SUBSET Filters]
    /\ lockedFor \in Clients \cup {NoClient}
    /\ left \subseteq Filters
    /\ lockedFor = NoClient => left = {}

GrantInv == \A n, c : c \in Clients => (Grant(trie, n, c) # NoQoS <=> n \in Kept(c))

CountInv == IsFiniteSet(Granted) /\ subscriptionCount = Cardinality(Granted)

IndexInv == ShapeInv /\ LockInv /\ GrantInv /\ CountInv

\* Filters are nodes, and none of them is the root.
LEMMA FiltersAreNodes ==
    ASSUME NEW f \in Filters
    PROVE  f \in Node /\ f # Root
BY DEF Node, Root, IsTopicFilter

\* Holds is a grant.
LEMMA HoldsGrant ==
    \A f, c : Holds(f, c) <=> Grant(trie, f, c) # NoQoS
BY DEF Holds, Grant

\* The empty index.
LEMMA IndexInit ==
    Init => IndexInv
<1> SUFFICES ASSUME Init PROVE IndexInv
  OBVIOUS
<1>1. /\ trie = [n \in {Root} |-> NoSubscribers] /\ DOMAIN trie = {Root}
      /\ trie[Root] = NoSubscribers
      /\ clientFilters = [c \in Clients |-> {}] /\ subscriptionCount = 0
      /\ lockedFor = NoClient /\ left = {}
  BY DEF Init
<1>2. Root \in Node /\ Path(Root) = {Root}
  <2>1. Root \in Node /\ Len(Root) = 0
    BY DEF Root, Node
  <2>2. Path(Root) = {Prefix(Root, k) : k \in 0..0}
    BY <2>1 DEF Path, Prefix
  <2>3. Prefix(Root, 0) = Root
    BY <2>1, PrefixEnds
  <2>4. 0..0 = {0}
    OBVIOUS
  <2> QED BY <2>1, <2>2, <2>3, <2>4
<1>3. NoSubscribers \in Subscribers
  BY DEF NoSubscribers, Subscribers
<1>4. IsTrie(trie)
  BY <1>1, <1>2, <1>3 DEF IsTrie
<1>5. ShapeInv
  <2>1. Alive(trie)
    BY <1>1 DEF Alive
  <2>2. DOMAIN trie \subseteq {Root} \cup UNION {Path(f) : f \in Filters}
    BY <1>1
  <2> QED BY <1>4, <2>1, <2>2 DEF ShapeInv
<1>6. LockInv
  BY <1>1 DEF LockInv
<1>7. \A n, c : c \in Clients => Grant(trie, n, c) = NoQoS
  BY <1>1 DEF Grant, NoSubscribers
<1>8. GrantInv
  BY <1>1, <1>7 DEF GrantInv, Kept
<1>9. Granted = {}
  BY <1>7, HoldsGrant DEF Granted
<1>10. CountInv
  BY <1>1, <1>9, FS_EmptySet DEF CountInv
<1> QED BY <1>5, <1>6, <1>8, <1>10 DEF IndexInv

\* removeLocked: the trie keeps its shape and loses one grant, the gauge follows.
LEMMA RemoveLockedStep ==
    ASSUME NEW f \in Filters, NEW c \in Clients, IndexInv, RemoveLocked(f, c)
    PROVE  /\ ShapeInv' /\ CountInv'
           /\ Grant(trie', f, c) = NoQoS
           /\ \A n, d : d \in Clients /\ ~(n = f /\ d = c) =>
                 Grant(trie', n, d) = Grant(trie, n, d)
<1>1. trie' = Removed(trie, f, c) /\ IsTrie(trie) /\ Alive(trie) /\ f \in Node /\ f # Root
  BY FiltersAreNodes DEF RemoveLocked, IndexInv, ShapeInv
<1>2. /\ IsTrie(trie') /\ DOMAIN trie' \subseteq DOMAIN trie
      /\ Grant(trie', f, c) = NoQoS
      /\ \A n, d : d \in Clients /\ ~(n = f /\ d = c) =>
            Grant(trie', n, d) = Grant(trie, n, d)
  BY <1>1, RemovedTrie
<1>3. Alive(trie')
  BY <1>1, RemovedAlive
<1>4. ShapeInv'
  BY <1>2, <1>3 DEF ShapeInv, IndexInv, IsTrie, Alive
<1>5. Granted' = Granted \ {<<f, c>>}
  <2>1. Granted' = {p \in Filters \X Clients : Grant(trie', p[1], p[2]) # NoQoS}
    BY DEF Granted, Holds, Grant
  <2>2. Granted = {p \in Filters \X Clients : Grant(trie, p[1], p[2]) # NoQoS}
    BY HoldsGrant DEF Granted
  <2> QED BY <1>2, <2>1, <2>2
<1>6. <<f, c>> \in Granted <=> Holds(f, c)
  BY DEF Granted
<1>7. IsFiniteSet(Granted) /\ subscriptionCount = Cardinality(Granted)
      /\ subscriptionCount' = IF Holds(f, c) THEN subscriptionCount - 1 ELSE subscriptionCount
  BY DEF IndexInv, CountInv, RemoveLocked
<1>8. CountInv'
  <2>1. /\ IsFiniteSet(Granted \ {<<f, c>>})
        /\ Cardinality(Granted \ {<<f, c>>}) =
              IF <<f, c>> \in Granted THEN Cardinality(Granted) - 1 ELSE Cardinality(Granted)
    BY <1>7, FS_RemoveElement
  <2> QED BY <1>5, <1>6, <1>7, <2>1 DEF CountInv
<1> QED BY <1>2, <1>4, <1>8

\* Subscribe.
LEMMA SubscribeStep ==
    ASSUME NEW f \in Filters, NEW c \in Clients, NEW q \in QoS,
           IndexInv, Subscribe(f, c, q)
    PROVE  /\ IndexInv'
           /\ Grant(trie', f, c) = q
           /\ \A n, d : d \in Clients /\ ~(n = f /\ d = c) =>
                 Grant(trie', n, d) = Grant(trie, n, d)
<1>1. trie' = Inserted(f, c, q) /\ IsTrie(trie) /\ Alive(trie) /\ f \in Node
  BY FiltersAreNodes DEF Subscribe, Inserted, IndexInv, ShapeInv
<1>2. /\ IsTrie(trie') /\ DOMAIN trie' = DOMAIN trie \cup Path(f)
      /\ Grant(trie', f, c) = q
      /\ \A n, d : d \in Clients /\ ~(n = f /\ d = c) =>
            Grant(trie', n, d) = Grant(trie, n, d)
  <2>1. /\ IsTrie(Inserted(f, c, q))
        /\ DOMAIN Inserted(f, c, q) = DOMAIN trie \cup Path(f)
        /\ Grant(Inserted(f, c, q), f, c) = q
        /\ \A n, d : d \in Clients /\ ~(n = f /\ d = c) =>
              Grant(Inserted(f, c, q), n, d) = Grant(trie, n, d)
    BY <1>1, InsertedTrie
  <2> QED BY <1>1, <2>1
<1>3. Alive(trie')
  BY <1>1, InsertedAlive
<1>4. ShapeInv'
  BY <1>2, <1>3 DEF ShapeInv, IndexInv, IsTrie, Alive
<1>5. q # NoQoS
  BY DEF QoS, NoQoS
<1>6. Granted' = Granted \cup {<<f, c>>}
  <2>1. Granted' = {p \in Filters \X Clients : Grant(trie', p[1], p[2]) # NoQoS}
    BY DEF Granted, Holds, Grant
  <2>2. Granted = {p \in Filters \X Clients : Grant(trie, p[1], p[2]) # NoQoS}
    BY HoldsGrant DEF Granted
  <2> QED BY <1>2, <1>5, <2>1, <2>2
<1>7. <<f, c>> \in Granted <=> Holds(f, c)
  BY DEF Granted
<1>8. IsFiniteSet(Granted) /\ subscriptionCount = Cardinality(Granted)
      /\ subscriptionCount' = IF Holds(f, c) THEN subscriptionCount ELSE subscriptionCount + 1
  BY DEF IndexInv, CountInv, Subscribe
<1>9. CountInv'
  <2>1. /\ IsFiniteSet(Granted \cup {<<f, c>>})
        /\ Cardinality(Granted \cup {<<f, c>>}) =
              IF <<f, c>> \in Granted THEN Cardinality(Granted) ELSE Cardinality(Granted) + 1
    BY <1>8, FS_AddElement
  <2> QED BY <1>6, <1>7, <1>8, <2>1 DEF CountInv
<1>10. /\ lockedFor = NoClient /\ lockedFor' = lockedFor /\ left' = left
       /\ clientFilters \in [Clients -> SUBSET Filters]
       /\ clientFilters' = [clientFilters EXCEPT ![c] = @ \cup {f}]
  BY DEF Subscribe, IndexInv, LockInv
<1>11. LockInv'
  BY <1>10 DEF LockInv, IndexInv
<1>12. GrantInv'
  BY <1>2, <1>5, <1>10 DEF GrantInv, IndexInv, Kept
<1> QED BY <1>2, <1>4, <1>9, <1>11, <1>12 DEF IndexInv

\* Every step keeps the invariant.
LEMMA IndexStep ==
    IndexInv /\ [Next]_vars => IndexInv'
<1> SUFFICES ASSUME IndexInv, [Next]_vars PROVE IndexInv'
  OBVIOUS
<1> USE DEF IndexInv
<1>1. ASSUME NEW c \in Clients, NEW f \in Filters, Unsubscribe(f, c) PROVE IndexInv'
  <2>1. /\ ShapeInv' /\ CountInv' /\ Grant(trie', f, c) = NoQoS
        /\ \A n, d : d \in Clients /\ ~(n = f /\ d = c) =>
              Grant(trie', n, d) = Grant(trie, n, d)
    BY <1>1, RemoveLockedStep DEF Unsubscribe
  <2>2. /\ lockedFor = NoClient /\ lockedFor' = lockedFor /\ left' = left
        /\ clientFilters \in [Clients -> SUBSET Filters]
        /\ clientFilters' = [clientFilters EXCEPT ![c] = @ \ {f}]
    BY <1>1 DEF Unsubscribe, LockInv
  <2>3. LockInv'
    BY <2>2 DEF LockInv
  <2>4. GrantInv'
    BY <2>1, <2>2 DEF GrantInv, Kept
  <2> QED BY <2>1, <2>3, <2>4
<1>2. ASSUME NEW c \in Clients, NEW f \in Filters, NEW q \in QoS, Subscribe(f, c, q)
      PROVE  IndexInv'
  BY <1>2, SubscribeStep
<1>3. ASSUME NEW c \in Clients, UnsubscribeAll(c) PROVE IndexInv'
  <2>1. /\ lockedFor = NoClient /\ lockedFor' = c /\ left' = clientFilters[c]
        /\ trie' = trie /\ clientFilters' = clientFilters
        /\ subscriptionCount' = subscriptionCount
    BY <1>3 DEF UnsubscribeAll
  <2>2. ShapeInv' /\ CountInv'
    BY <2>1 DEF ShapeInv, CountInv, Granted, Holds
  <2>3. LockInv'
    BY <2>1 DEF LockInv
  <2>4. GrantInv'
    BY <2>1 DEF GrantInv, Kept
  <2> QED BY <2>2, <2>3, <2>4
<1>4. ASSUME NEW f \in Filters, UnsubscribeNext(f) PROVE IndexInv'
  <2>1. /\ f \in left /\ left' = left \ {f} /\ RemoveLocked(f, lockedFor)
        /\ clientFilters' = clientFilters /\ lockedFor' = lockedFor
    BY <1>4 DEF UnsubscribeNext
  <2>2. lockedFor \in Clients
    BY <2>1 DEF LockInv
  <2>3. /\ ShapeInv' /\ CountInv' /\ Grant(trie', f, lockedFor) = NoQoS
        /\ \A n, d : d \in Clients /\ ~(n = f /\ d = lockedFor) =>
              Grant(trie', n, d) = Grant(trie, n, d)
    <3>1. PICK c \in Clients : c = lockedFor
      BY <2>2
    <3>2. RemoveLocked(f, c)
      BY <2>1, <3>1
    <3> QED BY <3>1, <3>2, RemoveLockedStep
  <2>4. LockInv'
    BY <2>1 DEF LockInv
  <2>5. GrantInv'
    BY <2>1, <2>2, <2>3 DEF GrantInv, Kept
  <2> QED BY <2>3, <2>4, <2>5
<1>5. ASSUME UnsubscribeEnds PROVE IndexInv'
  <2>1. /\ lockedFor # NoClient /\ left = {} /\ lockedFor' = NoClient
        /\ clientFilters' = [clientFilters EXCEPT ![lockedFor] = {}]
        /\ trie' = trie /\ subscriptionCount' = subscriptionCount /\ left' = left
    BY <1>5 DEF UnsubscribeEnds
  <2>2. ShapeInv' /\ CountInv'
    BY <2>1 DEF ShapeInv, CountInv, Granted, Holds
  <2>3. LockInv'
    BY <2>1 DEF LockInv
  <2>4. GrantInv'
    BY <2>1 DEF GrantInv, Kept, LockInv
  <2> QED BY <2>2, <2>3, <2>4
<1>6. CASE UNCHANGED vars
  BY <1>6 DEF vars, ShapeInv, LockInv, GrantInv, CountInv, Granted, Holds, Kept
<1> QED BY <1>1, <1>2, <1>3, <1>4, <1>5, <1>6 DEF Next

\* The invariant holds throughout.
LEMMA IndexAlways ==
    Spec => []IndexInv
<1>1. Init => IndexInv
  BY IndexInit
<1>2. IndexInv /\ [Next]_vars => IndexInv'
  BY IndexStep
<1> QED BY <1>1, <1>2, PTL DEF Spec
----------------------------------------------------------------------------
(***************************************************************************)
(* What it says.                                                           *)
(***************************************************************************)
\* The variables keep their types: pruning stops at the root, a node only exists
\* on the way to a filter, and the gauge never goes below zero.
THEOREM TypeCorrect ==
    Spec => []TypeOK
<1>1. IndexInv => TypeOK
  <2> SUFFICES ASSUME IndexInv PROVE TypeOK
    OBVIOUS
  <2>1. subscriptionCount \in Nat
    BY FS_CardinalityType DEF IndexInv, CountInv
  <2> QED BY <2>1 DEF TypeOK, IndexInv, ShapeInv, LockInv, IsTrie
<1> QED BY <1>1, IndexAlways, PTL

\* removeLocked leaves no node behind that leads to no subscription.
THEOREM NothingDead ==
    Spec => []NoDeadNodes
<1>1. IndexInv => NoDeadNodes
  BY DEF IndexInv, ShapeInv, Alive, NoDeadNodes
<1> QED BY <1>1, IndexAlways, PTL

\* clientFilters and the gauge agree with the trie, also between two steps of
\* UnsubscribeAll.
THEOREM TablesFollow ==
    Spec => []TablesAgree
<1>1. IndexInv => TablesAgree
  <2> SUFFICES ASSUME IndexInv PROVE TablesAgree
    OBVIOUS
  <2>1. ASSUME NEW c \in Clients
        PROVE  {f \in DOMAIN trie : Holds(f, c)} = Kept(c)
    <3>1. \A f : Holds(f, c) <=> f \in Kept(c)
      BY HoldsGrant DEF IndexInv, GrantInv
    <3>2. \A f : Holds(f, c) => f \in DOMAIN trie
      BY DEF Holds
    <3> QED BY <3>1, <3>2
  <2>2. subscriptionCount = Cardinality({p \in Filters \X Clients : Holds(p[1], p[2])})
    BY DEF IndexInv, CountInv, Granted
  <2> QED BY <2>1, <2>2 DEF TablesAgree, Kept
<1> QED BY <1>1, IndexAlways, PTL

\* What a client holds for those who can take the lock.
Seen == [c \in Clients |-> [f \in Filters |->
           IF f \in DOMAIN trie /\ c # lockedFor THEN trie[f][c] ELSE NoQoS]]

\* The same, by grants.
LEMMA SeenGrant ==
    Seen = [c \in Clients |-> [f \in Filters |->
              IF c # lockedFor THEN Grant(trie, f, c) ELSE NoQoS]]
BY DEF Seen, Grant

\* The trie implements the set of subscriptions: Subscribe and Unsubscribe change
\* one of them, UnsubscribeAll drops its client's when it takes the lock, and the
\* steps of its loop do nothing that anybody could see.
THEOREM TrieIsSubscriptions ==
    Spec => ImplementsSubscriptions
<1>1. Init => Abstract!Init
  <2> SUFFICES ASSUME Init PROVE Seen = [c \in Clients |-> [f \in Filters |-> NoQoS]]
    BY DEF Abstract!Init, Abstract!NoQoS, NoQoS, Seen
  <2>1. DOMAIN trie = {Root} /\ trie[Root] = NoSubscribers
    BY DEF Init
  <2> QED BY <2>1 DEF Seen, NoSubscribers
<1>2. IndexInv /\ [Next]_vars => [Abstract!Next]_Seen
  <2> SUFFICES ASSUME IndexInv, [Next]_vars PROVE Abstract!Next \/ Seen' = Seen
    OBVIOUS
  <2>0. Seen' = [c \in Clients |-> [f \in Filters |->
                   IF c # lockedFor' THEN Grant(trie', f, c) ELSE NoQoS]]
    BY DEF Seen, Grant
  <2>1. ASSUME NEW c \in Clients, NEW f \in Filters, Unsubscribe(f, c)
        PROVE  Seen' = [Seen EXCEPT ![c][f] = NoQoS]
    <3>1. /\ Grant(trie', f, c) = NoQoS
          /\ \A n, d : d \in Clients /\ ~(n = f /\ d = c) =>
                Grant(trie', n, d) = Grant(trie, n, d)
          /\ lockedFor = NoClient /\ lockedFor' = NoClient
      BY <2>1, RemoveLockedStep DEF Unsubscribe
    <3> QED BY <2>0, <3>1, SeenGrant
  <2>2. ASSUME NEW c \in Clients, NEW f \in Filters, NEW q \in QoS, Subscribe(f, c, q)
        PROVE  Seen' = [Seen EXCEPT ![c][f] = q]
    <3>1. /\ Grant(trie', f, c) = q
          /\ \A n, d : d \in Clients /\ ~(n = f /\ d = c) =>
                Grant(trie', n, d) = Grant(trie, n, d)
          /\ lockedFor = NoClient /\ lockedFor' = NoClient
      BY <2>2, SubscribeStep DEF Subscribe
    <3> QED BY <2>0, <3>1, SeenGrant
  <2>3. ASSUME NEW c \in Clients, UnsubscribeAll(c)
        PROVE  Seen' = [Seen EXCEPT ![c] = [f \in Filters |-> NoQoS]]
    <3>1. lockedFor = NoClient /\ lockedFor' = c /\ trie' = trie
      BY <2>3 DEF UnsubscribeAll
    <3> QED BY <2>0, <3>1, SeenGrant
  <2>4. ASSUME NEW f \in Filters, UnsubscribeNext(f) PROVE Seen' = Seen
    <3>1. f \in left /\ lockedFor' = lockedFor /\ RemoveLocked(f, lockedFor)
      BY <2>4 DEF UnsubscribeNext
    <3>2. PICK c \in Clients : c = lockedFor
      BY <3>1 DEF IndexInv, LockInv
    <3>3. RemoveLocked(f, c)
      BY <3>1, <3>2
    <3>4. \A n, d : d \in Clients /\ d # c => Grant(trie', n, d) = Grant(trie, n, d)
      BY <3>3, RemoveLockedStep
    <3> QED BY <2>0, <3>1, <3>2, <3>4, SeenGrant
  <2>5. ASSUME UnsubscribeEnds PROVE Seen' = Seen
    <3>1. /\ lockedFor # NoClient /\ left = {} /\ lockedFor' = NoClient /\ trie' = trie
      BY <2>5 DEF UnsubscribeEnds
    <3>2. \A n : Grant(trie, n, lockedFor) = NoQoS
      BY <3>1 DEF IndexInv, LockInv, GrantInv, Kept
    <3> QED BY <2>0, <3>1, <3>2, SeenGrant
  <2>6. CASE UNCHANGED vars
    BY <2>6 DEF vars, Seen
  <2>7. ASSUME NEW c \in Clients, NEW f \in Filters, Unsubscribe(f, c)
        PROVE  Abstract!Next
    BY <2>1, <2>7 DEF Abstract!Next, Abstract!Unsubscribe, Abstract!NoQoS, NoQoS, Seen
  <2>8. ASSUME NEW c \in Clients, NEW f \in Filters, NEW q \in QoS, Subscribe(f, c, q)
        PROVE  Abstract!Next
    <3>1. Abstract!Subscribe(f, c, q)
      BY <2>2, <2>8 DEF Abstract!Subscribe, Seen
    <3>2. q \in Abstract!QoS
      BY DEF Abstract!QoS, QoS
    <3> QED BY <3>1, <3>2 DEF Abstract!Next
  <2>9. ASSUME NEW c \in Clients, UnsubscribeAll(c) PROVE Abstract!Next
    BY <2>3, <2>9 DEF Abstract!Next, Abstract!UnsubscribeAll, Abstract!NoQoS, NoQoS, Seen
  <2> QED BY <2>4, <2>5, <2>6, <2>7, <2>8, <2>9 DEF Next
<1>3. [Abstract!Next]_Seen => [Abstract!Next]_([c \in Clients |-> [f \in Filters |->
           IF f \in DOMAIN trie /\ c # lockedFor THEN trie[f][c] ELSE NoQoS]])
  BY DEF Seen
<1> QED BY <1>1, <1>2, <1>3, IndexAlways, PTL DEF Spec, ImplementsSubscriptions, Abstract!Spec
----------------------------------------------------------------------------
(***************************************************************************)
(* Match.                                                                  *)
(***************************************************************************)
\* One level of the walk, from all the nodes reached.
WalkStep(t, k, S) == UNION {WalkFrom(t, k, n) : n \in S}

\* What walk computes, level by level: its recursion has a solution.
LEMMA WalkUnfolds ==
    ASSUME NEW t \in Node
    PROVE  /\ Walk(t)[0] = {Root}
           /\ \A k \in 1..Len(t) : Walk(t)[k] = WalkStep(t, k, Walk(t)[k - 1])
<1> DEFINE F(g, k) == IF k = 0 THEN {Root} ELSE WalkStep(t, k, g[k - 1])
           Solves(g, m) == g = [k \in 0..m |-> F(g, k)]
           T == {m \in Nat : \E g : Solves(g, m)}
<1>1. Len(t) \in Nat
  BY DEF Node
<1>2. 0 \in T
  <2>1. PICK g : g = [k \in 0..0 |-> {Root}]
    OBVIOUS
  <2>2. \A k \in 0..0 : F(g, k) = {Root}
    OBVIOUS
  <2> HIDE DEF F
  <2>3. Solves(g, 0)
    BY <2>1, <2>2
  <2> QED BY <2>3
<1>3. ASSUME NEW m \in Nat, m \in T PROVE m + 1 \in T
  <2> HIDE DEF F
  <2>1. PICK g : Solves(g, m)
    BY <1>3
  <2>2. PICK h : h = [k \in 0..(m + 1) |-> IF k = m + 1 THEN F(g, k) ELSE g[k]]
    OBVIOUS
  <2>3. \A k \in 0..m : g[k] = F(g, k)
    BY <2>1, Zenon
  <2>4. \A k \in 0..m : h[k] = g[k]
    BY <2>2
  <2>5. ASSUME NEW k \in 0..(m + 1) PROVE F(h, k) = F(g, k)
    <3>1. k = 0 \/ k - 1 \in 0..m
      OBVIOUS
    <3> QED BY <2>4, <3>1 DEF F
  <2>6. \A k \in 0..(m + 1) : k = m + 1 \/ k \in 0..m
    OBVIOUS
  <2>7. \A k \in 0..(m + 1) : h[k] = F(h, k)
    <3> SUFFICES ASSUME NEW k \in 0..(m + 1) PROVE h[k] = F(h, k)
      OBVIOUS
    <3>1. F(h, k) = F(g, k)
      BY <2>5
    <3>2. h[k] = IF k = m + 1 THEN F(g, k) ELSE g[k]
      BY <2>2
    <3>3. k # m + 1 => g[k] = F(g, k)
      BY <2>3, <2>6
    <3> QED BY <3>1, <3>2, <3>3
  <2>8. h = [k \in 0..(m + 1) |-> h[k]]
    BY <2>2
  <2>9. Solves(h, m + 1)
    BY <2>7, <2>8, Zenon
  <2> QED BY <2>9
<1>4. Len(t) \in T
  <2> HIDE DEF T
  <2>1. Nat \subseteq T
    BY <1>2, <1>3, SetInduction
  <2> QED BY <1>1, <2>1
<1>5. \E g : Solves(g, Len(t))
  BY <1>4
<1>6. Walk(t) = CHOOSE g : Solves(g, Len(t))
  BY DEF Walk, WalkStep
<1>7. Solves(Walk(t), Len(t))
  <2> HIDE DEF Solves
  <2> QED BY <1>5, <1>6
<1>8. \A k \in 0..Len(t) : Walk(t)[k] = F(Walk(t), k)
  <2> HIDE DEF F
  <2>1. PICK g : g = Walk(t)
    OBVIOUS
  <2>2. Solves(g, Len(t))
    BY <1>7, <2>1
  <2>3. \A k \in 0..Len(t) : g[k] = F(g, k)
    BY <2>2, Zenon
  <2> QED BY <2>1, <2>3
<1> QED BY <1>1, <1>8

\* The levels a node of the walk has, one for each level of the topic.
Fits(t, n) == \A i \in 1..Len(n) :
    n[i] = t[i] \/ (n[i] = SingleLevelWildcard /\ ~(i = 1 /\ IsSystem(t)))

\* A child of a node.
LEMMA AppendLevel ==
    ASSUME NEW m \in Node, NEW l
    PROVE  /\ l \in STRING => Append(m, l) \in Node
           /\ Len(m) \in Nat /\ Len(Append(m, l)) = Len(m) + 1
           /\ Append(m, l)[Len(m) + 1] = l
           /\ \A i \in 1..Len(m) : Append(m, l)[i] = m[i]
<1>1. m \in Seq(STRING) /\ Len(m) \in Nat
  BY DEF Node
<1>2. ASSUME l \in STRING PROVE Append(m, l) \in Seq(STRING)
  BY <1>1, <1>2, AppendProperties
<1>3. PICK S : S = STRING \cup {l}
  OBVIOUS
<1>4. m \in Seq(S) /\ l \in S
  BY <1>1, <1>3
<1>5. Len(Append(m, l)) = Len(m) + 1 /\ Append(m, l)[Len(m) + 1] = l
  BY <1>4, AppendProperties
<1>6. \A i \in 1..Len(m) : Append(m, l)[i] = m[i]
  BY <1>4, AppendProperties
<1> QED BY <1>1, <1>2, <1>5, <1>6 DEF Node

\* A node is its parent and its last level.
LEMMA LastLevel ==
    ASSUME NEW n \in Node, NEW k \in Nat, Len(n) = k + 1
    PROVE  /\ Prefix(n, k) \in Node /\ Len(Prefix(n, k)) = k
           /\ \A i \in 1..k : Prefix(n, k)[i] = n[i]
           /\ n[k + 1] \in STRING /\ n = Append(Prefix(n, k), n[k + 1])
<1>1. k \in 0..Len(n)
  OBVIOUS
<1>2. /\ Prefix(n, k) \in Node /\ Len(Prefix(n, k)) = k
      /\ \A i \in 1..k : Prefix(n, k)[i] = n[i]
  BY <1>1, PrefixProps
<1>3. n[k + 1] \in STRING
  BY DEF Node
<1>4. PICK m \in Node : m = Prefix(n, k)
  BY <1>2
<1>5. PICK l \in STRING : l = n[k + 1]
  BY <1>3
<1>6. /\ Append(m, l) \in Node /\ Len(Append(m, l)) = k + 1
      /\ \A i \in 1..k : Append(m, l)[i] = m[i]
      /\ Append(m, l)[k + 1] = l
  <2>1. Len(m) = k
    BY <1>2, <1>4
  <2> QED BY <2>1, AppendLevel, ZenonT(60)
<1>7. \A i \in 1..(k + 1) : Append(m, l)[i] = n[i]
  BY <1>2, <1>4, <1>5, <1>6
<1>8. n = Append(m, l)
  BY <1>6, <1>7, NodeEqual
<1> QED BY <1>2, <1>3, <1>4, <1>5, <1>8

\* The walk reaches exactly the nodes whose levels fit the topic's.
LEMMA Reached ==
    ASSUME IsTrie(trie), NEW t \in Node, NEW k \in 0..Len(t), NEW n
    PROVE  n \in Walk(t)[k] <=> n \in DOMAIN trie /\ Len(n) = k /\ Fits(t, n)
<1> DEFINE At(j) == {m \in DOMAIN trie : Len(m) = j /\ Fits(t, m)}
           T == {j \in Nat : j <= Len(t) => Walk(t)[j] = At(j)}
<1>0. Len(t) \in Nat /\ \A i \in 1..Len(t) : t[i] \in STRING
  BY DEF Node
<1>1. Walk(t)[0] = {Root}
      /\ \A j \in 1..Len(t) : Walk(t)[j] = WalkStep(t, j, Walk(t)[j - 1])
  BY WalkUnfolds
<1>2. 0 \in T
  <2>1. \A m \in DOMAIN trie : Len(m) = 0 <=> m = Root
    BY DEF IsTrie, Node, Root
  <2>2. Root \in DOMAIN trie /\ Fits(t, Root)
    BY DEF IsTrie, Fits, Root
  <2>3. At(0) = {Root}
    BY <2>1, <2>2
  <2> QED BY <1>1, <2>3
<1>3. ASSUME NEW j \in Nat, j \in T PROVE j + 1 \in T
  <2> SUFFICES ASSUME j + 1 <= Len(t) PROVE Walk(t)[j + 1] = At(j + 1)
    OBVIOUS
  <2>1. j <= Len(t) /\ j + 1 \in 1..Len(t) /\ j + 1 - 1 = j
    BY <1>0
  <2>2. Walk(t)[j] = At(j)
    BY <1>3, <2>1
  <2>3. Walk(t)[j + 1] = WalkStep(t, j + 1, At(j))
    <3>1. Walk(t)[j + 1] = WalkStep(t, j + 1, Walk(t)[j + 1 - 1])
      BY <1>1, <2>1
    <3>2. Walk(t)[j + 1 - 1] = Walk(t)[j]
      BY <2>1
    <3> HIDE DEF At
    <3> QED BY <2>2, <3>1, <3>2
  <2>4. ASSUME NEW x \in WalkStep(t, j + 1, At(j)) PROVE x \in At(j + 1)
    <3>1. PICK m \in At(j) : x \in WalkFrom(t, j + 1, m)
      BY DEF WalkStep
    <3>2. m \in Node /\ Len(m) = j /\ Fits(t, m) /\ x \in DOMAIN trie
      BY <3>1 DEF WalkFrom, IsTrie
    <3>3. PICK l : /\ x = Append(m, l)
                   /\ \/ l = t[j + 1]
                      \/ l = SingleLevelWildcard /\ ~(j + 1 = 1 /\ IsSystem(t))
      BY <3>1 DEF WalkFrom
    <3>4. /\ Len(x) = j + 1 /\ x[j + 1] = l
          /\ \A i \in 1..j : x[i] = m[i]
      BY <3>2, <3>3, AppendLevel
    <3>5. Fits(t, x)
      <4> SUFFICES ASSUME NEW i \in 1..(j + 1)
                   PROVE  \/ x[i] = t[i]
                          \/ x[i] = SingleLevelWildcard /\ ~(i = 1 /\ IsSystem(t))
        BY <3>4 DEF Fits
      <4>1. CASE i = j + 1
        BY <3>3, <3>4, <4>1
      <4>2. CASE i \in 1..j
        BY <3>2, <3>4, <4>2 DEF Fits
      <4> QED BY <4>1, <4>2
    <3> QED BY <3>2, <3>4, <3>5
  <2>5. ASSUME NEW x \in At(j + 1) PROVE x \in WalkStep(t, j + 1, At(j))
    <3>1. x \in Node /\ x \in DOMAIN trie /\ Len(x) = j + 1 /\ Fits(t, x)
      BY DEF IsTrie
    <3>2. PICK m : m = Prefix(x, j)
      OBVIOUS
    <3>3. /\ m \in Node /\ Len(m) = j /\ \A i \in 1..j : m[i] = x[i]
          /\ x = Append(m, x[j + 1])
      BY <3>1, <3>2, LastLevel
    <3>4. m \in DOMAIN trie
      <4>1. j \in 0..Len(x)
        BY <3>1
      <4>2. m \in Path(x)
        BY <3>1, <3>2, <4>1, PathProps
      <4> QED BY <3>1, <4>2 DEF IsTrie
    <3>5. Fits(t, m)
      BY <3>1, <3>3 DEF Fits
    <3>6. x[j + 1] = t[j + 1]
          \/ (x[j + 1] = SingleLevelWildcard /\ ~(j + 1 = 1 /\ IsSystem(t)))
      BY <3>1 DEF Fits
    <3>7. x \in WalkFrom(t, j + 1, m)
      BY <3>1, <3>3, <3>6 DEF WalkFrom
    <3> QED BY <3>3, <3>4, <3>5, <3>7 DEF WalkStep
  <2> QED BY <2>3, <2>4, <2>5
<1>4. k \in T /\ k <= Len(t)
  <2> HIDE DEF T
  <2>1. Nat \subseteq T
    BY <1>2, <1>3, SetInduction
  <2> QED BY <1>0, <2>1
<1> QED BY <1>4

\* What walk collects: the nodes that fit the whole topic, and the '#' children
\* of the nodes that fit its beginning.
LEMMA CollectedNodes ==
    ASSUME IsTrie(trie), NEW t \in Node, NEW n \in DOMAIN trie
    PROVE  n \in Collected(t) <=>
              \/ Len(n) = Len(t) /\ Fits(t, n)
              \/ \E k \in 0..Len(t) : /\ Len(n) = k + 1 /\ n[k + 1] = MultiLevelWildcard
                                      /\ Fits(t, Prefix(n, k)) /\ ~(k = 0 /\ IsSystem(t))
<1>0. n \in Node /\ Len(t) \in Nat /\ Len(t) \in 0..Len(t)
  BY DEF IsTrie, Node
<1>1. n \in Walk(t)[Len(t)] <=> Len(n) = Len(t) /\ Fits(t, n)
  BY <1>0, Reached
<1>2. ASSUME NEW k \in 0..Len(t)
      PROVE  (\E m \in Walk(t)[k] : n = Append(m, MultiLevelWildcard)) <=>
                Len(n) = k + 1 /\ n[k + 1] = MultiLevelWildcard /\ Fits(t, Prefix(n, k))
  <2>0. k \in Nat
    BY <1>0
  <2>1. ASSUME NEW m \in Walk(t)[k], n = Append(m, MultiLevelWildcard)
        PROVE  Len(n) = k + 1 /\ n[k + 1] = MultiLevelWildcard /\ Fits(t, Prefix(n, k))
    <3>1. m \in DOMAIN trie /\ Len(m) = k /\ Fits(t, m)
      BY Reached
    <3>2. m \in Node
      BY <3>1 DEF IsTrie
    <3>3. /\ Len(n) = k + 1 /\ n[k + 1] = MultiLevelWildcard
          /\ \A i \in 1..k : n[i] = m[i]
      BY <2>1, <3>1, <3>2, AppendLevel
    <3>4. Prefix(n, k) = m
      <4>1. /\ Prefix(n, k) \in Node /\ Len(Prefix(n, k)) = k
            /\ \A i \in 1..k : Prefix(n, k)[i] = n[i]
        BY <1>0, <2>0, <3>3, LastLevel
      <4> QED BY <3>1, <3>2, <3>3, <4>1, NodeEqual
    <3> QED BY <3>1, <3>3, <3>4
  <2>2. ASSUME Len(n) = k + 1, n[k + 1] = MultiLevelWildcard, Fits(t, Prefix(n, k))
        PROVE  \E m \in Walk(t)[k] : n = Append(m, MultiLevelWildcard)
    <3>1. Len(Prefix(n, k)) = k /\ n = Append(Prefix(n, k), n[k + 1])
      BY <1>0, <2>0, <2>2, LastLevel
    <3>2. Prefix(n, k) \in DOMAIN trie
      <4>1. k \in 0..Len(n)
        BY <2>0, <2>2
      <4>2. Prefix(n, k) \in Path(n)
        BY <1>0, <4>1, PathProps
      <4> QED BY <4>2 DEF IsTrie
    <3>3. Prefix(n, k) \in Walk(t)[k]
      BY <2>2, <3>1, <3>2, Reached
    <3> QED BY <2>2, <3>1, <3>3
  <2> QED BY <2>1, <2>2
<1>3. n \in Collected(t) <=>
         \/ n \in Walk(t)[Len(t)]
         \/ \E k \in 0..Len(t) : /\ \E m \in Walk(t)[k] : n = Append(m, MultiLevelWildcard)
                                 /\ ~(k = 0 /\ IsSystem(t))
  BY DEF Collected
<1> QED BY <1>1, <1>2, <1>3

\* At a filter's node, that is TopicFilter.Matches.
LEMMA CollectedMatches ==
    ASSUME IsTrie(trie), NEW t \in TopicNames, NEW f \in Filters, f \in DOMAIN trie
    PROVE  f \in Collected(t) <=> Matches(f, t)
<1> USE DEF Wildcards, SingleLevelWildcard, MultiLevelWildcard
<1>1. /\ t \in Node /\ f \in Node /\ Len(t) \in Nat /\ Len(f) \in Nat
      /\ Len(t) > 0 /\ Len(f) > 0
  BY DEF Node, IsTopicName, IsTopicFilter
<1>2. /\ \A i \in 1..Len(t) : t[i] # "+" /\ t[i] # "#"
      /\ \A i \in 1..(Len(f) - 1) : f[i] # "#"
  BY DEF IsTopicName, IsTopicFilter
<1>3. f \in Collected(t) <=>
         \/ Len(f) = Len(t) /\ Fits(t, f)
         \/ \E k \in 0..Len(t) : /\ Len(f) = k + 1 /\ f[k + 1] = "#"
                                 /\ Fits(t, Prefix(f, k)) /\ ~(k = 0 /\ IsSystem(t))
  BY <1>1, CollectedNodes
<1>4. ASSUME Len(f) = Len(t), Fits(t, f) PROVE Matches(f, t)
  <2>1. \A i \in 1..Len(f) : f[i] = t[i] \/ (f[i] = "+" /\ ~(i = 1 /\ IsSystem(t)))
    BY <1>4 DEF Fits
  <2>2. ~(IsSystem(t) /\ f[1] \in Wildcards)
    BY <1>1, <1>2, <1>4, <2>1
  <2> QED BY <1>1, <1>4, <2>1, <2>2 DEF Matches
<1>5. ASSUME NEW k \in 0..Len(t), Len(f) = k + 1, f[k + 1] = "#",
             Fits(t, Prefix(f, k)), ~(k = 0 /\ IsSystem(t))
      PROVE  Matches(f, t)
  <2>0. k \in Nat /\ k <= Len(t)
    BY <1>1
  <2>1. Len(Prefix(f, k)) = k /\ \A i \in 1..k : Prefix(f, k)[i] = f[i]
    BY <1>1, <1>5, <2>0, LastLevel
  <2>2. \A i \in 1..k : f[i] = t[i] \/ (f[i] = "+" /\ ~(i = 1 /\ IsSystem(t)))
    BY <1>5, <2>1 DEF Fits
  <2>3. ~(IsSystem(t) /\ f[1] \in Wildcards)
    <3>1. CASE k = 0
      BY <1>5, <3>1
    <3>2. CASE k # 0
      BY <1>1, <1>2, <2>0, <2>2, <3>2
    <3> QED BY <3>1, <3>2
  <2>4. \A i \in 1..Len(f) : f[i] # "#" => i <= Len(t) /\ (f[i] = "+" \/ f[i] = t[i])
    <3> SUFFICES ASSUME NEW i \in 1..(k + 1), f[i] # "#"
                 PROVE  i <= Len(t) /\ (f[i] = "+" \/ f[i] = t[i])
      BY <1>5
    <3>1. i \in 1..k
      BY <1>5, <2>0
    <3> QED BY <2>0, <2>2, <3>1
  <2> QED BY <1>5, <2>3, <2>4 DEF Matches
<1>6. ASSUME Matches(f, t), f[Len(f)] # "#" PROVE Len(f) = Len(t) /\ Fits(t, f)
  <2>1. Len(f) = Len(t) /\ ~(IsSystem(t) /\ f[1] = "+")
    BY <1>6 DEF Matches
  <2>2. \A i \in 1..Len(f) : f[i] # "#"
    BY <1>1, <1>2, <1>6
  <2>3. \A i \in 1..Len(f) : f[i] = "+" \/ f[i] = t[i]
    BY <1>6, <2>2 DEF Matches
  <2> QED BY <2>1, <2>3 DEF Fits
<1>7. ASSUME Matches(f, t), f[Len(f)] = "#"
      PROVE  \E k \in 0..Len(t) : /\ Len(f) = k + 1 /\ f[k + 1] = "#"
                                  /\ Fits(t, Prefix(f, k)) /\ ~(k = 0 /\ IsSystem(t))
  <2>1. PICK k \in Nat : Len(f) = k + 1
    <3>1. Len(f) - 1 \in Nat /\ Len(f) = (Len(f) - 1) + 1
      BY <1>1
    <3> QED BY <3>1
  <2>2. /\ ~(IsSystem(t) /\ (f[1] = "+" \/ f[1] = "#"))
        /\ \A i \in 1..k : i <= Len(t) /\ (f[i] = "+" \/ f[i] = t[i])
    <3>1. \A i \in 1..k : f[i] # "#" /\ i \in 1..Len(f)
      BY <1>2, <2>1
    <3> QED BY <1>7, <3>1 DEF Matches
  <2>3. k \in 0..Len(t)
    <3>1. CASE k = 0
      BY <1>1, <3>1
    <3>2. CASE k # 0
      <4>1. k \in 1..k
        BY <3>2
      <4> QED BY <1>1, <2>2, <4>1
    <3> QED BY <3>1, <3>2
  <2>4. ~(k = 0 /\ IsSystem(t))
    BY <1>7, <2>1, <2>2
  <2>5. Len(Prefix(f, k)) = k /\ \A i \in 1..k : Prefix(f, k)[i] = f[i]
    BY <1>1, <2>1, LastLevel
  <2>6. Fits(t, Prefix(f, k))
    BY <2>2, <2>5 DEF Fits
  <2>7. f[k + 1] = "#"
    BY <1>7, <2>1
  <2> QED BY <2>1, <2>3, <2>4, <2>6, <2>7
<1> QED BY <1>3, <1>4, <1>5, <1>6, <1>7

\* The highest QoS of a set; who is not granted anything does not count.
LEMMA HighestQoS ==
    ASSUME NEW A \in SUBSET (QoS \cup {NoQoS})
    PROVE  (IF A = {} THEN NoQoS ELSE CHOOSE q \in A : \A r \in A : r <= q) =
              IF 1 \in A THEN 1 ELSE IF 0 \in A THEN 0 ELSE NoQoS
<1> USE DEF QoS, NoQoS
<1>1. CASE A = {}
  BY <1>1
<1>2. CASE A # {}
  <2> DEFINE top == IF 1 \in A THEN 1 ELSE IF 0 \in A THEN 0 ELSE -1
  <2>1. \A r \in A : r = -1 \/ r = 0 \/ r = 1
    OBVIOUS
  <2>2. top \in A /\ \A r \in A : r <= top
    <3>1. CASE 1 \in A
      BY <2>1, <3>1
    <3>2. CASE 1 \notin A /\ 0 \in A
      <4>1. \A r \in A : r = -1 \/ r = 0
        BY <2>1, <3>2
      <4> QED BY <3>2, <4>1
    <3>3. CASE 1 \notin A /\ 0 \notin A
      <4>1. \A r \in A : r # 0 /\ r # 1
        BY <3>3
      <4>2. \A r \in A : r = -1
        BY <2>1, <4>1
      <4>3. top = -1
        BY <3>3
      <4>4. -1 \in A
        BY <1>2, <4>2
      <4> HIDE DEF top
      <4> QED BY <4>2, <4>3, <4>4
    <3> QED BY <3>1, <3>2, <3>3
  <2>3. \A q \in A : (\A r \in A : r <= q) => q = top
    BY <2>1, <2>2
  <2>4. (CHOOSE q \in A : \A r \in A : r <= q) \in A
        /\ \A r \in A : r <= (CHOOSE q \in A : \A s \in A : s <= q)
    BY <2>2
  <2>5. (CHOOSE q \in A : \A r \in A : r <= q) = top
    BY <2>3, <2>4
  <2> QED BY <1>2, <2>5
<1> QED BY <1>1, <1>2

\* Match finds what TopicFilter.Matches says it should, whoever subscribed and
\* unsubscribed before and in whatever order.
THEOREM TrieMatches ==
    Spec => []MatchAgrees
<1>1. IndexInv => MatchAgrees
  <2> SUFFICES ASSUME IndexInv, lockedFor = NoClient, NEW t \in TopicNames
               PROVE  Match(t) = Abstract!Recipients(t)
    BY DEF MatchAgrees
  <2> DEFINE A(c) == {trie[n][c] : n \in Collected(t)}
             B(c) == {Seen[c][f] : f \in {g \in Filters : Matches(g, t)}}
             Top(S) == IF S = {} THEN NoQoS ELSE CHOOSE q \in S : \A r \in S : r <= q
  <2>0. IsTrie(trie) /\ t \in Node /\ Len(t) \in Nat /\ Len(t) \in 0..Len(t)
    BY DEF IndexInv, ShapeInv, Node
  <2>1. Collected(t) \subseteq DOMAIN trie
    <3>1. Walk(t)[Len(t)] \subseteq DOMAIN trie
      BY <2>0, Reached
    <3> QED BY <3>1 DEF Collected
  <2>2. ASSUME NEW c \in Clients
        PROVE  \A f \in Filters : Seen[c][f] = Grant(trie, f, c)
    BY <2>2, SeenGrant
  <2>3. ASSUME NEW c \in Clients PROVE A(c) \subseteq QoS \cup {NoQoS}
    BY <2>0, <2>1 DEF IsTrie, Subscribers
  <2>4. ASSUME NEW c \in Clients PROVE B(c) \subseteq QoS \cup {NoQoS}
    <3>1. \A f \in Filters : Grant(trie, f, c) \in QoS \cup {NoQoS}
      BY <2>0 DEF IsTrie, Subscribers, Grant
    <3> QED BY <2>2, <3>1
  <2>5. ASSUME NEW c \in Clients, NEW q \in QoS PROVE q \in A(c) <=> q \in B(c)
    <3>1. q # NoQoS
      BY DEF QoS, NoQoS
    <3>2. ASSUME q \in A(c) PROVE q \in B(c)
      <4>1. PICK n \in Collected(t) : trie[n][c] = q
        BY <3>2
      <4>2. Grant(trie, n, c) = q
        BY <2>1, <4>1 DEF Grant
      <4>3. n \in Filters
        BY <3>1, <4>2 DEF IndexInv, GrantInv, LockInv, Kept
      <4>4. Matches(n, t)
        BY <2>0, <2>1, <4>1, <4>3, CollectedMatches
      <4> QED BY <2>2, <4>2, <4>3, <4>4
    <3>3. ASSUME q \in B(c) PROVE q \in A(c)
      <4>1. PICK f \in Filters : Matches(f, t) /\ Seen[c][f] = q
        BY <3>3
      <4>2. Grant(trie, f, c) = q
        BY <2>2, <4>1
      <4>3. f \in DOMAIN trie /\ trie[f][c] = q
        BY <3>1, <4>2 DEF Grant
      <4>4. f \in Collected(t)
        BY <2>0, <4>1, <4>3, CollectedMatches
      <4> QED BY <4>3, <4>4
    <3> QED BY <3>2, <3>3
  <2>6. ASSUME NEW c \in Clients PROVE Top(A(c)) = Top(B(c))
    <3>1. PICK S \in SUBSET (QoS \cup {NoQoS}) : S = A(c)
      BY <2>3, <2>6
    <3>2. PICK R \in SUBSET (QoS \cup {NoQoS}) : R = B(c)
      BY <2>4, <2>6
    <3>3. Top(S) = IF 1 \in S THEN 1 ELSE IF 0 \in S THEN 0 ELSE NoQoS
      BY HighestQoS
    <3>4. Top(R) = IF 1 \in R THEN 1 ELSE IF 0 \in R THEN 0 ELSE NoQoS
      BY HighestQoS
    <3>5. (1 \in S <=> 1 \in R) /\ (0 \in S <=> 0 \in R)
      BY <2>5, <2>6, <3>1, <3>2 DEF QoS
    <3> HIDE DEF A, B, Top
    <3>6. CASE 1 \in S
      BY <3>1, <3>2, <3>3, <3>4, <3>5, <3>6
    <3>7. CASE 1 \notin S /\ 0 \in S
      BY <3>1, <3>2, <3>3, <3>4, <3>5, <3>7
    <3>8. CASE 1 \notin S /\ 0 \notin S
      BY <3>1, <3>2, <3>3, <3>4, <3>5, <3>8
    <3> QED BY <3>6, <3>7, <3>8
  <2>7. Match(t) = [c \in Clients |-> Top(A(c))]
    BY DEF Match
  <2>8. \A g : Abstract!Matches(g, t) <=> Matches(g, t)
    BY DEF Abstract!Matches, Matches, Abstract!IsSystem, IsSystem, Abstract!Wildcards, Wildcards,
           Abstract!SingleLevelWildcard, SingleLevelWildcard,
           Abstract!MultiLevelWildcard, MultiLevelWildcard
  <2>9. Abstract!Recipients(t) = [c \in Clients |-> Top(B(c))]
    <3>1. {g \in Filters : Abstract!Matches(g, t)} = {g \in Filters : Matches(g, t)}
      BY <2>8
    <3>2. Abstract!Recipients(t) =
             [c \in Clients |-> Top({Seen[c][f] : f \in {g \in Filters : Abstract!Matches(g, t)}})]
      BY DEF Abstract!Recipients, Abstract!Highest, Abstract!NoQoS, NoQoS, Seen
    <3> QED BY <3>1, <3>2
  <2> HIDE DEF A, B, Top
  <2> QED BY <2>6, <2>7, <2>9
<1> QED BY <1>1, IndexAlways, PTL
============================================================================
