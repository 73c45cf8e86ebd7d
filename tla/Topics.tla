------------------------------- MODULE Topics -------------------------------
(***************************************************************************)
(* Topic names and topic filters                                           *)
(* (pkg/domain/message_aggregate/value_objects): a name or a filter is the *)
(* sequence of its levels.  Matches is the broker's own definition of      *)
(* topic matching; its comment calls it the specification the trie must    *)
(* agree with.                                                             *)
(***************************************************************************)
EXTENDS Integers, Sequences

CONSTANT SystemLevel   \* a level that begins with '$'

SingleLevelWildcard == "+"
MultiLevelWildcard  == "#"
Wildcards == {SingleLevelWildcard, MultiLevelWildcard}

\* NewTopicName: at least one level, no wildcard.
IsTopicName(t) == t # <<>> /\ \A i \in 1..Len(t) : t[i] \notin Wildcards

\* NewTopicFilter: '#' only as the last level.
IsTopicFilter(f) ==
    f # <<>> /\ \A i \in 1..(Len(f) - 1) : f[i] # MultiLevelWildcard

IsSystem(t) == t[1] = SystemLevel

\* The level-by-level comparison: '#' ends it, also where the topic has no
\* level left; '+' takes one level, whatever it is.
Matches(f, t) ==
    /\ ~(IsSystem(t) /\ f[1] \in Wildcards)
    /\ \A i \in 1..Len(f) :
          f[i] # MultiLevelWildcard =>
              i <= Len(t) /\ (f[i] = SingleLevelWildcard \/ f[i] = t[i])
    /\ f[Len(f)] = MultiLevelWildcard \/ Len(f) = Len(t)
============================================================================
