---------------------------- MODULE MCTopicIndex ----------------------------
(***************************************************************************)
(* TopicIndex on filters that share nodes, shadow one another and reach    *)
(* system topics, and every topic of up to two levels, and two of three.   *)
(***************************************************************************)
EXTENDS TopicIndex, TLC

Symmetry == Permutations(Clients)

MCFilters ==
    {<<"#">>, <<"+", "b">>, <<"a">>, <<"a", "#">>, <<"a", "b">>}

MCLevels == {"a", "b", "$"}
MCTopics == UNION {[1..n -> MCLevels] : n \in 1..2} \cup {<<"a", "b", "a">>, <<"$", "a", "b">>}
============================================================================
