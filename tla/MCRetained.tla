----------------------------- MODULE MCRetained -----------------------------
(***************************************************************************)
(* Retained with a wildcard filter and an exact one that overlap.          *)
(***************************************************************************)
EXTENDS Retained, TLC

Symmetry == Permutations(Publishers)

MCFilters == {<<"+">>, <<"a">>}
MCTopics  == {<<"a">>, <<"b">>}
============================================================================
