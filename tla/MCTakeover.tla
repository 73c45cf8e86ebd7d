----------------------------- MODULE MCTakeover -----------------------------
(***************************************************************************)
(* Model values for Takeover.                                              *)
(***************************************************************************)
EXTENDS Takeover, TLC

Symmetry == Permutations(Conns)
============================================================================
