----------------------------- MODULE MCDelivery -----------------------------
(***************************************************************************)
(* Small instances of Delivery for TLC.                                    *)
(***************************************************************************)
EXTENDS Delivery, TLC

\* Publishers run the same code and nothing tells them apart.
Symmetry == Permutations(Publishers)
============================================================================
