------------------------------ MODULE MCClient ------------------------------
(***************************************************************************)
(* Two goroutines share a client: one publishes and may close it, the other *)
(* subscribes and may disconnect.                                          *)
(***************************************************************************)
EXTENDS Client, TLC

CONSTANTS a, b

MCUses == (a :> {"await", "close"}) @@ (b :> {"subscribe", "disconnect"})
============================================================================
