------------------------------ MODULE MCRouter ------------------------------
(***************************************************************************)
(* The room for TLC: peers that only consume are interchangeable.          *)
(***************************************************************************)
EXTENDS Router, TLC

Peers == Permutations(Consuming)
=============================================================================
