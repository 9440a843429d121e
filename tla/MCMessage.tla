----------------------------- MODULE MCMessage -----------------------------
(* A small instance of Message for TLC. *)
EXTENDS Message, TLC

Symmetry == Permutations(Block)
=============================================================================
