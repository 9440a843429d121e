------------------------------ MODULE MCStream ------------------------------
(* A small instance of Stream for TLC: a header of two bytes, frames       *)
(* whose bytes look like the length of another frame, and one that is      *)
(* too short for a header.                                                 *)
EXTENDS Stream

Frames == {<<0, 2>>, <<5, 0, 0, 0, 2>>, <<7>>}
=============================================================================
