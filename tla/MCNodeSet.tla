----------------------------- MODULE MCNodeSet -----------------------------
(* Small instances of NodeSet and NodeExport for TLC. *)
EXTENDS NodeExport, TLC

CONSTANTS d1, d2

(* Device lists with an empty one, for the runs about memory, and without, *)
(* for the runs about values.                                              *)
EmptyOrOne == {<< >>, <<d1>>}
OneOrTwo == {<<d1>>, <<d1, d2>>}

Symmetry == Permutations(NodeId) \cup Permutations(Var) \cup Permutations(Block)
=============================================================================
