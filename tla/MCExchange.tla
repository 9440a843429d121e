----------------------------- MODULE MCExchange -----------------------------
EXTENDS Exchange, TLC
CONSTANTS o, g1, i1, i2, s1, s2, z
Symmetry == Permutations({i1, i2}) \cup Permutations({s1, s2})
=============================================================================
