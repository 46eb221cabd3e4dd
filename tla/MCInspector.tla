------------------------------ MODULE MCInspector ------------------------------
EXTENDS Inspector, TLC
CONSTANTS a1, a2, s1, s2
Symmetric == Permutations({a1, a2}) \cup Permutations({s1, s2})
=============================================================================
