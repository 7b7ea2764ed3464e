------------------------------ MODULE MCPanel ------------------------------
EXTENDS Panel, TLC
CONSTANTS a1, a2, c1, c2, c3, away
MCSym == Permutations(Calls)
=============================================================================
