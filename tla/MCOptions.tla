------------------------------- MODULE MCOptions -------------------------------
EXTENDS Options, TLC
MCSym == Permutations(Areas) \union Permutations(Tabs)
=============================================================================
