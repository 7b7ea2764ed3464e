---------------------------- MODULE MCConfigEntry ----------------------------
EXTENDS ConfigEntry, TLC
MCSym == Permutations(Arcs) \union Permutations(Hosts)
=============================================================================
