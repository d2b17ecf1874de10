--------------------------- MODULE MC_MemoryPool ---------------------------
EXTENDS PoolRace, TLC
Symmetry == Permutations(Handle)
=============================================================================
