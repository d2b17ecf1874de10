--------------------------- MODULE MC_LinkedList ---------------------------
EXTENDS LinkedList, TLC
Symmetry == Permutations(Node) \cup Permutations(Thread)
=============================================================================
