----------------------------- MODULE MC_Sessions -----------------------------
EXTENDS Sessions, TLC
Symmetry == Permutations(Slot) \cup Permutations(Account)
              \cup Permutations(User) \cup Permutations(Verifier)

\* bounds of the check: how many kinds of unlucky order meet in one behaviour,
\* which is not followed beyond the reading of a key that was freed
FewMishaps == Cardinality(mishaps) <= 2 /\ "key-freed" \notin mishaps
=============================================================================
