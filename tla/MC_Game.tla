------------------------------- MODULE MC_Game -------------------------------
EXTENDS Game, TLC
Symmetry == Permutations(Player) \cup Permutations(FishNode)
              \cup Permutations(BulletNode)
=============================================================================
