------------------------------ MODULE MC_Saving ------------------------------
EXTENDS Saving, TLC
Symmetry == Permutations(User)

(* Bounds of the run: it goes no further once two kinds of unlucky order, of *)
(* which an exit is none, or three plays and deposits have met.             *)
Few ==
  /\ Cardinality(mishaps \ {"exit"}) <= 1
  /\ plays + deposits <= 2
=============================================================================
