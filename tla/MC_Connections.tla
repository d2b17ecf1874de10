--------------------------- MODULE MC_Connections ---------------------------
EXTENDS Connections

(* Bounds of the run: one kind of unlucky order in a behaviour, and five    *)
(* connections, messages and seconds together.                             *)
Short ==
  /\ Cardinality(mishaps) <= 1
  /\ connects + sends + (clock - Epoch) <= 5
=============================================================================
