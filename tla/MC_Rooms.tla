------------------------------ MODULE MC_Rooms ------------------------------
(* Five players and two rooms of four seats: enough for a room to fill and *)
(* a sixth seat to be taken, and, with players that come back, for every   *)
(* room to be handed out in full and the table to be overrun.              *)
EXTENDS Rooms, TLC

Symmetry == Permutations(Player)
=============================================================================
