------------------------------ MODULE NodeSeq ------------------------------
(***************************************************************************)
(* What a list of a room promises to Game: a sequence of nodes to which     *)
(* create adds at the end, from which destroy takes a node wherever it is,  *)
(* and which clear empties.                                                 *)
(***************************************************************************)
EXTENDS SequencesExt

CONSTANT Node

VARIABLE list

Init == list = <<>>

Create(n) == n \notin ToSet(list) /\ list' = Append(list, n)
Destroy(n) == \E i \in DOMAIN list : list[i] = n /\ list' = RemoveAt(list, i)
Clear == list' = <<>>

Next == Clear \/ \E n \in Node : Create(n) \/ Destroy(n)

Spec == Init /\ [][Next]_list
=============================================================================
