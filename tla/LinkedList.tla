----------------------------- MODULE LinkedList -----------------------------
(***************************************************************************)
(* The doubly linked list of Fishs and of Bullets (source/fishs.hpp,        *)
(* source/bullets.hpp: the same code twice), by its pointers, with several  *)
(* threads at create, destroy and clear, each between taking the lock and   *)
(* giving it back (SpinLock).  A call is cut at its pointer assignments.    *)
(*                                                                         *)
(* The list is followed until two threads have raced for the lock: what     *)
(* they then do to it is anybody's guess, and the model lets it be.         *)
(***************************************************************************)
EXTENDS Integers, Sequences, FiniteSets

CONSTANTS
  Thread,  \* those that use one list: select, fish or bullet, verifiers
  Node,    \* the blocks of memory the nodes live in
  NULL

ASSUME LinkedListAssumption == NULL \notin Node /\ IsFiniteSet(Node)

VARIABLES
  lock, at, raced,  \* the lock: see SpinLock
  head, curr,       \* _head, _curr
  next, prev,       \* the pointers in each node, garbage when it is not allocated
  len,              \* _len
  allocated,        \* the nodes that have been allocated and not freed
  todo,             \* the statement a thread inside has come to
  node,             \* its node p
  before            \* history: the list as the thread inside found it

pointers == <<head, curr, next, prev, len, allocated>>
calls == <<todo, node, before>>
vars == <<lock, at, raced, pointers, calls>>

L == INSTANCE SpinLock

Init ==
  /\ L!Init
  /\ head = NULL /\ curr = NULL
  /\ next = [n \in Node |-> NULL] /\ prev = [n \in Node |-> NULL]
  /\ len = 0
  /\ allocated = {}
  /\ todo = [t \in Thread |-> "done"]
  /\ node = [t \in Thread |-> NULL]
  /\ before = <<>>

(* The nodes met from head on, until NULL: what clear frees and every walk  *)
(* sees.                                                                   *)
Met[i \in 1 .. Cardinality(Node) + 1] ==
  IF i = 1 THEN head
  ELSE IF Met[i - 1] = NULL THEN NULL ELSE next[Met[i - 1]]

Path == [i \in 1 .. Cardinality({k \in DOMAIN Met : Met[k] # NULL}) |-> Met[i]]

Reached == {Path[i] : i \in DOMAIN Path}

----------------------------------------------------------------------------
(* Slips a maintainer could make; each is swapped in to test a property.   *)

HeadKept(n) == head
NextKept(n) == next

----------------------------------------------------------------------------
(* Inside the lock.                                                        *)

Go(t, statement) == todo' = [todo EXCEPT ![t] = statement]

Inside(t, statement) ==
  at[t] = "in" /\ raced = "no" /\ todo[t] = statement

(* Which call it is.  getFish and getBullet, and a create that finds no     *)
(* kind of fish, leave the list as it is.  Game says when the node handed   *)
(* to destroy is in the list.                                               *)
Enter(t) ==
  /\ L!Lock(t)
  /\ \/ raced = "no" /\ \E n \in Node \ allocated :
          Go(t, "create") /\ node' = [node EXCEPT ![t] = n]
     \/ raced = "no" /\ \E n \in Reached :
          Go(t, "relink-next") /\ node' = [node EXCEPT ![t] = n]
     \/ raced = "no" /\ Go(t, "clear") /\ UNCHANGED node
     \/ Go(t, "done") /\ UNCHANGED node
  /\ before' = IF raced = "no" THEN Path ELSE before
  /\ UNCHANGED pointers

(* create: an empty list is told by its head alone, because clear leaves   *)
(* curr pointing to a freed node.                                           *)
Create(t) ==
  LET n == node[t] IN
  /\ Inside(t, "create")
  /\ allocated' = allocated \cup {n}
  /\ prev' = [prev EXCEPT ![n] = IF head = NULL THEN NULL ELSE curr]
  /\ next' = [next EXCEPT ![n] = NULL]
  /\ Go(t, IF head = NULL THEN "first" ELSE "append")
  /\ UNCHANGED <<lock, at, raced, head, curr, len, node, before>>

LinkFirst(t) ==
  /\ Inside(t, "first")
  /\ head' = node[t]
  /\ Go(t, "last")
  /\ UNCHANGED <<lock, at, raced, curr, next, prev, len, allocated, node, before>>

LinkLast(t) ==
  /\ Inside(t, "append")
  /\ next' = [next EXCEPT ![curr] = node[t]]
  /\ Go(t, "last")
  /\ UNCHANGED <<lock, at, raced, head, curr, prev, len, allocated, node, before>>

Last(t) ==
  /\ Inside(t, "last")
  /\ curr' = node[t]
  /\ len' = len + 1
  /\ Go(t, "done")
  /\ UNCHANGED <<lock, at, raced, head, next, prev, allocated, node, before>>

(* destroy: what it makes of each pointer, one after another.              *)
NextWithout(n) == IF prev[n] = NULL THEN next ELSE [next EXCEPT ![prev[n]] = next[n]]
PrevWithout(n) == IF next[n] = NULL THEN prev ELSE [prev EXCEPT ![next[n]] = prev[n]]
HeadWithout(n) == IF head = n THEN next[n] ELSE head
CurrWithout(n) == IF curr = n THEN prev[n] ELSE curr

RelinkNext(t) ==
  /\ Inside(t, "relink-next")
  /\ next' = NextWithout(node[t])
  /\ Go(t, "relink-prev")
  /\ UNCHANGED <<lock, at, raced, head, curr, prev, len, allocated, node, before>>

RelinkPrev(t) ==
  /\ Inside(t, "relink-prev")
  /\ prev' = PrevWithout(node[t])
  /\ Go(t, "relink-ends")
  /\ UNCHANGED <<lock, at, raced, head, curr, next, len, allocated, node, before>>

RelinkEnds(t) ==
  /\ Inside(t, "relink-ends")
  /\ head' = HeadWithout(node[t])
  /\ curr' = CurrWithout(node[t])
  /\ Go(t, "free")
  /\ UNCHANGED <<lock, at, raced, next, prev, len, allocated, node, before>>

Free(t) ==
  /\ Inside(t, "free")
  /\ allocated' = allocated \ {node[t]}
  /\ len' = len - 1
  /\ Go(t, "done")
  /\ UNCHANGED <<lock, at, raced, head, curr, next, prev, node, before>>

LenCleared == 0

Clear(t) ==
  /\ Inside(t, "clear")
  /\ allocated' = allocated \ Reached
  /\ head' = NULL
  /\ len' = LenCleared
  /\ Go(t, "done")
  /\ UNCHANGED <<lock, at, raced, curr, next, prev, node, before>>

Leave(t) ==
  /\ todo[t] = "done" \/ raced = "yes"
  /\ L!Unlock(t)
  /\ Go(t, "done")
  /\ node' = [node EXCEPT ![t] = NULL]
  /\ UNCHANGED <<pointers, before>>

Step(t) ==
  \/ (L!Call(t) \/ L!SeeFree(t)) /\ UNCHANGED <<pointers, calls>>
  \/ Enter(t) \/ Leave(t)
  \/ Create(t) \/ LinkFirst(t) \/ LinkLast(t) \/ Last(t)
  \/ RelinkNext(t) \/ RelinkPrev(t) \/ RelinkEnds(t) \/ Free(t)
  \/ Clear(t)

Next == \E t \in Thread : Step(t)

Spec == Init /\ [][Next]_vars

(* A thread that has called one of the operations keeps running.           *)
FairSpec == Spec /\ \A t \in Thread : WF_vars(at[t] # "out" /\ Step(t))

----------------------------------------------------------------------------
(* fishs.hpp:45: the lock keeps threads from working on a list at once.     *)
(* It does until two have tested it before either had set it.              *)
ExclusiveUntilRace == L!ExclusiveUntilRace

(* However they raced, somebody who spins, or somebody else, gets in.      *)
SomebodyGetsIn == L!SomebodyGetsIn

(* Whatever was created and destroyed in whatever order, and whoever was   *)
(* waiting, with nobody inside: the walk from head meets every node that is *)
(* allocated, so that clear frees them all, and getLength is their number;  *)
(* and the list is the same backwards, from curr, on which destroy, told    *)
(* only the node, relies.                                                  *)
AllReached ==
  /\ Reached = allocated
  /\ Len(Path) = Cardinality(allocated)
  /\ len = Cardinality(allocated)
BothWays ==
  /\ \A i \in DOMAIN Path : prev[Path[i]] = (IF i = 1 THEN NULL ELSE Path[i - 1])
  /\ head # NULL => curr = Path[Len(Path)]
WellFormed ==
  raced = "no" /\ (\A t \in Thread : at[t] # "in") => AllReached /\ BothWays

(* Each call is one step of the sequence Game works with, taken when the   *)
(* lock is given back.                                                     *)
Seen == IF \E t \in Thread : at[t] = "in" THEN before ELSE Path
Abstract == INSTANCE NodeSeq WITH list <- Seen
EachCallIsOneStep ==
  Abstract!Init /\ [][raced' = "no" => Abstract!Next \/ UNCHANGED Seen]_vars
=============================================================================
