------------------------------ MODULE SpinLock ------------------------------
(***************************************************************************)
(* The lock of Fishs and of Bullets (source/fishs.hpp, source/bullets.hpp):  *)
(*                                                                         *)
(*     while (this->_lock);   this->_lock = 1;   ...   this->_lock = 0;      *)
(*                                                                         *)
(* around create, destroy, getFish and clear.  The test and the assignment  *)
(* are two steps, and any thread's release opens the lock.                  *)
(***************************************************************************)
EXTENDS Naturals

CONSTANT Thread  \* those that use one list: select, fish or bullet, verifiers

VARIABLES
  lock,   \* _lock
  at,     \* what a thread is doing
  raced   \* history: two threads have been between test and assignment at once

vars == <<lock, at, raced>>

Init ==
  /\ lock = 0
  /\ at = [t \in Thread |-> "out"]
  /\ raced = "no"

----------------------------------------------------------------------------
(* Slips a maintainer could make; each is swapped in to test a property.   *)

FreeAlways == TRUE
Relocked == 1
Decremented == lock - 1

----------------------------------------------------------------------------
Free == lock = 0
Unlocked == 0

Call(t) ==
  /\ at[t] = "out"
  /\ at' = [at EXCEPT ![t] = "spin"]
  /\ UNCHANGED <<lock, raced>>

(* while (this->_lock); comes to its end.                                  *)
SeeFree(t) ==
  /\ at[t] = "spin"
  /\ Free
  /\ at' = [at EXCEPT ![t] = "enter"]
  /\ raced' = IF \E u \in Thread : at[u] = "enter" THEN "yes" ELSE raced
  /\ UNCHANGED lock

Lock(t) ==
  /\ at[t] = "enter"
  /\ at' = [at EXCEPT ![t] = "in"]
  /\ lock' = 1
  /\ UNCHANGED raced

Unlock(t) ==
  /\ at[t] = "in"
  /\ at' = [at EXCEPT ![t] = "out"]
  /\ lock' = Unlocked
  /\ UNCHANGED raced

Step(t) == Call(t) \/ SeeFree(t) \/ Lock(t) \/ Unlock(t)

Next == \E t \in Thread : Step(t)

Spec == Init /\ [][Next]_vars

(* A thread that has called one of the operations keeps running.           *)
FairSpec == Spec /\ \A t \in Thread : WF_vars(at[t] # "out" /\ Step(t))

----------------------------------------------------------------------------
TypeOK ==
  /\ lock \in {0, 1}
  /\ at \in [Thread -> {"out", "spin", "enter", "in"}]
  /\ raced \in {"no", "yes"}

(* fishs.hpp:45: the lock keeps the threads from working at the same time. *)
MutualExclusion ==
  \A t, u \in Thread : at[t] = "in" /\ at[u] = "in" => t = u

(* What it does give: two threads are in only after two have tested the    *)
(* lock before either had set it.                                          *)
ExclusiveUntilRace == (raced = "yes") \/ MutualExclusion

(* However they raced, the lock is never left closed with nobody in.       *)
NeverLeftLocked == lock = 1 => \E t \in Thread : at[t] = "in"

(* Somebody who spins, or somebody else, gets in.                          *)
SomebodyGetsIn ==
  (\E t \in Thread : at[t] = "spin") ~> (\E t \in Thread : at[t] = "in")

(* The invariant that proves these.                                        *)
OneAtATime ==
  (raced = "yes") \/ \A t, u \in Thread :
             at[t] \in {"enter", "in"} /\ at[u] \in {"enter", "in"} => t = u
LockedWhileIn == (raced = "yes") \/ \A t \in Thread : at[t] = "in" => lock = 1
LockInv == TypeOK /\ OneAtATime /\ LockedWhileIn /\ NeverLeftLocked
=============================================================================
