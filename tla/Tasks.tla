-------------------------------- MODULE Tasks --------------------------------
(***************************************************************************)
(* The rules of the tasks (class Task): loaded from the database, and gone   *)
(* through when a player has done something.  The server does not use them   *)
(* yet: a Task is only tried out, in a comment of main (main.cpp:127).       *)
(*                                                                         *)
(* A row has the times it holds from and till, 0 for no such time, how many   *)
(* ids of articles it names, and its conditions.  load asks for the result   *)
(* of its query of the articles twice (task.hpp:309, 311) and so has none:   *)
(* complete gives nobody anything, and changes nothing.  A User has no tasks  *)
(* either (see Saving), so no task has been done before, and the order of    *)
(* the tasks does not matter.                                               *)
(***************************************************************************)
EXTENDS Integers, Sequences, FiniteSets, SequencesExt

CONSTANT MaxArticles  \* 10, the length of article_ids

ASSUME TasksAssumption == MaxArticles \in Nat

Condition == [param : Nat, param2 : Nat, type : Nat]
Task == [from : Nat, till : Nat, articles : Nat, conditions : Seq(Condition)]

----------------------------------------------------------------------------
(* Slips a maintainer could make.                                          *)
StartIgnored(row, now) == row.till = 0 \/ row.till >= now

----------------------------------------------------------------------------
(* load.  A task is left out when it is not its time, when it has no         *)
(* conditions, or when the query for them has failed.                       *)
InTime(row, now) ==
  /\ row.from = 0 \/ row.from <= now
  /\ row.till = 0 \/ row.till >= now

(* The id behind the last place of article_ids falls on condition, which is  *)
(* NULL and set later, if there is one; the next ones on other memory.      *)
Overruns(row) == row.articles > MaxArticles
Lists(row) == row.conditions # <<>> \/ Overruns(row)

Load(rows, failed, now) ==
  {row \in rows : InTime(row, now) /\ row \notin failed /\ Lists(row)}

(* An overrun that load has not written over.                               *)
Corrupts(row) ==
  row.articles > MaxArticles + 1 \/ (Overruns(row) /\ row.conditions = <<>>)

----------------------------------------------------------------------------
(* What a User has to show: so many fish killed of one number, or, for 0, in  *)
(* all; so many tasks done of a group, or, for none, in all.                *)
CheckKillFish(user, no, needed) ==
  IF no = 0 THEN user.total >= needed
  ELSE \E i \in DOMAIN user.killed :
         /\ user.killed[i].no = no /\ user.killed[i].value >= needed
         /\ \A j \in 1 .. i - 1 : user.killed[j].no # no

CheckTask(user, group, needed) ==
  Cardinality({i \in DOMAIN user.done : group <= 0 \/ user.done[i] = group}) >= needed

(* conditionIsTrue: a condition of the type of the deed, and all met.       *)
Shown(user, condition) ==
  CASE condition.type = 2 -> CheckKillFish(user, condition.param2, condition.param)
    [] condition.type = 3 -> CheckTask(user, condition.param2, condition.param)
    [] OTHER -> FALSE

ConditionIsTrue(user, task, deed) ==
  /\ \E c \in Range(task.conditions) : c.type = deed.type
  /\ \A c \in Range(task.conditions) : Shown(user, c)

(* complete: a task that is not in its time is looked at again and again     *)
(* (task.hpp:133); 0 is a time like any other here.  What conditionIsTrue     *)
(* answers is overwritten (:140), if there is a condition: a task is done     *)
(* when the one thing that has happened meets every condition of it.        *)
Valid(task, time) == task.from <= time /\ task.till >= time

Met(condition, deed) ==
  /\ deed.param >= condition.param
  /\ deed.param2 = condition.param2
  /\ deed.type = condition.type

Completed(user, task, deed) ==
  IF task.conditions = <<>> THEN ConditionIsTrue(user, task, deed)
  ELSE \A c \in Range(task.conditions) : Met(c, deed)

Complete(tasks, time, user, deed) ==
  [returns |-> \A task \in tasks : Valid(task, time),
   shown |-> {task \in tasks : ConditionIsTrue(user, task, deed)},
   done |-> {task \in tasks : Completed(user, task, deed)}]
=============================================================================
