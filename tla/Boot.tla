-------------------------------- MODULE Boot --------------------------------
(***************************************************************************)
(* The start of the program (main), as far as it needs no messages: the      *)
(* configuration, the rooms, the memory, the two databases.  It ends where a *)
(* part is missing.  The trials main makes on its way, of Explode and Task    *)
(* (and, in Startup, of Json), are made here with more than its own texts.   *)
(*                                                                         *)
(* What is not looked at again is forgotten: the configuration behind the    *)
(* trial (its addresses and names are only handed on), and each trial.      *)
(* Rooms, MemoryPool and Connections have what follows from the numbers that *)
(* are handed to them here.                                                *)
(***************************************************************************)
EXTENDS Config, Tasks

CONSTANTS
  Files,       \* what fish.conf may hold
  Delimiters,  \* the delimiters and the texts of the trial of Explode
  Trials,
  Fields,      \* 9: room for the fields of a text
  TaskTables,  \* the rows that the trial of Task may find
  Moments,     \* bound of the model: when it is made
  Deeds,       \* what may have happened
  Users,       \* what a User may have to show
  DefaultRooms \* 100

(* A text has no NUL in it.                                                *)
ASSUME BootAssumption ==
  /\ {Fields, DefaultRooms} \subseteq Nat \ {0}
  /\ Files \cup Delimiters \cup Trials \subseteq Seq(STRING \ {NUL})
  /\ TaskTables \subseteq SUBSET Task
  /\ Moments \subseteq Nat

VARIABLES
  phase,    \* how far main has come
  file,     \* fish.conf, until main has done with it
  maxRoom,  \* what Rooms::setRooms and memory_init are called with, or 0
  memory,
  trial     \* what has been tried last, and what has come of it

bootVars == <<phase, file, maxRoom, memory, trial>>

NoTrial == [kind |-> "none"]

----------------------------------------------------------------------------
conf == ParseConf(file)

BootInit ==
  /\ phase = "parse"
  /\ file \in Files
  /\ maxRoom = 0
  /\ memory = 0
  /\ trial = NoTrial

End(condition, next) == phase' = IF condition THEN next ELSE "ended"

(* max_room and memory_size from the configuration, and memory_init, which   *)
(* the system may refuse.                                                  *)
SetUp ==
  /\ phase = "parse"
  /\ \E granted \in BOOLEAN :
       /\ End(Check(conf) /\ granted, "connect")
       /\ maxRoom' = IF ~Check(conf) THEN 0
                     ELSE IF ConfInt(conf, <<"max_room">>) > 0 THEN ConfInt(conf, <<"max_room">>)
                     ELSE DefaultRooms
       /\ memory' = IF Check(conf) THEN MemorySize(Get(conf, <<"memory_size">>)) ELSE 0
  /\ UNCHANGED <<file, trial>>

(* Redis and Mysql, either of which may not be there.                       *)
Connect ==
  /\ phase = "connect"
  /\ \E redis, mysql \in BOOLEAN : End(redis /\ mysql, "trial")
  /\ file' = <<>> /\ maxRoom' = 0 /\ memory' = 0
  /\ UNCHANGED trial

(* The trials stand before, between and behind these steps in main, but have *)
(* nothing to do with them; here one of them is made.                       *)
Tried(t) ==
  /\ trial' = t
  /\ UNCHANGED <<file, maxRoom, memory>>

TryExplode ==
  /\ phase = "trial"
  /\ \E d \in Delimiters, t \in Trials :
       Tried([kind |-> "explode", of |-> d, text |-> t, result |-> Explode(d, t, Fields)])
  /\ phase' = "tried"

(* Loaded at one time, and asked for at a later one.                        *)
TryTasks ==
  /\ phase = "trial"
  /\ \E rows \in TaskTables, user \in Users, deed \in Deeds, first, later \in Moments :
     \E failed \in SUBSET rows :
       LET loaded == Load(rows, failed, first)
           outcome == Complete(loaded, later, user, deed)
           corrupt == \E row \in loaded : Corrupts(row)
       IN  /\ first <= later
           /\ Tried([kind |-> "tasks", first |-> first, later |-> later, loaded |-> loaded,
                     outcome |-> outcome, corrupt |-> corrupt])
           /\ phase' \in (IF outcome.returns THEN {"tried"} ELSE {"ended"})
                          \cup (IF corrupt THEN {"tried", "ended"} ELSE {})

GoOn ==
  /\ phase = "tried"
  /\ phase' = "settings"
  /\ trial' = NoTrial
  /\ UNCHANGED <<file, maxRoom, memory>>

BootNext ==
  \/ SetUp
  \/ Connect
  \/ TryExplode \/ TryTasks
  \/ GoOn

(* What Startup adds: other trials, and what main does from the settings on.  *)
Later ==
  /\ trial'.kind \notin {"explode", "tasks"}
  /\ UNCHANGED <<file, maxRoom, memory>>

BootSpec == BootInit /\ [][BootNext \/ Later]_bootVars

----------------------------------------------------------------------------
(* The lines of the file that are no comments, and what stands in them.     *)
LineStarts(t) == {p \in DOMAIN t : p = 1 \/ t[p - 1] = "\n"}
EntryLines(t) == {p \in LineStarts(t) : t[p] \notin Comment}
EntryOf(t, p) == Entry(Between(t, p, PieceEnd(t, p)))

Before(t, p) == {q \in EntryLines(t) : q < p}
FirstOfItsKey(t, p) == \A q \in Before(t, p) : EntryOf(t, q).key # EntryOf(t, p).key

Asked(size) ==
  LET kilos == IF "K" \in Range(size) THEN Kilo ELSE 1
      megas == IF "M" \in Range(size) THEN Kilo * Kilo ELSE 1
  IN  Atoi(size) * kilos * megas

(* cnf.hpp:41: a line gives one entry however long it is, and only the first *)
(* line of a key counts, among those there is room for; memory_init is asked *)
(* for what the file says, unless that is nothing or beyond an int.         *)
ConfRead ==
  /\ \A p \in EntryLines(file) :
       FirstOfItsKey(file, p) /\ Cardinality(Before(file, p)) < MaxEntries
         => Get(conf, EntryOf(file, p).key) = EntryOf(file, p).value
  /\ Len(conf) <= Cardinality(EntryLines(file))
  /\ memory > 0 =>
       LET asked == Asked(Get(conf, <<"memory_size">>))
       IN  memory = asked \/ asked = 0 \/ asked >= Word \div 2

(* The fields of a text: what is left between the delimiters, searched from   *)
(* the left without overlap.                                               *)
Fits(d, t, p) == IsPrefix(d, Between(t, p, Len(t) + 1))
Cuts(d, t) ==
  LET from[p \in 1 .. Len(t) + 1] ==
        [start \in 1 .. Len(t) + 1 |->
           CASE p > Len(t) -> <<Between(t, start, p)>>
             [] p <= Len(t) /\ Fits(d, t, p) ->
                  <<Between(t, start, p)>> \o from[p + Len(d)][p + Len(d)]
             [] OTHER -> from[p + 1][start]]
  IN  from
FieldsOf(d, t) ==
  LET all == Cuts(d, t)[1][1]
  IN  SubSeq(all, 1, Min({Len(all), Fields}))

(* A place where some of the delimiter is, but not all of it.               *)
PartAt(d, t, p) == Len(d) > 1 /\ t[p] = d[1] /\ ~Fits(d, t, p)

(* explode.hpp:44: the fields of a text are those between the delimiters, as *)
(* many as there is room for, and nothing behind the text is read; unless a  *)
(* part of the delimiter is somewhere in the text.                          *)
ExplodeExact ==
  /\ trial.kind = "explode" /\ trial.text # None /\ trial.of # None
  /\ \A p \in DOMAIN trial.text : ~PartAt(trial.of, trial.text, p)
  => /\ ~trial.result.past
     /\ trial.result.fields = FieldsOf(trial.of, trial.text)

(* task.hpp:133: complete comes back, unless one of the tasks it goes through *)
(* has no end, or has ended since it was loaded; every task it goes through   *)
(* has conditions, unless load wrote past article_ids; and one with           *)
(* conditions of two kinds is never done, though a User has shown both (:140). *)
TasksReturn ==
  trial.kind = "tasks" /\ ~trial.corrupt =>
    /\ \/ trial.outcome.returns
       \/ \E row \in trial.loaded :
            row.till = 0 \/ (row.till >= trial.first /\ row.till < trial.later)
    /\ \A row \in trial.loaded : row.conditions # <<>>
    /\ \A task \in trial.outcome.done :
         \A c, d \in Range(task.conditions) : c.type = d.type /\ c.param2 = d.param2
=============================================================================
