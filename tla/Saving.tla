------------------------------- MODULE Saving -------------------------------
(***************************************************************************)
(* The coins and the kills of one account, from the database and back:       *)
(* User::load, play, and User::save (source/user.hpp) by Thread::userSave,   *)
(* which visits every slot now and then, and by the userLeave thread of a    *)
(* User that has left (thread/thread.hpp).  Sessions says how an account      *)
(* comes to have two User objects.  Other programs pay into the account in    *)
(* the meantime, and an administrator's 'exit' ends the process at once.     *)
(*                                                                         *)
(* A save is cut at its queries, and where play can change coin or count      *)
(* between two of its statements.  Kills are of one kind of fish.  The query *)
(* for the tasks has its WHERE before its JOIN and always fails, so a User    *)
(* has no tasks and save's loop over them does nothing.  The model stops      *)
(* when userSave works on a freed User.                                     *)
(***************************************************************************)
EXTENDS Integers, Sequences, FiniteSets, FiniteSetsExt

CONSTANTS
  User,        \* bound of the model: the User objects ever loaded
  Balance,     \* what the account holds at the start
  MaxPlays,    \* bound of the model: shots and kills
  MaxDeposits  \* bound of the model: payments of a coin from elsewhere

ASSUME SavingAssumption ==
  /\ "userSave" \notin User /\ "none" \notin User
  /\ IsFiniteSet(User)
  /\ Balance \in Nat /\ MaxPlays \in Nat /\ MaxDeposits \in Nat

Saver == User \cup {"userSave"}   \* a userLeave thread has its User's name

VARIABLES
  balance,       \* user_coin.balance
  logged,        \* the sum of user_coin_logs.count
  rows,          \* user_values: the counts, by id
  state,         \* of a User: not loaded yet, in a slot, leaving, freed
  coin, backup,  \* User::coin, User::backup_coin
  kills,         \* User::killfish
  at,            \* what a thread is doing in save
  target,        \* the User that userSave is saving
  read, win,     \* the local variables balance and win_coin
  count,         \* the count in the text of the query
  deposits,      \* history: paid in from elsewhere
  earned,        \* history: what play has earned, and what was killed, but
  killed,        \*   for what an exit has lost
  plays,         \* history: how often play has changed coin
  mishaps,       \* history: the kinds of unlucky order met so far
  fault          \* whether userSave has worked on a freed User

account == <<balance, logged, rows>>
user == <<state, coin, backup, kills>>
saving == <<at, target, read, win, count>>
play == <<deposits, earned, killed, plays>>
vars == <<account, user, saving, play, mishaps, fault>>

(* A process without users.                                                *)
NoUsers == [state |-> [o \in User |-> "none"], coin |-> [o \in User |-> 0],
            kills |-> [o \in User |-> <<>>]]
Idle == [at |-> [c \in Saver |-> "idle"], value |-> [c \in Saver |-> 0]]

Init ==
  /\ balance = Balance /\ logged = 0 /\ rows = <<>>
  /\ state = NoUsers.state /\ coin = NoUsers.coin /\ backup = NoUsers.coin
  /\ kills = NoUsers.kills
  /\ at = Idle.at /\ target = "none"
  /\ read = Idle.value /\ win = Idle.value /\ count = Idle.value
  /\ deposits = 0 /\ earned = 0 /\ killed = 0 /\ plays = 0
  /\ mishaps = {}
  /\ fault = FALSE

Of(c) == IF c = "userSave" THEN target ELSE c
Met(kind, happened) == IF happened THEN {kind} ELSE {}

(* Threads between the query that reads the balance and the one that writes *)
(* it.                                                                      *)
Halfway == {c \in Saver : at[c] \in {"take", "put", "mark", "write"}}

----------------------------------------------------------------------------
(* Slips a maintainer could make; each is swapped in to test a property.   *)

BackupKept(c) == backup[Of(c)]
CoinAsBalance(c) == coin[Of(c)]
InsertsAgain(id, n) == Append(rows, n)
GainedOnly(c) == coin[Of(c)] > backup[Of(c)]

----------------------------------------------------------------------------
(* getRow and getItem: a query that fails, or that another thread's query on  *)
(* the one shared connection disturbs, gives no row; getItemToInt makes the   *)
(* default of that, and load an empty list.                                 *)
GetRow(failed) == IF failed THEN <<>> ELSE <<balance>>
GetItemToInt(row, default) == IF row = <<>> THEN default ELSE row[1]

DbCoin(failed) == GetItemToInt(GetRow(failed), 0)
DbKills(failed) ==
  IF failed THEN <<>>
  ELSE [i \in DOMAIN rows |-> [id |-> i, value |-> rows[i], changed |-> FALSE]]

(* User::load.  Whether a query has failed is not looked at; without its     *)
(* first row load makes none of the others.                                 *)
Load(o) ==
  /\ state[o] = "none"
  /\ state' = [state EXCEPT ![o] = "slot"]
  /\ \E failed \in SUBSET {"coin", "kills"} :
       /\ coin' = [coin EXCEPT ![o] = DbCoin("coin" \in failed)]
       /\ backup' = [backup EXCEPT ![o] = coin'[o]]
       /\ kills' = [kills EXCEPT ![o] = DbKills("kills" \in failed)]
  /\ UNCHANGED <<account, saving, play, mishaps>>

(* killFish counts in the first entry; without one there is a new one, whose *)
(* id is 0.                                                                 *)
KillFish(list) ==
  IF list = <<>> THEN <<[id |-> 0, value |-> 1, changed |-> TRUE]>>
  ELSE [list EXCEPT ![1].value = @ + 1, ![1].changed = TRUE]

(* toShot takes a coin, hitFish adds some and counts the kill.  An entry that *)
(* has been saved as a new one has still no id.                             *)
Play(o, gain) ==
  LET busy(places) == \E c \in Saver : at[c] \in places /\ Of(c) = o
      list == kills[o]
  IN  /\ state[o] = "slot"
      /\ plays < MaxPlays
      /\ gain < 0 => coin[o] > 0
      /\ coin' = [coin EXCEPT ![o] = @ + gain]
      /\ kills' = IF gain > 0 THEN [kills EXCEPT ![o] = KillFish(list)] ELSE kills
      /\ earned' = earned + gain
      /\ killed' = IF gain > 0 THEN killed + 1 ELSE killed
      /\ plays' = plays + 1
      /\ mishaps' = mishaps
           \cup Met("played", busy({"put", "mark"}) \/ (gain > 0 /\ busy({"keep"})))
           \cup Met("again", gain > 0 /\ list # <<>> /\ list[1].id = 0 /\ ~list[1].changed)
      /\ UNCHANGED <<account, state, backup, saving, deposits>>

(* The website pays a coin in.                                             *)
Deposit ==
  /\ deposits < MaxDeposits
  /\ balance' = balance + 1
  /\ deposits' = deposits + 1
  /\ mishaps' = mishaps \cup Met("deposit", Halfway # {})
  /\ UNCHANGED <<logged, rows, user, saving, earned, killed, plays>>

----------------------------------------------------------------------------
(* User::save.                                                             *)

Go(c, place) == at' = [at EXCEPT ![c] = place]

(* userSave has copied the slot of o, and starts to save its User.         *)
UserSave(o) ==
  /\ at["userSave"] = "idle"
  /\ state[o] = "slot"
  /\ target' = o
  /\ Go("userSave", "test")
  /\ UNCHANGED <<account, user, read, win, count, play, mishaps>>

(* Players::remove starts a userLeave thread.                              *)
Leave(o) ==
  /\ state[o] = "slot"
  /\ state' = [state EXCEPT ![o] = "leaving"]
  /\ Go(o, "test")
  /\ UNCHANGED <<account, coin, backup, kills, target, read, win, count, play, mishaps>>

(* Without a change nothing is written.                                    *)
Changed(c) == coin[Of(c)] # backup[Of(c)]

(* destory frees the User's lists, and userLeave the User: its last coins     *)
(* and kills stay in coin and kills as history.                             *)
Destory(o) == state' = [state EXCEPT ![o] = "freed"]

Finish(c) ==
  /\ Go(c, "idle")
  /\ IF c = "userSave" THEN target' = "none" /\ UNCHANGED state
     ELSE Destory(c) /\ UNCHANGED target
  /\ read' = [read EXCEPT ![c] = 0]
  /\ win' = [win EXCEPT ![c] = 0]
  /\ count' = [count EXCEPT ![c] = 0]

Test(c) ==
  /\ at[c] = "test"
  /\ Go(c, IF Changed(c) THEN "read" ELSE "kills")
  /\ UNCHANGED <<account, user, target, read, win, count, play, mishaps>>

ReadBalance(c) ==
  /\ at[c] = "read"
  /\ \E failed \in BOOLEAN :
       /\ read' = [read EXCEPT ![c] = DbCoin(failed)]
       /\ mishaps' = mishaps \cup Met("two-savers", Halfway # {})
                             \cup Met("read-failed", failed)
  /\ Go(c, "take")
  /\ UNCHANGED <<account, user, target, win, count, play>>

Win(c) == coin[Of(c)] - backup[Of(c)]

TakeWin(c) ==
  /\ at[c] = "take"
  /\ win' = [win EXCEPT ![c] = Win(c)]
  /\ Go(c, "put")
  /\ UNCHANGED <<account, user, target, read, count, play, mishaps>>

PutCoin(c) ==
  /\ at[c] = "put"
  /\ coin' = [coin EXCEPT ![Of(c)] = read[c] + win[c]]
  /\ Go(c, "mark")
  /\ UNCHANGED <<account, state, backup, kills, target, read, win, count, play, mishaps>>

NewBackup(c) == coin[Of(c)]

MarkBackup(c) ==
  /\ at[c] = "mark"
  /\ backup' = [backup EXCEPT ![Of(c)] = NewBackup(c)]
  /\ Go(c, "write")
  /\ UNCHANGED <<account, state, coin, kills, target, read, win, count, play, mishaps>>

NewBalance(c) == read[c] + win[c]

(* The UPDATE, and the INSERT into the log; whether either has failed is   *)
(* not looked at.                                                          *)
WriteBalance(c) ==
  /\ at[c] = "write"
  /\ \E failed \in SUBSET {"balance", "log"} :
       /\ balance' = IF "balance" \in failed THEN balance ELSE NewBalance(c)
       /\ logged' = IF "log" \in failed THEN logged ELSE logged + win[c]
       /\ mishaps' = mishaps \cup Met("write-failed", failed # {})
  /\ Go(c, "kills")
  /\ UNCHANGED <<rows, user, target, read, win, count, play>>

(* The counts that have changed; only the first entry ever does.  The text   *)
(* of the query is made, the mark is taken off, and whether the query has    *)
(* failed is not looked at.                                                 *)
Marked(o) == kills[o] # <<>> /\ kills[o][1].changed

NoKills(c) ==
  /\ at[c] = "kills"
  /\ ~Marked(Of(c))
  /\ Finish(c)
  /\ UNCHANGED <<account, coin, backup, kills, play, mishaps>>

FormatKills(c) ==
  /\ at[c] = "kills"
  /\ Marked(Of(c))
  /\ count' = [count EXCEPT ![c] = kills[Of(c)][1].value]
  /\ mishaps' = mishaps \cup Met("again", \E d \in Saver \ {c} :
                                       at[d] = "keep" /\ Of(d) = Of(c))
  /\ Go(c, "keep")
  /\ UNCHANGED <<account, user, target, read, win, play>>

RowsAfter(id, n) ==
  IF id = 0 THEN Append(rows, n) ELSE [rows EXCEPT ![id] = n]

(* An UPDATE of a row that another User has counted in goes over its head.   *)
Shared(o, id) ==
  \E p \in User \ {o} : state[p] # "freed" /\ \E i \in DOMAIN kills[p] : kills[p][i].id = id

KeepKills(c) ==
  LET o == Of(c)
      id == kills[o][1].id
  IN  /\ at[c] = "keep"
      /\ kills' = [kills EXCEPT ![o][1].changed = FALSE]
      /\ \E failed \in BOOLEAN :
           /\ rows' = IF failed THEN rows ELSE RowsAfter(id, count[c])
           /\ mishaps' = mishaps \cup Met("write-failed", failed)
                                 \cup Met("shared", id # 0 /\ Shared(o, id))
      /\ Finish(c)
      /\ UNCHANGED <<balance, logged, coin, backup, play>>

Save(c) ==
  \/ Test(c) \/ ReadBalance(c) \/ TakeWin(c)
  \/ PutCoin(c) \/ MarkBackup(c) \/ WriteBalance(c)
  \/ NoKills(c) \/ FormatKills(c) \/ KeepKills(c)

(* userLeave was faster: the User userSave is saving is no more.           *)
Freed(o) == o # "none" /\ state[o] = "freed"

SaveFreed ==
  /\ Freed(target)
  /\ fault' = TRUE
  /\ UNCHANGED <<account, user, saving, play, mishaps>>

----------------------------------------------------------------------------
(* What o has earned and the account does not have yet.  Once put, it is   *)
(* in the hands of its saver.                                              *)
Pending(o) ==
  LET writing == {c \in Saver : Of(c) = o /\ at[c] \in {"mark", "write"}}
  IN  IF writing = {} THEN coin[o] - backup[o]
      ELSE LET c == CHOOSE c \in writing : TRUE
           IN  win[c] + IF at[c] = "write" THEN coin[o] - backup[o] ELSE 0

(* What o has counted and the rows do not have yet.                        *)
Uncounted(o) ==
  IF ~Marked(o) THEN 0
  ELSE LET first == kills[o][1]
       IN  IF first.id = 0 THEN first.value ELSE first.value - rows[first.id]

(* Entry::exit starts a userLeave thread for every User and ends the process *)
(* before any of them runs; it may cut a save between its two queries.  The  *)
(* server is started again.                                                *)
Exit ==
  /\ "exit" \notin mishaps
  /\ state' = NoUsers.state /\ coin' = NoUsers.coin /\ backup' = NoUsers.coin
  /\ kills' = NoUsers.kills
  /\ at' = Idle.at /\ target' = "none"
  /\ read' = Idle.value /\ win' = Idle.value /\ count' = Idle.value
  /\ \E cut \in {{}} \cup {{c} : c \in {s \in Saver : at[s] = "write"}} :
       LET pending == SumFunction([o \in User |-> Pending(o)])
       IN  /\ balance' = IF cut = {} THEN balance ELSE NewBalance(CHOOSE c \in cut : TRUE)
           /\ earned' = earned - pending
                          + IF cut = {} THEN 0 ELSE win[CHOOSE c \in cut : TRUE]
           /\ mishaps' = mishaps \cup {"exit"} \cup Met("cut", cut # {})
  /\ killed' = killed - SumFunction([o \in User |-> Uncounted(o)])
  /\ UNCHANGED <<logged, rows, deposits, plays>>

----------------------------------------------------------------------------
SaveThread(c) ==
  /\ ~fault
  /\ \/ (c = "userSave" => ~Freed(target)) /\ Save(c) /\ UNCHANGED fault
     \/ c = "userSave" /\ SaveFreed

Others ==
  /\ ~fault
  /\ \/ \E o \in User : Load(o) \/ Leave(o) \/ UserSave(o)
     \/ \E o \in User, gain \in {-1, 1} : Play(o, gain)
     \/ Deposit
     \/ Exit
  /\ UNCHANGED fault

Next == Others \/ \E c \in Saver : SaveThread(c)

Spec == Init /\ [][Next]_vars

----------------------------------------------------------------------------
(* Every coin earned or lost in play, and every coin paid in, is in the    *)
(* account or on its way there, although two User objects may share the    *)
(* account; unless two savers or a deposit crossed between the read and    *)
(* the write of the balance, a query failed, or play changed coin while    *)
(* save set it: then what was earned is no longer coin - backup_coin       *)
(* (user.hpp:31).  An exit loses what was on its way, and nothing else; a    *)
(* User that was loaded with no coins at all costs nobody any.              *)
CoinsKept ==
  mishaps \subseteq {"again", "shared", "exit", "cut"} =>
    balance + SumFunction([o \in User |-> Pending(o)]) = Balance + deposits + earned

(* The log explains the balance, whatever play does meanwhile, and also      *)
(* after an exit that has not come between the two queries.                 *)
LogExplainsBalance ==
  mishaps \subseteq {"played", "again", "shared", "exit"} =>
    balance = Balance + deposits + logged

(* A User is freed only when a save has taken all it earned and counted to   *)
(* the database, or userSave is still about to.                             *)
FreedIsSaved ==
  \A o \in User : state[o] = "freed" =>
    target = o \/ (Pending(o) = 0 /\ Uncounted(o) = 0)

(* Every kill is counted once (user.hpp:17), in the rows or on its way there, *)
(* whatever becomes of the coins; unless a new entry was counted in again     *)
(* after it had been saved, which inserts it a second time, a save overwrote  *)
(* the count of another User object, a kill came between the query's text and *)
(* the mark, or a query failed.                                             *)
KillsKept ==
  mishaps \cap {"again", "shared", "played", "write-failed"} = {} =>
    SumFunction(rows) + SumFunction([o \in User |-> Uncounted(o)]) = killed
=============================================================================
