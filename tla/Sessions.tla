------------------------------ MODULE Sessions ------------------------------
(***************************************************************************)
(* Who is logged in: the accept thread fills slots of Players::players, the *)
(* select thread closes them, and every 'verify account' message starts a   *)
(* thread of its own (thread/thread.hpp, verifyAccount) that loads a User    *)
(* and hangs it on the slot.  A closed slot's User is saved and freed by a    *)
(* userLeave thread, while userSave saves those of all the slots.            *)
(*                                                                         *)
(* Nothing here is locked.  A thread is cut at its database calls and where  *)
(* it tests or sets a field another thread looks at.  Rooms has what leaving *)
(* a room does, and Players::len is left out.  The model stops when a thread *)
(* works on a User that is being, or has been, freed.                       *)
(***************************************************************************)
EXTENDS Integers, FiniteSets

CONSTANTS
  Slot,      \* the indices of Players::players
  Account,   \* the users of the database
  User,      \* bound of the model: the User objects ever allocated; a User is
             \* not allocated again, so that one used after its end is seen
  Verifier,  \* bound of the model: verifyAccount threads at a time
  None       \* 0 or NULL

ASSUME SessionsAssumption ==
  /\ None \notin Slot \cup Account \cup User \cup Verifier
  /\ None \notin {"own", "freed", "other"}
  /\ "select" \notin Verifier

Closer == Verifier \cup {"select"}

VARIABLES
  open,      \* the slots with a socket
  tmp,       \* Player::tmp, to the verifier that is going to read it: the key
             \* of its own message, still there or freed, of another, or None
  closing,   \* the slots with closeing set
  uid, user, kick, saveUid,  \* the fields of a slot
  at,        \* what a verifyAccount thread is doing
  slot,      \* its local variable p
  account,   \* its local variable uid
  held,      \* its local variable user
  removing,  \* how far a thread is in Players::remove
  victim,    \* of which slot
  live,      \* the User objects allocated
  id,        \* User::id
  leaving,   \* the Users that a userLeave thread is saving
  stale,     \* history: verifiers whose slot was cleared under them
  mishaps,   \* history: the kinds of unlucky order met so far
  fault      \* what went wrong with a User

slots == <<open, closing, uid, user, kick, saveUid>>
verifiers == <<at, slot, account, held, stale>>
removal == <<removing, victim>>
users == <<live, id, leaving>>
vars == <<slots, tmp, verifiers, removal, users, mishaps, fault>>

Init ==
  /\ open = {} /\ closing = {}
  /\ uid = [s \in Slot |-> None] /\ user = [s \in Slot |-> None]
  /\ kick = [s \in Slot |-> FALSE] /\ saveUid = [s \in Slot |-> None]
  /\ tmp = [t \in Verifier |-> None]
  /\ at = [t \in Verifier |-> "idle"]
  /\ slot = [t \in Verifier |-> None]
  /\ account = [t \in Verifier |-> None]
  /\ held = [t \in Verifier |-> None]
  /\ stale = {}
  /\ removing = [c \in Closer |-> "no"]
  /\ victim = [c \in Closer |-> None]
  /\ live = {} /\ id = [o \in User |-> None]
  /\ leaving = {}
  /\ mishaps = {}
  /\ fault = "none"

Met(kind, happened) == IF happened THEN {kind} ELSE {}

(* Slips a maintainer could make; each is swapped in to test a property.   *)
OnlineWithUser(u) == {s \in Slot : uid[s] = u /\ user[s] # None}
WipedNot(field, s) == field
HasUserUnkicked(s) == user[s] # None /\ ~kick[s]
ReleasedNot(o) == live
ResumedNot(c) == at
ReadersAnywhere(s) == {t \in Verifier : at[t] = "check"}

----------------------------------------------------------------------------
Removable(s) == s \in open /\ s \notin closing
HasUser(s) == user[s] # None
Mark(s) == uid[s]
Wiped(field, s) == [field EXCEPT ![s] = None]
Saving(u) == \E s \in Slot : saveUid[s] = u
Online(u) == {s \in Slot : uid[s] = u}

(* The verifiers that have not read the key of slot s yet.                  *)
Readers(s) == {t \in Verifier : at[t] = "check" /\ slot[t] = s}

(* The select thread can take another message: it is not in the midst of one. *)
Handling == removing["select"] = "no" /\ \A t \in Verifier : tmp[t] # "own"

----------------------------------------------------------------------------
(* Connections.                                                            *)

(* Players::add resets neither uid nor user.                               *)
Connect(s) ==
  /\ s \notin open
  /\ open' = open \cup {s}
  /\ UNCHANGED <<closing, uid, user, kick, saveUid, tmp, verifiers, removal, users, mishaps>>

(* Players::remove: its test, then all up to the start of userLeave, then  *)
(* the memset.                                                             *)
BeginRemove(c, s) ==
  /\ removing' = [removing EXCEPT ![c] = "close"]
  /\ victim' = [victim EXCEPT ![c] = s]

TwoClosers(c, s) ==
  Met("two-closers", \E d \in Closer \ {c} : removing[d] = "close" /\ victim[d] = s)

StartLeave(o) ==
  IF o \in live \ leaving
  THEN /\ leaving' = leaving \cup {o}
       /\ UNCHANGED fault
  ELSE /\ fault' = "left-twice"
       /\ UNCHANGED leaving

CloseSlot(c) ==
  LET s == victim[c] IN
  /\ removing[c] = "close"
  /\ closing' = closing \cup {s}
  /\ \/ /\ HasUser(s)
        /\ saveUid' = [saveUid EXCEPT ![s] = Mark(s)]
        /\ StartLeave(user[s])
     \/ /\ ~HasUser(s)
        /\ UNCHANGED <<saveUid, leaving, fault>>
  /\ removing' = [removing EXCEPT ![c] = "clear"]
  /\ UNCHANGED <<open, uid, user, kick, tmp, verifiers, victim, live, id, mishaps>>

(* The verifier that kicked somebody goes on.                              *)
Resumed(c) == IF c = "select" THEN at ELSE [at EXCEPT ![c] = "load"]

ClearSlot(c) ==
  LET s == victim[c] IN
  /\ removing[c] = "clear"
  /\ open' = open \ {s}
  /\ closing' = closing \ {s}
  /\ uid' = Wiped(uid, s)
  /\ user' = Wiped(user, s)
  /\ kick' = [kick EXCEPT ![s] = FALSE]
  /\ saveUid' = Wiped(saveUid, s)
  /\ tmp' = [t \in Verifier |-> IF t \in Readers(s) THEN None ELSE tmp[t]]
  /\ stale' = stale \cup {t \in Verifier : at[t] # "idle" /\ slot[t] = s}
  /\ removing' = [removing EXCEPT ![c] = "no"]
  /\ victim' = [victim EXCEPT ![c] = None]
  /\ at' = Resumed(c)
  /\ UNCHANGED <<slot, account, held, users, mishaps>>

(* onclose: the client is gone, or too slow.                               *)
Disconnect(s) ==
  /\ Handling
  /\ Removable(s)
  /\ BeginRemove("select", s)
  /\ mishaps' = mishaps \cup TwoClosers("select", s)
  /\ UNCHANGED <<slots, tmp, verifiers, users>>

(* Entry::kickUser removes a copy of the slot: its userLeave is started,   *)
(* but the slot stays as it is.                                            *)
KickUser(s) ==
  /\ Handling
  /\ Removable(s)
  /\ mishaps' = mishaps \cup {"copy"}
  /\ \/ HasUser(s) /\ StartLeave(user[s])
     \/ ~HasUser(s) /\ UNCHANGED <<leaving, fault>>
  /\ UNCHANGED <<slots, tmp, verifiers, removal, live, id>>

----------------------------------------------------------------------------
(* Thread::verifyAccount.                                                  *)

GoTo(t, place) == at' = [at EXCEPT ![t] = place]

Finish(t) ==
  /\ GoTo(t, "idle")
  /\ slot' = [slot EXCEPT ![t] = None]
  /\ account' = [account EXCEPT ![t] = None]
  /\ held' = [held EXCEPT ![t] = None]
  /\ stale' = stale \ {t}

Released(o) == live \ {o}
Release(o) == live' = Released(o) /\ UNCHANGED id

(* Entry::verifyAccount, in the select thread.                             *)
VerifyAccount(t, s, k) ==
  /\ Handling
  /\ s \in open
  /\ at[t] = "idle"
  /\ kick' = [kick EXCEPT ![s] = k]
  /\ tmp' = [v \in Verifier |-> IF v = t THEN "own"
                                ELSE IF v \in Readers(s) THEN "other" ELSE tmp[v]]
  /\ GoTo(t, "check")
  /\ slot' = [slot EXCEPT ![t] = s]
  /\ mishaps' = mishaps \cup
       Met("same-slot", \E v \in Verifier : at[v] # "idle" /\ slot[v] = s)
  /\ UNCHANGED <<open, closing, uid, user, saveUid, account, held, stale,
                 removal, users>>

(* The end of onmessage: the Json is cleared, with the key in it.           *)
ClearMessage ==
  \E t \in Verifier :
    /\ tmp[t] = "own"
    /\ tmp' = [tmp EXCEPT ![t] = "freed"]
    /\ UNCHANGED <<slots, verifiers, removal, users, mishaps>>

(* A verifier looks at p->tmp twice, once for quotes and once for the        *)
(* database; here once.                                                    *)
Read(t) ==
  /\ at[t] = "check"
  /\ tmp' = [tmp EXCEPT ![t] = None]
  /\ mishaps' = mishaps \cup Met("late", t \in stale) \cup Met("key-freed", tmp[t] = "freed")

ReadNull(t) ==
  /\ Read(t) /\ tmp[t] = None
  /\ fault' = "no-key"
  /\ UNCHANGED <<slots, verifiers, removal, users>>

(* checkSignKey: the account the key belongs to, on the new User.           *)
SignedBy(o, u) == id' = [id EXCEPT ![o] = u]

(* A key with a quote in it, or one the database does not know, ends it.   *)
CheckSignKey(t) ==
  /\ Read(t) /\ tmp[t] # None
  /\ \/ /\ Finish(t)
        /\ UNCHANGED users
     \/ /\ \E o \in User, u \in Account :
             /\ id[o] = None
             /\ live' = live \cup {o}
             /\ SignedBy(o, u)
             /\ held' = [held EXCEPT ![t] = o]
             /\ account' = [account EXCEPT ![t] = u]
        /\ GoTo(t, "scan-save_uid")
        /\ UNCHANGED <<slot, stale, leaving>>
  /\ UNCHANGED <<slots, removal>>

Refuse(t) == Finish(t) /\ Release(held[t])

ScanSaveUid(t) ==
  /\ at[t] = "scan-save_uid"
  /\ \/ /\ Saving(account[t])
        /\ Refuse(t)
     \/ /\ ~Saving(account[t])
        /\ GoTo(t, "scan-uid")
        /\ UNCHANGED <<slot, account, held, stale, live, id>>
  /\ UNCHANGED <<slots, tmp, removal, leaving, mishaps>>

(* Another thread has passed the scan for the account and not yet set uid. *)
SameAccount(u) ==
  Met("same-account",
      \E v \in Verifier : account[v] = u /\ at[v] \in {"kick", "load"})

(* The kick looked at is the one of the slot that was found.               *)
Kickable(s) == kick[s]

ScanUid(t) ==
  LET u == account[t] IN
  /\ at[t] = "scan-uid"
  /\ \/ /\ Online(u) = {}
        /\ GoTo(t, "load")
        /\ mishaps' = mishaps \cup SameAccount(u)
        /\ UNCHANGED <<slot, account, held, stale, removal, live, id>>
     \/ \E s \in Online(u) :
          \/ /\ ~Kickable(s)
             /\ Refuse(t)
             /\ UNCHANGED <<removal, mishaps>>
          \/ /\ Kickable(s) /\ Removable(s)
             /\ GoTo(t, "kick")
             /\ BeginRemove(t, s)
             /\ mishaps' = mishaps \cup SameAccount(u) \cup TwoClosers(t, s)
             /\ UNCHANGED <<slot, account, held, stale, live, id>>
          \/ /\ Kickable(s) /\ ~Removable(s)
             /\ GoTo(t, "load")
             /\ mishaps' = mishaps \cup SameAccount(u) \cup {"passed-over"}
             /\ UNCHANGED <<slot, account, held, stale, removal, live, id>>
  /\ UNCHANGED <<slots, tmp, leaving>>

(* After the database calls of User::load p is not looked at again: it may *)
(* be closed, or somebody else's, by now.                                   *)
Late(t) == Met("late", t \in stale \/ slot[t] \in closing)

LoadAndSetUid(t) ==
  /\ at[t] = "load"
  /\ uid' = [uid EXCEPT ![slot[t]] = account[t]]
  /\ GoTo(t, "set-user")
  /\ mishaps' = mishaps \cup Late(t)
  /\ UNCHANGED <<open, closing, user, kick, saveUid, tmp, slot, account, held, stale,
                 removal, users>>

SetUser(t) ==
  /\ at[t] = "set-user"
  /\ user' = [user EXCEPT ![slot[t]] = held[t]]
  /\ Finish(t)
  /\ mishaps' = mishaps \cup Late(t) \cup Met("again", user[slot[t]] # None)
  /\ UNCHANGED <<open, closing, uid, kick, saveUid, tmp, removal, users>>

----------------------------------------------------------------------------
(* Thread::userLeave, when it has saved the User: destory and _free.       *)
UserLeave(o) ==
  /\ o \in leaving
  /\ leaving' = leaving \ {o}
  /\ Release(o)
  /\ UNCHANGED <<slots, tmp, verifiers, removal, mishaps>>

----------------------------------------------------------------------------
Select ==
  /\ fault = "none"
  /\ \/ /\ \/ \E s \in Slot : Connect(s) \/ Disconnect(s)
           \/ \E t \in Verifier, s \in Slot, k \in BOOLEAN : VerifyAccount(t, s, k)
           \/ ClearMessage
           \/ ClearSlot("select")
        /\ UNCHANGED fault
     \/ \E s \in Slot : KickUser(s)
     \/ CloseSlot("select")

VerifyThread(t) ==
  /\ fault = "none"
  /\ \/ /\ \/ CheckSignKey(t) \/ ScanSaveUid(t) \/ ScanUid(t)
           \/ ClearSlot(t) \/ LoadAndSetUid(t) \/ SetUser(t)
        /\ UNCHANGED fault
     \/ CloseSlot(t) \/ ReadNull(t)

LeaveThread(o) == fault = "none" /\ UserLeave(o) /\ UNCHANGED fault

Next ==
  \/ Select
  \/ \E t \in Verifier : VerifyThread(t)
  \/ \E o \in User : LeaveThread(o)

Spec == Init /\ [][Next]_vars

(* The threads run on; what the clients send is up to them, but a close    *)
(* that has begun is finished.                                             *)
FairSpec ==
  /\ Spec
  /\ WF_vars(removing["select"] # "no" /\ Select)
  /\ \A t \in Verifier : WF_vars(VerifyThread(t))
  /\ \A o \in User : WF_vars(LeaveThread(o))

----------------------------------------------------------------------------
(* thread.hpp:121: a User is saved and freed by one userLeave thread, no      *)
(* more (unless it was kicked by copy, or two threads were past the test of  *)
(* Players::remove for its slot) and no less: while it is allocated it is     *)
(* somebody's, a verifier's, a slot's, or on its way out (unless a verifier   *)
(* put it on a slot being closed, or put another one in its place).          *)
Kept(o) ==
  \/ \E t \in Verifier : held[t] = o
  \/ \E s \in Slot : user[s] = o
  \/ o \in leaving
SavedOnce ==
  /\ fault = "left-twice" => mishaps \cap {"copy", "two-closers"} # {}
  /\ \/ mishaps \cap {"late", "again", "two-closers"} # {}
     \/ \A o \in live : Kept(o)

(* The User of a slot that nobody is closing is live, and nobody frees it: *)
(* only a kick by copy frees it under the slot.  And it is the User of the   *)
(* account the slot shows, but for the moment a verifier takes from one     *)
(* field to the next, unless verifiers of one slot crossed or came late.    *)
Settled(s) == s \notin closing /\ user[s] # None
Filling(s) == \E t \in Verifier : at[t] = "set-user" /\ slot[t] = s
UsersLive ==
  \A s \in Slot : Settled(s) =>
    /\ user[s] \in live \ leaving \/ "copy" \in mishaps
    /\ id[user[s]] = uid[s] \/ Filling(s) \/ mishaps \cap {"same-slot", "late"} # {}

(* entry.hpp:114: the key a verifier reads is the one of the message that    *)
(* started it, unless that message has been cleared by then, another one of  *)
(* the same slot has come, or the slot has been closed: then it may find no  *)
(* key, or somebody else's.                                                *)
Confused == mishaps \cap {"key-freed", "same-slot", "late"} # {}
KeyIsOwn ==
  [][/\ fault' = "no-key" => Confused'
     /\ \A t \in Verifier :
          at[t] = "check" /\ at'[t] # "check" => tmp[t] = "own" \/ Confused']_vars

(* An account is in one slot, and a second login refused (entry.hpp:107,    *)
(* status -2), unless two verifiers passed the scan for it before either    *)
(* had set uid, or one met it on a slot being closed.                      *)
TwiceOnline ==
  \E s, r \in Slot \ closing : s # r /\ uid[s] # None /\ uid[s] = uid[r]
OneLogin == TwiceOnline => mishaps \cap {"same-account", "passed-over"} # {}

(* common.h:40: an account that is being saved is not let in; this should  *)
(* hold at least where nothing unlucky has happened.                        *)
NotWhileSaving ==
  mishaps = {} => \A s \in Slot, o \in leaving :
    user[s] \in User \ {o} => id[user[s]] # id[o]

(* common.h:37: who asks for a forced login is not turned away.            *)
ForcedLoginHonoured ==
  [][\A t \in Verifier :
       at[t] = "scan-uid" /\ kick[slot[t]] => at'[t] # "idle"]_vars

(* Every request to log in comes to an end, kick or no kick.               *)
VerifyEnds ==
  \A t \in Verifier : at[t] # "idle" ~> (at[t] = "idle" \/ fault # "none")

(* The User of a slot that is being closed is saved and freed, unless      *)
(* something else took its place or its closer was not the only one.       *)
ClosedUserFreed ==
  \A o \in User :
    (\E c \in Closer : removing[c] = "close" /\ user[victim[c]] = o)
      ~> (o \notin live \/ fault # "none" \/ mishaps \cap {"again", "two-closers"} # {})
=============================================================================
