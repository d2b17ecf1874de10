--------------------------- MODULE Sessions_proofs ---------------------------
(***************************************************************************)
(* What Sessions promises holds for any slots, accounts and verifying       *)
(* threads, and any number of Users.                                        *)
(***************************************************************************)
EXTENDS Sessions, TLAPS

(* The inductive invariant, in parts.                                      *)

Loaded == {"scan-save_uid", "scan-uid", "kick", "load", "set-user"}
Without(kinds) == mishaps \cap kinds = {}

TypeOK ==
  /\ uid \in [Slot -> Account \cup {None}]
  /\ user \in [Slot -> User \cup {None}]
  /\ at \in [Verifier -> Loaded \cup {"idle", "check"}]
  /\ tmp \in [Verifier -> {None, "own", "freed", "other"}]
  /\ slot \in [Verifier -> Slot \cup {None}]
  /\ account \in [Verifier -> Account \cup {None}]
  /\ held \in [Verifier -> User \cup {None}]
  /\ removing \in [Closer -> {"no", "close", "clear"}]
  /\ victim \in [Closer -> Slot \cup {None}]
  /\ live \subseteq User
  /\ id \in [User -> Account \cup {None}]
  /\ leaving \subseteq User

(* A verifier has its slot from the start, and from the check of its key on  *)
(* an account and a User of that account, which nobody frees.               *)
VerifiersHold ==
  \A t \in Verifier :
    /\ at[t] # "idle" => slot[t] \in Slot
    /\ at[t] \in Loaded => /\ account[t] \in Account
                           /\ held[t] \in live \ leaving
                           /\ id[held[t]] = account[t]
    /\ at[t] \notin Loaded => held[t] = None

(* Only a verifier that kicks somebody closes a slot.                       *)
ClosersClose ==
  /\ \A c \in Closer : removing[c] # "no" => victim[c] \in Slot
  /\ \A t \in Verifier : removing[t] # "no" <=> at[t] = "kick"

(* A User has been loaded once, and is in one hand.                         *)
OneOwner ==
  /\ \A s \in Slot : user[s] # None => id[user[s]] # None
  /\ \A o \in live \cup leaving : id[o] # None
  /\ \A s, r \in Slot : user[s] # None /\ user[s] = user[r] => s = r
  /\ \A t \in Verifier, s \in Slot : held[t] # None => held[t] # user[s]
  /\ \A t, v \in Verifier : held[t] # None /\ held[t] = held[v] => t = v

OneVerifier ==
  Without({"same-slot"}) =>
    \A t, v \in Verifier : at[t] # "idle" /\ at[v] # "idle" /\ slot[t] = slot[v] => t = v

(* What a verifier has written to uid is still there when it writes user.   *)
UidWaits ==
  Without({"same-slot", "late"}) =>
    \A t \in Verifier : at[t] = "set-user" => uid[slot[t]] = account[t] \/ t \in stale

(* Past the scan, a verifier has its account to itself, but for slots that  *)
(* are being closed.                                                       *)
AccountAlone ==
  Without({"same-account", "passed-over"}) =>
    /\ \A t, v \in Verifier :
         at[t] \in {"kick", "load"} /\ at[v] \in {"kick", "load"} /\ account[t] = account[v]
           => t = v
    /\ \A t \in Verifier, s \in Slot :
         uid[s] = account[t] =>
           /\ at[t] = "kick" => s \in closing \/ s = victim[t]
           /\ at[t] = "load" => s \in closing

(* A slot is closed by one thread, and has its User on the way out when it   *)
(* is cleared.                                                             *)
OneCloser ==
  Without({"two-closers"}) =>
    /\ \A c, d \in Closer :
         removing[c] # "no" /\ removing[d] # "no" /\ victim[c] = victim[d] => c = d
    /\ \A c \in Closer :
         /\ removing[c] = "close" => victim[c] \notin closing
         /\ removing[c] = "clear" => victim[c] \in closing
         /\ removing[c] = "clear" /\ Without({"late"}) =>
              user[victim[c]] \notin live \ leaving

Keys ==
  \A t \in Verifier : at[t] = "check" =>
    /\ tmp[t] = "other" => "same-slot" \in mishaps
    /\ tmp[t] = None => t \in stale

SessionsInv ==
  /\ TypeOK /\ VerifiersHold /\ ClosersClose /\ OneOwner /\ OneVerifier
  /\ UidWaits /\ AccountAlone /\ OneCloser /\ Keys
  /\ UsersLive /\ OneLogin /\ SavedOnce

----------------------------------------------------------------------------
(* A part is kept by a step that leaves alone what it speaks of: a history  *)
(* only grows.                                                             *)

LEMMA Frame ==
  ASSUME mishaps \subseteq mishaps'
  PROVE  /\ VerifiersHold /\ UNCHANGED <<at, slot, account, held, live, leaving, id>>
              => VerifiersHold'
         /\ ClosersClose /\ UNCHANGED <<at, removing, victim>> => ClosersClose'
         /\ OneOwner /\ UNCHANGED <<user, held, live, leaving, id>> => OneOwner'
         /\ OneVerifier /\ UNCHANGED <<at, slot>> => OneVerifier'
         /\ UidWaits /\ UNCHANGED <<at, uid, slot, account, stale>> => UidWaits'
         /\ AccountAlone /\ UNCHANGED <<at, account, uid, closing, victim>> => AccountAlone'
         /\ OneCloser /\ UNCHANGED <<removing, victim, closing, user, live, leaving>>
              => OneCloser'
         /\ Keys /\ UNCHANGED <<at, tmp, stale>> => Keys'
         /\ UsersLive /\ UNCHANGED <<user, closing, live, leaving, id, uid, at, slot>>
              => UsersLive'
         /\ OneLogin /\ UNCHANGED <<uid, closing>> => OneLogin'
         /\ SavedOnce /\ UNCHANGED <<fault, live, held, user, leaving>> => SavedOnce'
<1>1. VerifiersHold /\ UNCHANGED <<at, slot, account, held, live, leaving, id>>
        => VerifiersHold'
  BY DEF VerifiersHold
<1>2. ClosersClose /\ UNCHANGED <<at, removing, victim>> => ClosersClose'
  BY DEF ClosersClose
<1>3. OneOwner /\ UNCHANGED <<user, held, live, leaving, id>> => OneOwner'
  BY DEF OneOwner
<1>4. OneVerifier /\ UNCHANGED <<at, slot>> => OneVerifier'
  BY DEF OneVerifier, Without
<1>5. UidWaits /\ UNCHANGED <<at, uid, slot, account, stale>> => UidWaits'
  BY DEF UidWaits, Without
<1>6. AccountAlone /\ UNCHANGED <<at, account, uid, closing, victim>> => AccountAlone'
  BY DEF AccountAlone, Without
<1>7. OneCloser /\ UNCHANGED <<removing, victim, closing, user, live, leaving>> => OneCloser'
  BY DEF OneCloser, Without
<1>8. Keys /\ UNCHANGED <<at, tmp, stale>> => Keys'
  BY DEF Keys
<1>9. UsersLive /\ UNCHANGED <<user, closing, live, leaving, id, uid, at, slot>> => UsersLive'
  BY DEF UsersLive, Settled, Filling
<1>10. OneLogin /\ UNCHANGED <<uid, closing>> => OneLogin'
  BY DEF OneLogin, TwiceOnline
<1>11. SavedOnce /\ UNCHANGED <<fault, live, held, user, leaving>> => SavedOnce'
  BY DEF SavedOnce, Kept
<1> QED BY <1>1, <1>2, <1>3, <1>4, <1>5, <1>6, <1>7, <1>8, <1>9, <1>10, <1>11

----------------------------------------------------------------------------
(* The select thread.                                                      *)

LEMMA SessionsInit == Init => SessionsInv
<1> SUFFICES ASSUME Init PROVE SessionsInv
  OBVIOUS
<1> USE SessionsAssumption
<1>1. TypeOK
  BY DEF Init, TypeOK, Closer
<1>2. VerifiersHold /\ ClosersClose
  BY DEF Init, VerifiersHold, ClosersClose, Loaded, Closer
<1>3. OneOwner /\ OneVerifier
  BY DEF Init, OneOwner, OneVerifier
<1>4. UidWaits /\ AccountAlone
  BY DEF Init, UidWaits, AccountAlone
<1>5. OneCloser /\ Keys
  BY DEF Init, OneCloser, Keys, Closer
<1>6. UsersLive /\ OneLogin /\ SavedOnce
  BY DEF Init, UsersLive, OneLogin, SavedOnce, Settled, TwiceOnline
<1> QED BY <1>1, <1>2, <1>3, <1>4, <1>5, <1>6 DEF SessionsInv

LEMMA ConnectKeeps ==
  ASSUME SessionsInv, NEW s \in Slot, Connect(s), UNCHANGED fault
  PROVE  SessionsInv'
<1>1. UNCHANGED <<closing, uid, user, tmp, verifiers, removal, users, mishaps, fault>>
  BY DEF Connect
<1>2. TypeOK'
  BY <1>1 DEF SessionsInv, TypeOK, verifiers, removal, users
<1> QED BY <1>1, <1>2, Frame DEF SessionsInv, verifiers, removal, users

LEMMA DisconnectKeeps ==
  ASSUME SessionsInv, NEW s \in Slot, Disconnect(s), UNCHANGED fault
  PROVE  SessionsInv'
<1> USE SessionsAssumption
<1>1. /\ UNCHANGED <<closing, uid, user, tmp, at, slot, account, held, stale, live, id,
                     leaving, fault>>
      /\ mishaps \subseteq mishaps'
      /\ removing["select"] = "no" /\ s \notin closing
      /\ removing' = [removing EXCEPT !["select"] = "close"]
      /\ victim' = [victim EXCEPT !["select"] = s]
  BY DEF Disconnect, Handling, Removable, BeginRemove, slots, verifiers, users
<1>2. TypeOK'
  BY <1>1 DEF SessionsInv, TypeOK, Closer
<1>3. ClosersClose'
  BY <1>1 DEF SessionsInv, TypeOK, ClosersClose, Closer
<1>4. AccountAlone'
  BY <1>1 DEF SessionsInv, TypeOK, AccountAlone, Closer, Without
<1>5. OneCloser'
  <2> SUFFICES ASSUME Without({"two-closers"})'
               PROVE  OneCloser'
    BY DEF OneCloser
  <2>1. \A d \in Closer : removing[d] # "no" => victim[d] # s
    BY <1>1 DEF SessionsInv, TypeOK, OneCloser, Disconnect, TwoClosers, Met, Without
  <2> QED BY <1>1, <2>1 DEF SessionsInv, TypeOK, OneCloser, Closer, Without
<1> QED BY <1>1, <1>2, <1>3, <1>4, <1>5, Frame DEF SessionsInv

LEMMA VerifyAccountKeeps ==
  ASSUME SessionsInv, NEW t \in Verifier, NEW s \in Slot, NEW k \in BOOLEAN,
         VerifyAccount(t, s, k), UNCHANGED fault
  PROVE  SessionsInv'
<1> USE SessionsAssumption
<1>1. /\ UNCHANGED <<closing, uid, user, account, held, stale, removing, victim, live, id,
                     leaving, fault>>
      /\ mishaps' = mishaps \cup
           Met("same-slot", \E v \in Verifier : at[v] # "idle" /\ slot[v] = s)
      /\ at[t] = "idle"
      /\ tmp' = [v \in Verifier |-> IF v = t THEN "own"
                                    ELSE IF v \in Readers(s) THEN "other" ELSE tmp[v]]
      /\ at' = [at EXCEPT ![t] = "check"]
      /\ slot' = [slot EXCEPT ![t] = s]
  BY DEF VerifyAccount, GoTo, removal, users
<1>2. mishaps \subseteq mishaps'
  BY <1>1
<1>3. TypeOK'
  BY <1>1 DEF SessionsInv, TypeOK
<1>4. VerifiersHold'
  BY <1>1 DEF SessionsInv, TypeOK, VerifiersHold, Loaded
<1>5. ClosersClose'
  BY <1>1 DEF SessionsInv, TypeOK, ClosersClose
<1>6. OneVerifier'
  <2> SUFFICES ASSUME Without({"same-slot"})'
               PROVE  OneVerifier'
    BY DEF OneVerifier
  <2>1. \A v \in Verifier : at[v] # "idle" => slot[v] # s
    <3> SUFFICES ASSUME NEW v \in Verifier, at[v] # "idle", slot[v] = s
                 PROVE  FALSE
      OBVIOUS
    <3>1. "same-slot" \in mishaps'
      BY <1>1 DEF Met
    <3> QED BY <3>1 DEF Without
  <2>2. SUFFICES ASSUME NEW v \in Verifier, NEW w \in Verifier,
                        at'[v] # "idle", at'[w] # "idle", slot'[v] = slot'[w]
                 PROVE  v = w
    BY DEF OneVerifier
  <2>3. \A x \in Verifier \ {t} : at'[x] = at[x] /\ slot'[x] = slot[x]
    BY <1>1 DEF SessionsInv, TypeOK
  <2>4. slot'[t] = s
    BY <1>1 DEF SessionsInv, TypeOK
  <2>5. CASE v # t /\ w # t
    <3>1. Without({"same-slot"})
      BY <1>2 DEF Without
    <3> QED BY <2>2, <2>3, <2>5, <3>1 DEF SessionsInv, OneVerifier
  <2>6. CASE v = t \/ w = t
    BY <2>1, <2>2, <2>3, <2>4, <2>6
  <2> QED BY <2>5, <2>6
<1>7. UidWaits'
  BY <1>1, <1>2 DEF SessionsInv, TypeOK, UidWaits, Without
<1>8. AccountAlone'
  BY <1>1, <1>2 DEF SessionsInv, TypeOK, AccountAlone, Without
<1>9. Keys'
  <2> SUFFICES ASSUME NEW v \in Verifier, at'[v] = "check"
               PROVE  /\ tmp'[v] = "other" => "same-slot" \in mishaps'
                      /\ tmp'[v] = None => v \in stale'
    BY DEF Keys
  <2>1. CASE v = t
    BY <1>1, <2>1 DEF SessionsInv, TypeOK
  <2>2. CASE v # t /\ v \in Readers(s)
    BY <1>1, <2>2 DEF Readers, Met
  <2>3. CASE v # t /\ v \notin Readers(s)
    BY <1>1, <1>2, <2>3 DEF SessionsInv, TypeOK, Keys
  <2> QED BY <2>1, <2>2, <2>3
<1>10. UsersLive'
  BY <1>1, <1>2 DEF SessionsInv, TypeOK, UsersLive, Settled, Filling
<1> QED BY <1>1, <1>2, <1>3, <1>4, <1>5, <1>6, <1>7, <1>8, <1>9, <1>10, Frame DEF SessionsInv

LEMMA ClearMessageKeeps ==
  ASSUME SessionsInv, ClearMessage, UNCHANGED fault
  PROVE  SessionsInv'
<1> USE SessionsAssumption
<1>1. PICK t \in Verifier : tmp' = [tmp EXCEPT ![t] = "freed"]
  BY DEF ClearMessage
<1>2. UNCHANGED <<slots, verifiers, removal, users, mishaps, fault>>
  BY DEF ClearMessage
<1>3. TypeOK'
  BY <1>1, <1>2 DEF SessionsInv, TypeOK, slots, verifiers, removal, users
<1>4. Keys'
  BY <1>1, <1>2 DEF SessionsInv, TypeOK, Keys, verifiers
<1> QED BY <1>2, <1>3, <1>4, Frame DEF SessionsInv, slots, verifiers, removal, users

LEMMA ClearSlotKeeps ==
  ASSUME SessionsInv, NEW c \in Closer, ClearSlot(c), UNCHANGED fault
  PROVE  SessionsInv'
<1> DEFINE s == victim[c]
<1> USE SessionsAssumption
<1>1. /\ UNCHANGED <<slot, account, held, live, id, leaving, mishaps, fault>>
      /\ removing[c] = "clear"
      /\ closing' = closing \ {s}
      /\ uid' = [uid EXCEPT ![s] = None]
      /\ user' = [user EXCEPT ![s] = None]
      /\ tmp' = [t \in Verifier |-> IF t \in Readers(s) THEN None ELSE tmp[t]]
      /\ stale' = stale \cup {t \in Verifier : at[t] # "idle" /\ slot[t] = s}
      /\ removing' = [removing EXCEPT ![c] = "no"]
      /\ victim' = [victim EXCEPT ![c] = None]
      /\ at' = Resumed(c)
  BY DEF ClearSlot, Wiped, users
<1>2. s \in Slot
  BY <1>1 DEF SessionsInv, ClosersClose
<1>3. \A t \in Verifier : at'[t] = IF t = c THEN "load" ELSE at[t]
  BY <1>1 DEF SessionsInv, TypeOK, Resumed
<1>4. c \in Verifier => at[c] = "kick"
  BY <1>1 DEF SessionsInv, ClosersClose
<1> HIDE DEF s
<1>5. TypeOK'
  <2>1. at' \in [Verifier -> Loaded \cup {"idle", "check"}]
    BY <1>1 DEF SessionsInv, TypeOK, Resumed, Loaded
  <2> QED BY <1>1, <1>2, <2>1 DEF SessionsInv, TypeOK
<1>6. VerifiersHold'
  BY <1>1, <1>3, <1>4 DEF SessionsInv, TypeOK, VerifiersHold, Loaded
<1>7. ClosersClose'
  BY <1>1, <1>3, <1>4 DEF SessionsInv, TypeOK, ClosersClose, Closer, s
<1>8. OneOwner'
  BY <1>1, <1>2 DEF SessionsInv, TypeOK, OneOwner
<1>9. OneVerifier'
  BY <1>1, <1>3, <1>4 DEF SessionsInv, OneVerifier, Without
<1>10. UidWaits'
  BY <1>1, <1>2, <1>3, <1>4 DEF SessionsInv, TypeOK, UidWaits, Without, VerifiersHold, Loaded
<1>11. AccountAlone'
  <2> SUFFICES ASSUME Without({"same-account", "passed-over"})
               PROVE  AccountAlone'
    BY <1>1 DEF AccountAlone, Without
  <2>1. \A t, v \in Verifier :
          at'[t] \in {"kick", "load"} /\ at'[v] \in {"kick", "load"} /\ account[t] = account[v]
            => t = v
    BY <1>3, <1>4 DEF SessionsInv, AccountAlone
  <2>2. ASSUME NEW t \in Verifier, NEW r \in Slot, uid'[r] = account[t],
               at'[t] \in {"kick", "load"}
        PROVE  /\ at'[t] = "kick" => r \in closing' \/ r = victim'[t]
               /\ at'[t] = "load" => r \in closing'
    <3>1. at[t] \in {"kick", "load"}
      BY <1>3, <1>4, <2>2
    <3>2. account[t] \in Account
      BY <3>1 DEF SessionsInv, VerifiersHold, Loaded
    <3>3. r # s /\ uid[r] = account[t]
      BY <1>1, <1>2, <2>2, <3>2 DEF SessionsInv, TypeOK
    <3>4. CASE t = c
      BY <1>1, <1>3, <1>4, <3>3, <3>4 DEF SessionsInv, AccountAlone, s
    <3>5. CASE t # c
      BY <1>1, <1>3, <3>3, <3>5 DEF SessionsInv, TypeOK, AccountAlone, Closer
    <3> QED BY <3>4, <3>5
  <2> QED BY <1>1, <2>1, <2>2 DEF AccountAlone
<1>12. OneCloser'
  <2> SUFFICES ASSUME Without({"two-closers"})
               PROVE  OneCloser'
    BY <1>1 DEF OneCloser, Without
  <2>1. \A d \in Closer : removing'[d] # "no" =>
          d # c /\ removing'[d] = removing[d] /\ victim'[d] = victim[d] /\ victim[d] # s
    BY <1>1 DEF SessionsInv, TypeOK, OneCloser, s
  <2>2. \A d \in Closer : removing'[d] # "no" => user'[victim'[d]] = user[victim[d]]
    BY <1>1, <2>1 DEF SessionsInv, TypeOK, ClosersClose
  <2>3. \A d, e \in Closer :
          removing'[d] # "no" /\ removing'[e] # "no" /\ victim'[d] = victim'[e] => d = e
    BY <2>1 DEF SessionsInv, OneCloser
  <2>4. \A d \in Closer :
          /\ removing[d] = "close" => victim[d] \notin closing
          /\ removing[d] = "clear" => victim[d] \in closing
          /\ removing[d] = "clear" /\ Without({"late"}) =>
               user[victim[d]] \notin live \ leaving
    BY DEF SessionsInv, OneCloser
  <2>5. ASSUME NEW d \in Closer, removing'[d] # "no"
        PROVE  /\ removing'[d] = "close" => victim'[d] \notin closing'
               /\ removing'[d] = "clear" => victim'[d] \in closing'
               /\ removing'[d] = "clear" /\ Without({"late"})' =>
                    user'[victim'[d]] \notin live' \ leaving'
    <3>1. /\ removing'[d] = removing[d] /\ victim'[d] = victim[d] /\ victim[d] # s
          /\ user'[victim'[d]] = user[victim[d]]
      BY <2>1, <2>2, <2>5
    <3>2. /\ closing' = closing \ {s} /\ UNCHANGED <<live, leaving>>
          /\ Without({"late"})' => Without({"late"})
      BY <1>1 DEF Without
    <3> QED BY <2>4, <3>1, <3>2
  <2>6. ASSUME NEW d \in Closer
        PROVE  /\ removing'[d] = "close" => victim'[d] \notin closing'
               /\ removing'[d] = "clear" => victim'[d] \in closing'
               /\ removing'[d] = "clear" /\ Without({"late"})' =>
                    user'[victim'[d]] \notin live' \ leaving'
    BY <2>5
  <2> QED BY <2>3, <2>6 DEF OneCloser
<1>13. Keys'
  <2> SUFFICES ASSUME NEW t \in Verifier, at'[t] = "check"
               PROVE  /\ tmp'[t] = "other" => "same-slot" \in mishaps'
                      /\ tmp'[t] = None => t \in stale'
    BY DEF Keys
  <2>1. at[t] = "check"
    BY <1>3
  <2>2. CASE t \in Readers(s)
    BY <1>1, <2>1, <2>2 DEF Readers
  <2>3. CASE t \notin Readers(s)
    BY <1>1, <2>1, <2>3 DEF SessionsInv, Keys
  <2> QED BY <2>2, <2>3
<1>14. \A r \in Slot : user'[r] # None => r # s /\ user'[r] = user[r] /\ uid'[r] = uid[r]
  BY <1>1, <1>2 DEF SessionsInv, TypeOK
<1>15. UsersLive'
  <2> SUFFICES ASSUME NEW r \in Slot, Settled(r)'
               PROVE  /\ user'[r] \in live \ leaving \/ "copy" \in mishaps
                      /\ \/ id[user'[r]] = uid'[r]
                         \/ Filling(r)'
                         \/ mishaps \cap {"same-slot", "late"} # {}
    BY <1>1 DEF UsersLive
  <2>1. Settled(r) /\ user'[r] = user[r] /\ uid'[r] = uid[r]
    BY <1>1, <1>14 DEF Settled
  <2>2. Filling(r) => Filling(r)'
    BY <1>1, <1>3, <1>4 DEF Filling
  <2> QED BY <2>1, <2>2 DEF SessionsInv, UsersLive
<1>16. OneLogin'
  <2> SUFFICES ASSUME TwiceOnline'
               PROVE  TwiceOnline
    BY <1>1 DEF SessionsInv, OneLogin
  <2> QED BY <1>1, <1>2 DEF TwiceOnline, SessionsInv, TypeOK
<1>17. SavedOnce'
  <2>1. SUFFICES ASSUME Without({"late", "again", "two-closers"}), NEW o \in live
                 PROVE  Kept(o)'
    BY <1>1 DEF SessionsInv, SavedOnce, Without
  <2>2. Kept(o)
    BY <2>1 DEF SessionsInv, SavedOnce, Without
  <2>3. user[s] = o => o \in leaving
    BY <1>1, <2>1 DEF SessionsInv, OneCloser, Without, s
  <2> QED BY <1>1, <1>2, <2>2, <2>3 DEF SessionsInv, TypeOK, Kept
<1> QED BY <1>5, <1>6, <1>7, <1>8, <1>9, <1>10, <1>11, <1>12, <1>13, <1>15, <1>16, <1>17
        DEF SessionsInv

LEMMA KickUserKeeps ==
  ASSUME SessionsInv, NEW s \in Slot, KickUser(s)
  PROVE  SessionsInv'
<1> USE SessionsAssumption
<1>1. /\ UNCHANGED <<closing, uid, user, tmp, at, slot, account, held, stale, removing,
                     victim, live, id>>
      /\ mishaps' = mishaps \cup {"copy"}
  BY DEF KickUser, slots, verifiers, removal
<1>2. /\ leaving \subseteq leaving' /\ leaving' \subseteq live \cup leaving
      /\ \A o \in leaving' \ leaving : o = user[s]
      /\ fault' = "left-twice" \/ fault' = fault
  BY DEF KickUser, StartLeave
<1>3. TypeOK'
  BY <1>1, <1>2 DEF SessionsInv, TypeOK
<1>4. VerifiersHold'
  <2>1. \A t \in Verifier : at[t] \in Loaded => held[t] # None /\ held[t] # user[s]
    BY DEF SessionsInv, TypeOK, VerifiersHold, OneOwner
  <2> QED BY <1>1, <1>2, <2>1 DEF SessionsInv, VerifiersHold
<1>5. OneOwner'
  BY <1>1, <1>2 DEF SessionsInv, OneOwner
<1>6. OneCloser'
  BY <1>1, <1>2 DEF SessionsInv, OneCloser, Without
<1>7. UsersLive'
  BY <1>1 DEF SessionsInv, UsersLive, Settled, Filling
<1>8. SavedOnce'
  BY <1>1, <1>2 DEF SessionsInv, SavedOnce, Kept
<1> QED BY <1>1, <1>3, <1>4, <1>5, <1>6, <1>7, <1>8, Frame DEF SessionsInv

LEMMA CloseSlotKeeps ==
  ASSUME SessionsInv, NEW c \in Closer, CloseSlot(c)
  PROVE  SessionsInv'
<1> DEFINE s == victim[c]
<1> USE SessionsAssumption
<1>1. /\ UNCHANGED <<uid, user, tmp, at, slot, account, held, stale, victim, live, id, mishaps>>
      /\ removing[c] = "close"
      /\ removing' = [removing EXCEPT ![c] = "clear"]
      /\ closing' = closing \cup {s}
  BY DEF CloseSlot, verifiers
<1>2. s \in Slot
  BY <1>1 DEF SessionsInv, ClosersClose
<1>3. /\ leaving \subseteq leaving' /\ leaving' \subseteq live \cup leaving
      /\ \A o \in leaving' \ leaving : o = user[s]
      /\ user[s] # None => user[s] \notin live \ leaving'
      /\ fault' = fault \/ (fault' = "left-twice" /\ user[s] # None /\ user[s] \notin live \ leaving)
  BY DEF CloseSlot, HasUser, StartLeave
<1> HIDE DEF s
<1>4. TypeOK'
  BY <1>1, <1>3 DEF SessionsInv, TypeOK
<1>5. VerifiersHold'
  <2>1. \A t \in Verifier : at[t] \in Loaded => held[t] # None /\ held[t] # user[s]
    BY <1>2 DEF SessionsInv, TypeOK, VerifiersHold, OneOwner
  <2> QED BY <1>1, <1>3, <2>1 DEF SessionsInv, VerifiersHold
<1>6. ClosersClose'
  BY <1>1 DEF SessionsInv, TypeOK, ClosersClose, Closer
<1>7. OneOwner'
  BY <1>1, <1>3 DEF SessionsInv, OneOwner
<1>8. AccountAlone'
  BY <1>1 DEF SessionsInv, AccountAlone, Without
<1>9. OneCloser'
  <2> SUFFICES ASSUME Without({"two-closers"})
               PROVE  OneCloser'
    BY <1>1 DEF OneCloser, Without
  <2>1. \A d \in Closer : removing[d] # "no" /\ victim[d] = s => d = c
    BY <1>1 DEF SessionsInv, OneCloser, s
  <2>2. \A d \in Closer : d # c => removing'[d] = removing[d]
    BY <1>1 DEF SessionsInv, TypeOK
  <2>3. \A d \in Closer : removing'[d] # "no" => removing[d] # "no"
    BY <1>1, <2>2
  <2>4. \A d, e \in Closer :
          removing'[d] # "no" /\ removing'[e] # "no" /\ victim'[d] = victim'[e] => d = e
    BY <1>1, <2>3 DEF SessionsInv, OneCloser
  <2>5. ASSUME NEW d \in Closer
        PROVE  /\ removing'[d] = "close" => victim'[d] \notin closing'
               /\ removing'[d] = "clear" => victim'[d] \in closing'
               /\ removing'[d] = "clear" /\ Without({"late"})' =>
                    user'[victim'[d]] \notin live' \ leaving'
    <3>1. CASE d = c
      BY <1>1, <1>3, <3>1 DEF SessionsInv, TypeOK, s
    <3>2. CASE d # c
      BY <1>1, <1>3, <2>1, <2>2, <3>2 DEF SessionsInv, OneCloser, Without
    <3> QED BY <3>1, <3>2
  <2> QED BY <2>4, <2>5 DEF OneCloser
<1>10. UsersLive'
  <2> SUFFICES ASSUME NEW r \in Slot, Settled(r)'
               PROVE  /\ user[r] \in live \ leaving' \/ "copy" \in mishaps
                      /\ \/ id[user[r]] = uid[r]
                         \/ Filling(r)'
                         \/ mishaps \cap {"same-slot", "late"} # {}
    BY <1>1 DEF UsersLive
  <2>1. Settled(r) /\ r # s
    BY <1>1 DEF Settled
  <2>2. user[r] # user[s]
    BY <1>2, <2>1 DEF SessionsInv, OneOwner, Settled
  <2>3. Filling(r) => Filling(r)'
    BY <1>1 DEF Filling
  <2> QED BY <1>3, <2>1, <2>2, <2>3 DEF SessionsInv, UsersLive
<1>11. OneLogin'
  BY <1>1 DEF SessionsInv, OneLogin, TwiceOnline
<1>12. SavedOnce'
  <2>1. fault' = "left-twice" => mishaps \cap {"copy", "two-closers"} # {}
    <3> SUFFICES ASSUME fault' # fault, "copy" \notin mishaps, Without({"two-closers"})
                 PROVE  FALSE
      BY DEF SessionsInv, SavedOnce, Without
    <3>1. Settled(s)
      BY <1>1, <1>3 DEF SessionsInv, OneCloser, Settled, s
    <3> QED BY <1>2, <1>3, <3>1 DEF SessionsInv, UsersLive
  <2>2. \A o \in live : Kept(o) => Kept(o)'
    BY <1>1, <1>3 DEF Kept
  <2> QED BY <1>1, <2>1, <2>2 DEF SessionsInv, SavedOnce
<1> QED BY <1>1, <1>4, <1>5, <1>6, <1>7, <1>8, <1>9, <1>10, <1>11, <1>12, Frame
        DEF SessionsInv

----------------------------------------------------------------------------
(* A verifying thread.                                                     *)

(* It ends before it has written to its slot.                               *)
LEMMA EndKeeps ==
  ASSUME SessionsInv, NEW t \in Verifier,
         at[t] \in {"check", "scan-save_uid", "scan-uid"},
         Finish(t),
         live' = live \ {held[t]},
         UNCHANGED <<closing, uid, user, removing, victim, id, leaving, fault>>,
         mishaps \subseteq mishaps',
         tmp' \in [Verifier -> {None, "own", "freed", "other"}],
         \A v \in Verifier \ {t} : tmp'[v] = tmp[v]
  PROVE  SessionsInv'
<1> USE SessionsAssumption
<1>1. /\ at' = [at EXCEPT ![t] = "idle"]
      /\ slot' = [slot EXCEPT ![t] = None]
      /\ account' = [account EXCEPT ![t] = None]
      /\ held' = [held EXCEPT ![t] = None]
      /\ stale' = stale \ {t}
  BY DEF Finish, GoTo
<1>2. /\ at'[t] = "idle" /\ held'[t] = None
      /\ \A v \in Verifier \ {t} :
           /\ at'[v] = at[v] /\ slot'[v] = slot[v] /\ account'[v] = account[v]
           /\ held'[v] = held[v] /\ (v \in stale' <=> v \in stale)
  BY <1>1 DEF SessionsInv, TypeOK
<1> HIDE DEF Finish
<1>3. TypeOK'
  BY <1>1 DEF SessionsInv, TypeOK
<1>4. VerifiersHold'
  <2> SUFFICES ASSUME NEW v \in Verifier, v # t
               PROVE  /\ at[v] # "idle" => slot[v] \in Slot
                      /\ at[v] \in Loaded => /\ account[v] \in Account
                                             /\ held[v] \in live' \ leaving
                                             /\ id[held[v]] = account[v]
                      /\ at[v] \notin Loaded => held[v] = None
    BY <1>2 DEF VerifiersHold, Loaded
  <2>1. held[v] # None => held[v] # held[t]
    BY DEF SessionsInv, OneOwner
  <2>2. at[v] \in Loaded => held[v] # None
    BY DEF SessionsInv, TypeOK, VerifiersHold
  <2> QED BY <2>1, <2>2 DEF SessionsInv, VerifiersHold
<1>5. ClosersClose'
  BY <1>2 DEF SessionsInv, ClosersClose
<1>6. OneOwner'
  <2>1. \A v \in Verifier : held'[v] # None => v # t /\ held'[v] = held[v]
    BY <1>2
  <2>2. \A v \in Verifier, s \in Slot : held'[v] # None => held'[v] # user[s]
    BY <2>1 DEF SessionsInv, OneOwner
  <2>3. \A v, w \in Verifier : held'[v] # None /\ held'[v] = held'[w] => v = w
    BY <2>1 DEF SessionsInv, OneOwner
  <2> QED BY <2>2, <2>3 DEF SessionsInv, OneOwner
<1>7. OneVerifier'
  <2>1. \A v \in Verifier :
          at'[v] # "idle" => at[v] # "idle" /\ slot'[v] = slot[v]
    BY <1>2
  <2> QED BY <2>1 DEF SessionsInv, OneVerifier, Without
<1>8. UidWaits'
  BY <1>2 DEF SessionsInv, UidWaits, Without
<1>9. AccountAlone'
  <2>1. \A v \in Verifier : at'[v] \in {"kick", "load"} =>
          at'[v] = at[v] /\ account'[v] = account[v]
    BY <1>2
  <2> QED BY <2>1 DEF SessionsInv, AccountAlone, Without
<1>10. OneCloser'
  BY DEF SessionsInv, OneCloser, Without
<1>11. Keys'
  BY <1>2 DEF SessionsInv, Keys
<1>12. UsersLive'
  <2> SUFFICES ASSUME NEW r \in Slot, Settled(r)
               PROVE  /\ user[r] \in live' \ leaving \/ "copy" \in mishaps'
                      /\ \/ id[user[r]] = uid[r]
                         \/ Filling(r)'
                         \/ mishaps' \cap {"same-slot", "late"} # {}
    BY DEF UsersLive, Settled
  <2>1. user[r] # held[t]
    BY DEF SessionsInv, OneOwner, Settled
  <2>2. Filling(r) => Filling(r)'
    BY <1>2 DEF Filling
  <2> QED BY <2>1, <2>2 DEF SessionsInv, UsersLive
<1>13. OneLogin'
  BY DEF SessionsInv, OneLogin, TwiceOnline
<1>14. SavedOnce'
  <2> SUFFICES ASSUME NEW o \in live, o # held[t], Kept(o)
               PROVE  Kept(o)'
    BY DEF SessionsInv, SavedOnce
  <2> QED BY <1>2 DEF Kept
<1> QED BY <1>3, <1>4, <1>5, <1>6, <1>7, <1>8, <1>9, <1>10, <1>11, <1>12, <1>13, <1>14
        DEF SessionsInv

LEMMA ReadNullKeeps ==
  ASSUME SessionsInv, NEW t \in Verifier, ReadNull(t)
  PROVE  SessionsInv'
<1> USE SessionsAssumption
<1>1. /\ UNCHANGED <<slots, verifiers, removal, users>>
      /\ tmp' = [tmp EXCEPT ![t] = None]
      /\ mishaps \subseteq mishaps'
      /\ tmp[t] = None
      /\ fault' = "no-key"
  BY DEF ReadNull, Read
<1>2. TypeOK'
  BY <1>1 DEF SessionsInv, TypeOK, slots, verifiers, removal, users
<1>3. Keys'
  BY <1>1 DEF SessionsInv, TypeOK, Keys, verifiers
<1>4. SavedOnce'
  BY <1>1 DEF SessionsInv, SavedOnce, Kept, slots, verifiers, users
<1> QED BY <1>1, <1>2, <1>3, <1>4, Frame DEF SessionsInv, slots, verifiers, removal, users

LEMMA CheckSignKeyKeeps ==
  ASSUME SessionsInv, NEW t \in Verifier, CheckSignKey(t), UNCHANGED fault
  PROVE  SessionsInv'
<1> USE SessionsAssumption
<1>1. /\ UNCHANGED <<closing, uid, user, removing, victim>>
      /\ at[t] = "check"
      /\ tmp' = [tmp EXCEPT ![t] = None]
      /\ mishaps \subseteq mishaps'
  BY DEF CheckSignKey, Read, slots, removal
<1>2. /\ tmp' \in [Verifier -> {None, "own", "freed", "other"}]
      /\ \A v \in Verifier \ {t} : tmp'[v] = tmp[v]
  BY <1>1 DEF SessionsInv, TypeOK
<1>3. held[t] = None
  BY <1>1 DEF SessionsInv, VerifiersHold, Loaded
<1>4. CASE Finish(t) /\ UNCHANGED users
  <2>1. live' = live \ {held[t]} /\ UNCHANGED <<id, leaving>>
    BY <1>3, <1>4 DEF users, SessionsInv, TypeOK
  <2> QED BY <1>1, <1>2, <1>4, <2>1, EndKeeps
<1>5. ASSUME NEW o \in User, NEW u \in Account,
             id[o] = None,
             live' = live \cup {o},
             id' = [id EXCEPT ![o] = u],
             held' = [held EXCEPT ![t] = o],
             account' = [account EXCEPT ![t] = u],
             at' = [at EXCEPT ![t] = "scan-save_uid"],
             UNCHANGED <<slot, stale, leaving>>
      PROVE  SessionsInv'
  <2>1. /\ at'[t] = "scan-save_uid" /\ held'[t] = o /\ account'[t] = u
        /\ \A v \in Verifier \ {t} :
             at'[v] = at[v] /\ account'[v] = account[v] /\ held'[v] = held[v]
    BY <1>5 DEF SessionsInv, TypeOK
  <2>2. /\ o \notin live \cup leaving
        /\ \A s \in Slot : user[s] # o
        /\ \A v \in Verifier : held[v] # o
    BY <1>5 DEF SessionsInv, TypeOK, OneOwner, VerifiersHold
  <2>3. id'[o] = u /\ \A p \in User \ {o} : id'[p] = id[p]
    BY <1>5 DEF SessionsInv, TypeOK
  <2>4. TypeOK'
    BY <1>1, <1>2, <1>5 DEF SessionsInv, TypeOK, Loaded
  <2>5. VerifiersHold'
    <3>1. /\ slot'[t] \in Slot /\ account'[t] \in Account
          /\ held'[t] \in live' \ leaving' /\ id'[held'[t]] = account'[t]
      
      <4>1. at[t] # "idle"
        BY <1>1
      <4>2. slot[t] \in Slot
        BY <4>1 DEF SessionsInv, VerifiersHold
      <4>3. /\ slot'[t] = slot[t]
            /\ o \in live' \ leaving'
        BY <1>5, <2>2
      <4> QED BY <2>1, <2>3, <4>2, <4>3
    <3>2. ASSUME NEW v \in Verifier \ {t}
          PROVE  /\ at[v] # "idle" => slot'[v] \in Slot
                 /\ at[v] \in Loaded => /\ account[v] \in Account
                                        /\ held[v] \in live' \ leaving'
                                        /\ id'[held[v]] = account[v]
                 /\ at[v] \notin Loaded => held[v] = None
      BY <1>5, <2>2, <2>3 DEF SessionsInv, TypeOK, VerifiersHold
    <3> QED BY <2>1, <3>1, <3>2 DEF VerifiersHold, Loaded
  <2>6. ClosersClose'
    BY <1>1, <2>1 DEF SessionsInv, ClosersClose
  <2>7. OneOwner'
    <3>1. \A s \in Slot : user'[s] # None => id'[user'[s]] # None
      BY <1>1, <2>2, <2>3 DEF SessionsInv, TypeOK, OneOwner
    <3>2. \A p \in live' \cup leaving' : id'[p] # None
      BY <1>5, <2>3 DEF SessionsInv, TypeOK, OneOwner
    <3>3. \A v \in Verifier, s \in Slot : held'[v] # None => held'[v] # user'[s]
      <4> SUFFICES ASSUME NEW v \in Verifier, NEW s \in Slot, held'[v] # None
                   PROVE  held'[v] # user[s]
        BY <1>1
      <4>1. CASE v = t
        BY <2>1, <2>2, <4>1
      <4>2. CASE v # t
        BY <2>1, <4>2 DEF SessionsInv, OneOwner
      <4> QED BY <4>1, <4>2
    <3>4. \A v, w \in Verifier : held'[v] # None /\ held'[v] = held'[w] => v = w
      <4> SUFFICES ASSUME NEW v \in Verifier, NEW w \in Verifier,
                          held'[v] # None, held'[v] = held'[w]
                   PROVE  v = w
        OBVIOUS
      <4>1. CASE v = t \/ w = t
        BY <2>1, <2>2, <4>1
      <4>2. CASE v # t /\ w # t
        BY <2>1, <4>2 DEF SessionsInv, OneOwner
      <4> QED BY <4>1, <4>2
    <3>5. \A s, r \in Slot : user'[s] # None /\ user'[s] = user'[r] => s = r
      BY <1>1 DEF SessionsInv, OneOwner
    <3> QED BY <3>1, <3>2, <3>3, <3>4, <3>5 DEF OneOwner
  <2>8. OneVerifier'
    BY <1>1, <1>5, <2>1 DEF SessionsInv, OneVerifier, Without
  <2>9. UidWaits'
    BY <1>1, <1>5, <2>1 DEF SessionsInv, UidWaits, Without
  <2>10. AccountAlone'
    BY <1>1, <2>1 DEF SessionsInv, AccountAlone, Without
  <2>11. OneCloser'
    <3>1. \A c \in Closer : removing[c] # "no" => user[victim[c]] # o
      BY <2>2 DEF SessionsInv, ClosersClose
    <3> QED BY <1>1, <1>5, <3>1 DEF SessionsInv, OneCloser, Without
  <2>12. Keys'
    BY <1>1, <1>2, <1>5, <2>1 DEF SessionsInv, Keys
  <2>13. UsersLive'
    <3> SUFFICES ASSUME NEW r \in Slot, Settled(r)
                 PROVE  /\ user[r] \in live' \ leaving' \/ "copy" \in mishaps'
                        /\ \/ id'[user[r]] = uid[r]
                           \/ Filling(r)'
                           \/ mishaps' \cap {"same-slot", "late"} # {}
      BY <1>1 DEF UsersLive, Settled
    <3>1. id'[user[r]] = id[user[r]]
      BY <2>2, <2>3 DEF SessionsInv, TypeOK, Settled
    <3>2. Filling(r) => Filling(r)'
      BY <1>1, <1>5, <2>1 DEF Filling
    <3> QED BY <1>1, <1>5, <3>1, <3>2 DEF SessionsInv, UsersLive
  <2>14. OneLogin'
    BY <1>1 DEF SessionsInv, OneLogin, TwiceOnline
  <2>15. SavedOnce'
    <3>1. Kept(o)'
      BY <2>1 DEF Kept
    <3>2. \A p \in live : Kept(p) => Kept(p)'
      <4> SUFFICES ASSUME NEW p \in live, Kept(p)
                   PROVE  Kept(p)'
        OBVIOUS
      <4>1. p # None
        BY DEF SessionsInv, TypeOK
      <4>2. ASSUME NEW v \in Verifier, held[v] = p PROVE Kept(p)'
        BY <1>3, <2>1, <4>1, <4>2 DEF Kept
      <4> QED BY <1>1, <1>5, <4>2 DEF Kept
    <3> QED BY <1>1, <1>5, <3>1, <3>2 DEF SessionsInv, SavedOnce
  <2> QED BY <2>4, <2>5, <2>6, <2>7, <2>8, <2>9, <2>10, <2>11, <2>12, <2>13, <2>14, <2>15
          DEF SessionsInv
<1> QED BY <1>4, <1>5 DEF CheckSignKey, SignedBy, GoTo

LEMMA ScanSaveUidKeeps ==
  ASSUME SessionsInv, NEW t \in Verifier, ScanSaveUid(t), UNCHANGED fault
  PROVE  SessionsInv'
<1> USE SessionsAssumption
<1>1. /\ UNCHANGED <<closing, uid, user, tmp, removing, victim, leaving, mishaps>>
      /\ at[t] = "scan-save_uid"
  BY DEF ScanSaveUid, slots, removal
<1>2. CASE Refuse(t)
  BY <1>1, <1>2, EndKeeps DEF Refuse, Release, Released, SessionsInv, TypeOK
<1>3. CASE /\ at' = [at EXCEPT ![t] = "scan-uid"]
           /\ UNCHANGED <<slot, account, held, stale, live, id>>
  <2>1. /\ at'[t] = "scan-uid"
        /\ \A v \in Verifier \ {t} : at'[v] = at[v]
    BY <1>3 DEF SessionsInv, TypeOK
  <2>2. TypeOK'
    BY <1>1, <1>3 DEF SessionsInv, TypeOK, Loaded
  <2>3. VerifiersHold'
    BY <1>1, <1>3, <2>1 DEF SessionsInv, VerifiersHold, Loaded
  <2>4. ClosersClose'
    BY <1>1, <2>1 DEF SessionsInv, ClosersClose
  <2>5. OneVerifier'
    BY <1>1, <1>3, <2>1 DEF SessionsInv, OneVerifier, Without
  <2>6. UidWaits'
    BY <1>1, <1>3, <2>1 DEF SessionsInv, UidWaits, Without
  <2>7. AccountAlone'
    BY <1>1, <1>3, <2>1 DEF SessionsInv, AccountAlone, Without
  <2>8. Keys'
    BY <1>1, <1>3, <2>1 DEF SessionsInv, Keys
  <2>9. UsersLive'
    <3>1. \A r \in Slot : Filling(r) => Filling(r)'
      BY <1>1, <1>3, <2>1 DEF Filling
    <3> QED BY <1>1, <1>3, <3>1 DEF SessionsInv, UsersLive, Settled
  <2> QED BY <1>1, <1>3, <2>2, <2>3, <2>4, <2>5, <2>6, <2>7, <2>8, <2>9, Frame
          DEF SessionsInv
<1> QED BY <1>2, <1>3 DEF ScanSaveUid, GoTo

LEMMA ScanUidKeeps ==
  ASSUME SessionsInv, NEW t \in Verifier, ScanUid(t), UNCHANGED fault
  PROVE  SessionsInv'
<1> DEFINE u == account[t]
<1> USE SessionsAssumption
<1>1. /\ UNCHANGED <<closing, uid, user, tmp, leaving>>
      /\ at[t] = "scan-uid"
  BY DEF ScanUid, slots
<1>2. /\ u \in Account
      /\ removing[t] = "no"
  BY <1>1 DEF SessionsInv, TypeOK, VerifiersHold, ClosersClose, Loaded, Closer
<1> HIDE DEF u
<1>3. CASE Refuse(t) /\ UNCHANGED <<removing, victim, mishaps>>
  BY <1>1, <1>3, EndKeeps DEF Refuse, Release, Released, SessionsInv, TypeOK
<1>4. ASSUME UNCHANGED <<slot, account, held, stale, live, id>>,
             mishaps \subseteq mishaps',
             \/ /\ at' = [at EXCEPT ![t] = "load"]
                /\ UNCHANGED <<removing, victim>>
             \/ \E s \in Slot :
                  /\ at' = [at EXCEPT ![t] = "kick"]
                  /\ BeginRemove(t, s)
                  /\ s \notin closing
                  /\ \A d \in Closer : removing[d] # "no" /\ victim[d] = s =>
                       "two-closers" \in mishaps'
                  /\ Without({"same-account", "passed-over"})' =>
                       \A r \in Slot : uid[r] = u => r \in closing \/ r = s,
             Without({"same-account", "passed-over"})' =>
               /\ \A v \in Verifier : account[v] = u => at[v] \notin {"kick", "load"}
               /\ at'[t] = "load" => \A r \in Slot : uid[r] = u => r \in closing
      PROVE  SessionsInv'
  <2>1. /\ at'[t] \in {"kick", "load"}
        /\ \A v \in Verifier \ {t} : at'[v] = at[v]
    BY <1>4 DEF SessionsInv, TypeOK
  <2>2. \A c \in Closer \ {t} : removing'[c] = removing[c] /\ victim'[c] = victim[c]
    BY <1>4 DEF SessionsInv, TypeOK, BeginRemove
  <2>3. at'[t] = "load" => removing'[t] = "no"
    BY <1>2, <1>4, <2>1 DEF SessionsInv, TypeOK
  <2>4. at'[t] = "kick" =>
          /\ removing'[t] = "close" /\ victim'[t] \in Slot /\ victim'[t] \notin closing
          /\ \A d \in Closer : removing[d] # "no" /\ victim[d] = victim'[t] =>
               "two-closers" \in mishaps'
          /\ Without({"same-account", "passed-over"})' =>
               \A r \in Slot : uid[r] = u => r \in closing \/ r = victim'[t]
    BY <1>4, <2>1 DEF SessionsInv, TypeOK, BeginRemove, Closer
  <2>5. TypeOK'
    <3>1. at' \in [Verifier -> Loaded \cup {"idle", "check"}]
      BY <1>4 DEF SessionsInv, TypeOK, Loaded
    <3>2. /\ removing' \in [Closer -> {"no", "close", "clear"}]
          /\ victim' \in [Closer -> Slot \cup {None}]
      <4>1. CASE UNCHANGED <<removing, victim>>
        BY <4>1 DEF SessionsInv, TypeOK
      <4>2. ASSUME NEW s \in Slot, BeginRemove(t, s)
            PROVE  /\ removing' \in [Closer -> {"no", "close", "clear"}]
                   /\ victim' \in [Closer -> Slot \cup {None}]
        BY <4>2 DEF SessionsInv, TypeOK, BeginRemove
      <4> QED BY <1>4, <4>1, <4>2
    <3> QED BY <1>1, <1>4, <3>1, <3>2 DEF SessionsInv, TypeOK
  <2>6. VerifiersHold'
    BY <1>1, <1>4, <2>1 DEF SessionsInv, VerifiersHold, Loaded
  <2>7. ClosersClose'
    <3>1. \A c \in Closer : removing'[c] # "no" => victim'[c] \in Slot
      BY <2>1, <2>2, <2>3, <2>4 DEF SessionsInv, ClosersClose
    <3>2. \A v \in Verifier : removing'[v] # "no" <=> at'[v] = "kick"
      BY <2>1, <2>2, <2>3, <2>4 DEF SessionsInv, ClosersClose, Closer
    <3> QED BY <3>1, <3>2 DEF ClosersClose
  <2>8. OneVerifier'
    BY <1>1, <1>4, <2>1 DEF SessionsInv, OneVerifier, Without
  <2>9. UidWaits'
    BY <1>1, <1>4, <2>1 DEF SessionsInv, UidWaits, Without
  <2>10. AccountAlone'
    <3> SUFFICES ASSUME Without({"same-account", "passed-over"})'
                 PROVE  AccountAlone'
      BY DEF AccountAlone
    <3>1. Without({"same-account", "passed-over"})
      BY <1>4 DEF Without
    <3>2. \A v, w \in Verifier :
            at'[v] \in {"kick", "load"} /\ at'[w] \in {"kick", "load"}
              /\ account[v] = account[w] => v = w
      <4> SUFFICES ASSUME NEW v \in Verifier, NEW w \in Verifier,
                          at'[v] \in {"kick", "load"}, at'[w] \in {"kick", "load"},
                          account[v] = account[w], v # w
                   PROVE  FALSE
        OBVIOUS
      <4>1. CASE v = t \/ w = t
        BY <1>4, <2>1, <4>1 DEF u
      <4>2. CASE v # t /\ w # t
        BY <2>1, <3>1, <4>2 DEF SessionsInv, AccountAlone
      <4> QED BY <4>1, <4>2
    <3>3. \A v \in Verifier, r \in Slot : uid[r] = account[v] =>
            /\ at'[v] = "kick" => r \in closing \/ r = victim'[v]
            /\ at'[v] = "load" => r \in closing
      <4> SUFFICES ASSUME NEW v \in Verifier, NEW r \in Slot, uid[r] = account[v]
                   PROVE  /\ at'[v] = "kick" => r \in closing \/ r = victim'[v]
                          /\ at'[v] = "load" => r \in closing
        OBVIOUS
      <4>1. CASE v = t
        BY <1>4, <2>4, <4>1 DEF u
      <4>2. CASE v # t
        BY <2>1, <2>2, <3>1, <4>2 DEF SessionsInv, AccountAlone, Closer
      <4> QED BY <4>1, <4>2
    <3> QED BY <1>1, <1>4, <3>2, <3>3 DEF AccountAlone
  <2>11. OneCloser'
    <3> SUFFICES ASSUME Without({"two-closers"})'
                 PROVE  OneCloser'
      BY DEF OneCloser
    <3>1. Without({"two-closers"}) /\ (Without({"late"})' => Without({"late"}))
      BY <1>4 DEF Without
    <3>2. at'[t] = "kick" => \A d \in Closer : removing[d] # "no" => victim[d] # victim'[t]
      BY <2>4 DEF Without
    <3>3. \A c, d \in Closer :
            removing'[c] # "no" /\ removing'[d] # "no" /\ victim'[c] = victim'[d] => c = d
      <4> SUFFICES ASSUME NEW c \in Closer, NEW d \in Closer, c # d,
                          removing'[c] # "no", removing'[d] # "no", victim'[c] = victim'[d]
                   PROVE  FALSE
        OBVIOUS
      <4>1. ASSUME NEW e \in Closer, e # t, removing'[e] # "no", removing'[t] # "no",
                   victim'[e] = victim'[t]
            PROVE  FALSE
        BY <2>1, <2>2, <2>3, <3>2, <4>1
      <4>2. CASE c # t /\ d # t
        BY <2>2, <3>1, <4>2 DEF SessionsInv, OneCloser
      <4>3. CASE c = t
        BY <4>1, <4>3
      <4>4. CASE d = t
        BY <4>1, <4>4
      <4> QED BY <4>2, <4>3, <4>4
    <3>4. ASSUME NEW c \in Closer
          PROVE  /\ removing'[c] = "close" => victim'[c] \notin closing
                 /\ removing'[c] = "clear" => victim'[c] \in closing
                 /\ removing'[c] = "clear" /\ Without({"late"})' =>
                      user[victim'[c]] \notin live \ leaving
      <4>1. CASE c = t
        BY <2>1, <2>3, <2>4, <4>1
      <4>2. CASE c # t
        BY <2>2, <3>1, <4>2 DEF SessionsInv, OneCloser
      <4> QED BY <4>1, <4>2
    <3> QED BY <1>1, <1>4, <3>3, <3>4 DEF OneCloser
  <2>12. Keys'
    BY <1>1, <1>4, <2>1 DEF SessionsInv, Keys
  <2>13. UsersLive'
    <3>1. \A r \in Slot : Filling(r) => Filling(r)'
      BY <1>1, <1>4, <2>1 DEF Filling
    <3> QED BY <1>1, <1>4, <3>1 DEF SessionsInv, UsersLive, Settled
  <2> QED BY <1>1, <1>4, <2>5, <2>6, <2>7, <2>8, <2>9, <2>10, <2>11, <2>12, <2>13, Frame
          DEF SessionsInv
<1>5. SameAccount(u) \subseteq mishaps' =>
        (Without({"same-account", "passed-over"})' =>
           \A v \in Verifier : account[v] = u => at[v] \notin {"kick", "load"})
  BY DEF SameAccount, Met, Without
<1>6. CASE /\ Online(u) = {}
           /\ GoTo(t, "load")
           /\ mishaps' = mishaps \cup SameAccount(u)
           /\ UNCHANGED <<slot, account, held, stale, removal, live, id>>
  <2>1. \A r \in Slot : uid[r] # u
    BY <1>6 DEF Online
  <2> QED BY <1>4, <1>5, <1>6, <2>1 DEF GoTo, removal
<1>7. ASSUME NEW s \in Online(u),
             Kickable(s), Removable(s),
             GoTo(t, "kick"),
             BeginRemove(t, s),
             mishaps' = mishaps \cup SameAccount(u) \cup TwoClosers(t, s),
             UNCHANGED <<slot, account, held, stale, live, id>>
      PROVE  SessionsInv'
  <2>1. s \in Slot /\ uid[s] = u /\ s \notin closing
    BY <1>7 DEF Online, Removable
  <2>2. at' = [at EXCEPT ![t] = "kick"] /\ at'[t] = "kick"
    BY <1>7 DEF GoTo, SessionsInv, TypeOK
  <2>3. ASSUME NEW d \in Closer, removing[d] # "no", victim[d] = s
        PROVE  "two-closers" \in mishaps'
    <3>1. CASE removing[d] = "close"
      <4>1. d # t
        BY <1>2, <2>3
      <4>2. "two-closers" \in TwoClosers(t, s)
        BY <2>3, <3>1, <4>1 DEF TwoClosers, Met
      <4> QED BY <1>7, <4>2
    <3>2. CASE removing[d] = "clear"
      BY <1>7, <2>1, <2>3, <3>2 DEF SessionsInv, OneCloser, Without
    <3> QED BY <2>3, <3>1, <3>2 DEF SessionsInv, TypeOK
  <2>4. Without({"same-account", "passed-over"})' =>
          \A r \in Slot : uid[r] = u => r \in closing \/ r = s
    <3>1. mishaps \subseteq mishaps'
      BY <1>7
    <3>2. u # None
      BY <1>2
    <3> QED BY <2>1, <3>1, <3>2 DEF SessionsInv, OneLogin, TwiceOnline, Without
  <2>5. mishaps \subseteq mishaps' /\ SameAccount(u) \subseteq mishaps'
    BY <1>7
  <2> QED BY <1>4, <1>5, <1>7, <2>1, <2>2, <2>3, <2>4, <2>5
<1>8. ASSUME NEW s \in Online(u),
             GoTo(t, "load"),
             mishaps' = mishaps \cup SameAccount(u) \cup {"passed-over"},
             UNCHANGED <<slot, account, held, stale, removal, live, id>>
      PROVE  SessionsInv'
  <2>1. ~Without({"same-account", "passed-over"})'
    BY <1>8 DEF Without
  <2> QED BY <1>4, <1>8, <2>1 DEF GoTo, removal
<1> QED BY <1>3, <1>6, <1>7, <1>8 DEF ScanUid, removal, u

LEMMA LoadAndSetUidKeeps ==
  ASSUME SessionsInv, NEW t \in Verifier, LoadAndSetUid(t), UNCHANGED fault
  PROVE  SessionsInv'
<1> DEFINE s == slot[t]
           u == account[t]
<1> USE SessionsAssumption
<1>1. /\ UNCHANGED <<closing, user, tmp, slot, account, held, stale, removing, victim, live,
                     id, leaving>>
      /\ at[t] = "load"
      /\ uid' = [uid EXCEPT ![s] = u]
      /\ at' = [at EXCEPT ![t] = "set-user"]
      /\ mishaps \subseteq mishaps'
      /\ t \in stale => "late" \in mishaps'
  BY DEF LoadAndSetUid, GoTo, Late, Met, removal, users
<1>2. s \in Slot /\ u \in Account
  BY <1>1 DEF SessionsInv, VerifiersHold, Loaded
<1>3. /\ at'[t] = "set-user"
      /\ \A v \in Verifier \ {t} : at'[v] = at[v]
  BY <1>1 DEF SessionsInv, TypeOK
<1>4. /\ uid'[s] = u
      /\ \A r \in Slot \ {s} : uid'[r] = uid[r]
  BY <1>1, <1>2 DEF SessionsInv, TypeOK
<1>5. TypeOK'
  BY <1>1, <1>2 DEF SessionsInv, TypeOK, Loaded
<1>6. VerifiersHold'
  BY <1>1, <1>3 DEF SessionsInv, VerifiersHold, Loaded
<1>7. ClosersClose'
  BY <1>1, <1>3 DEF SessionsInv, ClosersClose
<1>8. OneVerifier'
  BY <1>1, <1>3 DEF SessionsInv, OneVerifier, Without
<1>9. UidWaits'
  <2> SUFFICES ASSUME Without({"same-slot", "late"}),
                      NEW v \in Verifier, at'[v] = "set-user"
               PROVE  uid'[slot[v]] = account[v] \/ v \in stale
    BY <1>1 DEF UidWaits, Without
  <2>1. CASE v = t
    BY <1>4, <2>1
  <2>2. CASE v # t
    <3>1. at[v] = "set-user"
      BY <1>3, <2>2
    <3>2. slot[v] # s /\ slot[v] \in Slot
      BY <1>1, <2>2, <3>1 DEF SessionsInv, OneVerifier, VerifiersHold, Without
    <3> QED BY <1>4, <3>1, <3>2 DEF SessionsInv, UidWaits
  <2> QED BY <2>1, <2>2
<1>10. AccountAlone'
  <2> SUFFICES ASSUME Without({"same-account", "passed-over"})
               PROVE  AccountAlone'
    BY <1>1 DEF AccountAlone, Without
  <2>1. \A v \in Verifier : at'[v] \in {"kick", "load"} => v # t /\ at'[v] = at[v]
    BY <1>3
  <2>2. \A v \in Verifier : at'[v] \in {"kick", "load"} => account[v] # u
    BY <1>1, <2>1 DEF SessionsInv, AccountAlone
  <2>3. \A v \in Verifier, r \in Slot :
          at'[v] \in {"kick", "load"} /\ uid'[r] = account[v] => uid[r] = account[v]
    BY <1>4, <2>2
  <2>4. \A v, w \in Verifier :
          at'[v] \in {"kick", "load"} /\ at'[w] \in {"kick", "load"}
            /\ account[v] = account[w] => v = w
    BY <2>1 DEF SessionsInv, AccountAlone
  <2>5. \A v \in Verifier, r \in Slot : uid'[r] = account[v] =>
          /\ at'[v] = "kick" => r \in closing \/ r = victim[v]
          /\ at'[v] = "load" => r \in closing
    BY <2>1, <2>3 DEF SessionsInv, AccountAlone
  <2> QED BY <1>1, <2>4, <2>5 DEF AccountAlone
<1>11. Keys'
  BY <1>1, <1>3 DEF SessionsInv, Keys
<1>12. UsersLive'
  <2> SUFFICES ASSUME NEW r \in Slot, Settled(r)
               PROVE  /\ user[r] \in live \ leaving \/ "copy" \in mishaps'
                      /\ \/ id[user[r]] = uid'[r]
                         \/ Filling(r)'
                         \/ mishaps' \cap {"same-slot", "late"} # {}
    BY <1>1 DEF UsersLive, Settled
  <2>1. CASE r = s
    <3>1. Filling(r)'
      BY <1>1, <1>3, <2>1 DEF Filling
    <3> QED BY <1>1, <3>1 DEF SessionsInv, UsersLive
  <2>2. CASE r # s
    <3>1. Filling(r) => Filling(r)'
      BY <1>1, <1>3 DEF Filling
    <3> QED BY <1>1, <1>4, <2>2, <3>1 DEF SessionsInv, UsersLive
  <2> QED BY <2>1, <2>2
<1>13. OneLogin'
  <2> SUFFICES ASSUME TwiceOnline', Without({"same-account", "passed-over"})
               PROVE  FALSE
    BY <1>1 DEF OneLogin, Without
  <2>1. PICK q \in Slot \ closing, r \in Slot \ closing :
          q # r /\ uid'[q] # None /\ uid'[q] = uid'[r]
    BY <1>1 DEF TwiceOnline
  <2>2. \A p \in Slot \ closing : uid[p] # u
    BY <1>1 DEF SessionsInv, AccountAlone
  <2>3. CASE q # s /\ r # s
    BY <1>4, <2>1, <2>3 DEF SessionsInv, OneLogin, TwiceOnline, Without
  <2>4. CASE q = s \/ r = s
    BY <1>4, <2>1, <2>2, <2>4
  <2> QED BY <2>3, <2>4
<1> QED BY <1>1, <1>5, <1>6, <1>7, <1>8, <1>9, <1>10, <1>11, <1>12, <1>13, Frame
        DEF SessionsInv

LEMMA SetUserKeeps ==
  ASSUME SessionsInv, NEW t \in Verifier, SetUser(t), UNCHANGED fault
  PROVE  SessionsInv'
<1> DEFINE s == slot[t]
           o == held[t]
<1> USE SessionsAssumption
<1>1. /\ UNCHANGED <<closing, uid, tmp, removing, victim, live, id, leaving>>
      /\ at[t] = "set-user"
      /\ user' = [user EXCEPT ![s] = o]
      /\ at' = [at EXCEPT ![t] = "idle"]
      /\ slot' = [slot EXCEPT ![t] = None]
      /\ account' = [account EXCEPT ![t] = None]
      /\ held' = [held EXCEPT ![t] = None]
      /\ stale' = stale \ {t}
      /\ mishaps \subseteq mishaps'
      /\ t \in stale \/ s \in closing => "late" \in mishaps'
      /\ user[s] # None => "again" \in mishaps'
  BY DEF SetUser, Finish, GoTo, Late, Met, removal, users
<1>2. /\ s \in Slot /\ o \in live \ leaving /\ o # None
      /\ account[t] \in Account /\ id[o] = account[t]
  BY <1>1 DEF SessionsInv, TypeOK, VerifiersHold, Loaded
<1>3. /\ at'[t] = "idle" /\ held'[t] = None
      /\ \A v \in Verifier \ {t} :
           /\ at'[v] = at[v] /\ slot'[v] = slot[v] /\ account'[v] = account[v]
           /\ held'[v] = held[v] /\ (v \in stale' <=> v \in stale)
  BY <1>1 DEF SessionsInv, TypeOK
<1>4. /\ user'[s] = o
      /\ \A r \in Slot \ {s} : user'[r] = user[r]
  BY <1>1, <1>2 DEF SessionsInv, TypeOK
<1>5. TypeOK'
  BY <1>1, <1>2 DEF SessionsInv, TypeOK, Loaded
<1>6. VerifiersHold'
  BY <1>1, <1>3 DEF SessionsInv, VerifiersHold, Loaded
<1>7. ClosersClose'
  BY <1>1, <1>3 DEF SessionsInv, ClosersClose
<1>8. OneOwner'
  <2>1. \A r \in Slot : user'[r] # None => id[user'[r]] # None
    <3> SUFFICES ASSUME NEW r \in Slot, user'[r] # None
                 PROVE  id[user'[r]] # None
      OBVIOUS
    <3>1. CASE r = s
      BY <1>2, <1>4, <3>1
    <3>2. CASE r # s
      BY <1>4, <3>2 DEF SessionsInv, OneOwner
    <3> QED BY <3>1, <3>2
  <2>2. \A r, q \in Slot : user'[r] # None /\ user'[r] = user'[q] => r = q
    <3> SUFFICES ASSUME NEW r \in Slot, NEW q \in Slot, user'[r] # None, user'[r] = user'[q]
                 PROVE  r = q
      OBVIOUS
    <3>1. \A p \in Slot : user[p] # o
      BY <1>2 DEF SessionsInv, OneOwner
    <3>2. CASE r = s \/ q = s
      BY <1>4, <3>1, <3>2
    <3>3. CASE r # s /\ q # s
      BY <1>4, <3>3 DEF SessionsInv, OneOwner
    <3> QED BY <3>2, <3>3
  <2>3. \A v \in Verifier : held'[v] # None => v # t /\ held'[v] = held[v]
    BY <1>3
  <2>4. \A v \in Verifier, r \in Slot : held'[v] # None => held'[v] # user'[r]
    <3> SUFFICES ASSUME NEW v \in Verifier, NEW r \in Slot, held'[v] # None
                 PROVE  held'[v] # user'[r]
      OBVIOUS
    <3>1. CASE r = s
      BY <1>2, <1>4, <2>3, <3>1 DEF SessionsInv, OneOwner
    <3>2. CASE r # s
      BY <1>4, <2>3, <3>2 DEF SessionsInv, OneOwner
    <3> QED BY <3>1, <3>2
  <2>5. \A v, w \in Verifier : held'[v] # None /\ held'[v] = held'[w] => v = w
    BY <2>3 DEF SessionsInv, OneOwner
  <2>6. \A p \in live' \cup leaving' : id'[p] # None
    BY <1>1 DEF SessionsInv, OneOwner
  <2> QED BY <1>1, <2>1, <2>2, <2>4, <2>5, <2>6 DEF OneOwner
<1>9. OneVerifier'
  <2>1. \A v \in Verifier : at'[v] # "idle" => at[v] # "idle" /\ slot'[v] = slot[v]
    BY <1>3
  <2> QED BY <1>1, <2>1 DEF SessionsInv, OneVerifier, Without
<1>10. UidWaits'
  BY <1>1, <1>3 DEF SessionsInv, UidWaits, Without
<1>11. AccountAlone'
  <2>1. \A v \in Verifier : at'[v] \in {"kick", "load"} =>
          at'[v] = at[v] /\ account'[v] = account[v]
    BY <1>3
  <2> QED BY <1>1, <2>1 DEF SessionsInv, AccountAlone, Without
<1>12. OneCloser'
  <2> SUFFICES ASSUME Without({"two-closers"})
               PROVE  OneCloser'
    BY <1>1 DEF OneCloser, Without
  <2>1. \A c, d \in Closer :
          removing[c] # "no" /\ removing[d] # "no" /\ victim[c] = victim[d] => c = d
    BY DEF SessionsInv, OneCloser
  <2>2. ASSUME NEW c \in Closer
        PROVE  /\ removing[c] = "close" => victim[c] \notin closing
               /\ removing[c] = "clear" => victim[c] \in closing
               /\ removing[c] = "clear" /\ Without({"late"}) =>
                    user[victim[c]] \notin live \ leaving
    BY DEF SessionsInv, OneCloser
  <2>3. ASSUME NEW c \in Closer, removing[c] = "clear", Without({"late"})'
        PROVE  user'[victim[c]] \notin live \ leaving
    <3>1. Without({"late"}) /\ s \notin closing
      BY <1>1, <2>3 DEF Without
    <3>2. victim[c] \in Slot \ {s}
      BY <2>2, <2>3, <3>1 DEF SessionsInv, ClosersClose
    <3> QED BY <1>4, <2>2, <2>3, <3>1, <3>2
  <2> QED BY <1>1, <2>1, <2>2, <2>3 DEF OneCloser
<1>13. Keys'
  BY <1>1, <1>3 DEF SessionsInv, Keys
<1>14. UsersLive'
  <2> SUFFICES ASSUME NEW r \in Slot, Settled(r)'
               PROVE  /\ user'[r] \in live \ leaving \/ "copy" \in mishaps'
                      /\ \/ id[user'[r]] = uid[r]
                         \/ Filling(r)'
                         \/ mishaps' \cap {"same-slot", "late"} # {}
    BY <1>1 DEF UsersLive
  <2>1. CASE r = s
    <3>1. uid[s] = account[t] \/ mishaps' \cap {"same-slot", "late"} # {}
      BY <1>1 DEF SessionsInv, UidWaits, Without
    <3> QED BY <1>2, <1>4, <2>1, <3>1
  <2>2. CASE r # s
    <3>1. Settled(r) /\ user'[r] = user[r]
      BY <1>1, <1>4, <2>2 DEF Settled
    <3>2. Filling(r) => Filling(r)'
      BY <1>1, <1>3, <2>2 DEF Filling
    <3> QED BY <1>1, <3>1, <3>2 DEF SessionsInv, UsersLive
  <2> QED BY <2>1, <2>2
<1>15. OneLogin'
  BY <1>1 DEF SessionsInv, OneLogin, TwiceOnline
<1>16. SavedOnce'
  <2>1. SUFFICES ASSUME Without({"late", "again", "two-closers"})', NEW p \in live
                 PROVE  Kept(p)'
    BY <1>1 DEF SessionsInv, SavedOnce, Without
  <2>2. Kept(p) /\ user[s] = None /\ p # None
    BY <1>1, <2>1 DEF SessionsInv, SavedOnce, Without, TypeOK
  <2>3. CASE p = o
    BY <1>2, <1>4, <2>3 DEF Kept
  <2>4. ASSUME NEW v \in Verifier, held[v] = p, p # o PROVE Kept(p)'
    BY <1>3, <2>4 DEF Kept
  <2>5. ASSUME NEW r \in Slot, user[r] = p PROVE Kept(p)'
    BY <1>4, <2>2, <2>5 DEF Kept
  <2>6. CASE p \in leaving
    BY <1>1, <2>6 DEF Kept
  <2> QED BY <2>2, <2>3, <2>4, <2>5, <2>6 DEF Kept
<1> QED BY <1>5, <1>6, <1>7, <1>8, <1>9, <1>10, <1>11, <1>12, <1>13, <1>14, <1>15, <1>16
        DEF SessionsInv

----------------------------------------------------------------------------
(* A userLeave thread, and all together.                                   *)

LEMMA UserLeaveKeeps ==
  ASSUME SessionsInv, NEW o \in User, UserLeave(o), UNCHANGED fault
  PROVE  SessionsInv'
<1> USE SessionsAssumption
<1>1. /\ UNCHANGED <<closing, uid, user, tmp, at, slot, account, held, stale, removing,
                     victim, id, mishaps>>
      /\ o \in leaving
      /\ leaving' = leaving \ {o}
      /\ live' = live \ {o}
  BY DEF UserLeave, Release, Released, slots, verifiers, removal
<1>2. live' \ leaving' = live \ leaving
  BY <1>1
<1>3. TypeOK'
  BY <1>1 DEF SessionsInv, TypeOK
<1>4. VerifiersHold'
  BY <1>1, <1>2 DEF SessionsInv, VerifiersHold
<1>5. OneOwner'
  BY <1>1 DEF SessionsInv, OneOwner
<1>6. OneCloser'
  BY <1>1, <1>2 DEF SessionsInv, OneCloser, Without
<1>7. UsersLive'
  <2>1. \A r \in Slot : Filling(r)' <=> Filling(r)
    BY <1>1 DEF Filling
  <2> QED BY <1>1, <1>2, <2>1 DEF SessionsInv, UsersLive, Settled
<1>8. SavedOnce'
  BY <1>1 DEF SessionsInv, SavedOnce, Kept
<1> QED BY <1>1, <1>3, <1>4, <1>5, <1>6, <1>7, <1>8, Frame DEF SessionsInv

LEMMA SessionsStep == SessionsInv /\ [Next]_vars => SessionsInv'
<1> SUFFICES ASSUME SessionsInv, [Next]_vars
             PROVE  SessionsInv'
  OBVIOUS
<1>1. CASE Select
  <2>1. "select" \in Closer
    BY DEF Closer
  <2> QED
    BY <1>1, <2>1, ConnectKeeps, DisconnectKeeps, VerifyAccountKeeps, ClearMessageKeeps,
       ClearSlotKeeps, KickUserKeeps, CloseSlotKeeps
       DEF Select
<1>2. ASSUME NEW t \in Verifier, VerifyThread(t)
      PROVE  SessionsInv'
  <2>1. t \in Closer
    BY DEF Closer
  <2> QED
    BY <1>2, <2>1, CheckSignKeyKeeps, ScanSaveUidKeeps, ScanUidKeeps, ClearSlotKeeps,
       LoadAndSetUidKeeps, SetUserKeeps, CloseSlotKeeps, ReadNullKeeps
       DEF VerifyThread
<1>3. ASSUME NEW o \in User, LeaveThread(o)
      PROVE  SessionsInv'
  BY <1>3, UserLeaveKeeps DEF LeaveThread
<1>4. CASE UNCHANGED vars
  <2>1. TypeOK'
    BY <1>4 DEF SessionsInv, TypeOK, vars, slots, verifiers, removal, users
  <2> QED BY <1>4, <2>1, Frame DEF SessionsInv, vars, slots, verifiers, removal, users
<1> QED BY <1>1, <1>2, <1>3, <1>4 DEF Next

(* The inductive invariant holds.                                          *)
THEOREM SessionsSafe == Spec => []SessionsInv
BY SessionsInit, SessionsStep, PTL DEF Spec

(* The types, for every instance.                                          *)
THEOREM SessionsTyped == Spec => []TypeOK
<1>1. SessionsInv => TypeOK BY DEF SessionsInv
<1> QED BY <1>1, SessionsSafe, PTL

(* thread.hpp:121: a User is saved and freed once, and none gets lost, but   *)
(* for the orders SavedOnce names.                                         *)
THEOREM EveryUserSavedOnce == Spec => []SavedOnce
<1>1. SessionsInv => SavedOnce BY DEF SessionsInv
<1> QED BY <1>1, SessionsSafe, PTL

(* What a slot shows is a User that nobody frees, and of its account.      *)
THEOREM SlotsShowLiveUsers == Spec => []UsersLive
<1>1. SessionsInv => UsersLive BY DEF SessionsInv
<1> QED BY <1>1, SessionsSafe, PTL

(* An account is online twice only after two verifiers have passed the scan *)
(* together, or one has met it on a slot being closed: any number of them,  *)
(* on any number of slots.                                                  *)
THEOREM TwiceOnlineNeedsRace == Spec => []OneLogin
<1>1. SessionsInv => OneLogin BY DEF SessionsInv
<1> QED BY <1>1, SessionsSafe, PTL

(* A verifier that is about to read its key does nothing else first, and    *)
(* nobody moves it.                                                        *)
LEMMA OnlyReadLeavesCheck ==
  ASSUME SessionsInv, Next, NEW t \in Verifier, at[t] = "check", at'[t] # "check"
  PROVE  Read(t)
<1> USE SessionsAssumption
<1>1. \A v \in Verifier : \A place : at' = [at EXCEPT ![v] = place] => v = t
  BY DEF SessionsInv, TypeOK
<1>2. at' # at
  OBVIOUS
<1>3. ASSUME NEW c \in Closer, ClearSlot(c) PROVE FALSE
  <2>1. c \in Verifier => at[c] = "kick"
    BY <1>3 DEF ClearSlot, SessionsInv, ClosersClose
  <2> QED BY <1>1, <1>2, <1>3, <2>1 DEF ClearSlot, Resumed, Closer
<1>4. ASSUME NEW c \in Closer, CloseSlot(c) PROVE FALSE
  BY <1>2, <1>4 DEF CloseSlot, verifiers
<1>5. CASE Select
  <2>1. ASSUME NEW v \in Verifier, NEW s \in Slot, NEW k \in BOOLEAN, VerifyAccount(v, s, k)
        PROVE  FALSE
    BY <1>1, <2>1 DEF VerifyAccount, GoTo
  <2>2. ASSUME NEW s \in Slot, Connect(s) \/ Disconnect(s) \/ KickUser(s)
        PROVE  FALSE
    BY <1>2, <2>2 DEF Connect, Disconnect, KickUser, verifiers
  <2>3. ASSUME ClearMessage PROVE FALSE
    BY <1>2, <2>3 DEF ClearMessage, verifiers
  <2> QED BY <1>3, <1>4, <1>5, <2>1, <2>2, <2>3 DEF Select, Closer
<1>6. ASSUME NEW v \in Verifier, VerifyThread(v) PROVE Read(t)
  <2>1. CASE ScanSaveUid(v) \/ ScanUid(v) \/ LoadAndSetUid(v) \/ SetUser(v)
    BY <1>1, <2>1 DEF ScanSaveUid, ScanUid, LoadAndSetUid, SetUser, Refuse, Finish, GoTo
  <2>2. CASE CheckSignKey(v)
    BY <1>1, <2>2 DEF CheckSignKey, Finish, GoTo
  <2>3. CASE ReadNull(v)
    BY <1>2, <2>3 DEF ReadNull, verifiers
  <2> QED BY <1>3, <1>4, <1>6, <2>1, <2>2, <2>3 DEF VerifyThread, Closer
<1>7. ASSUME NEW o \in User, LeaveThread(o) PROVE FALSE
  BY <1>2, <1>7 DEF LeaveThread, UserLeave, verifiers
<1> QED BY <1>5, <1>6, <1>7 DEF Next

(* A verifier reads the key of its own message, but for the orders KeyIsOwn *)
(* names.                                                                  *)
THEOREM OwnKeyRead == Spec => KeyIsOwn
<1> USE SessionsAssumption
<1>1. ASSUME SessionsInv, [Next]_vars
      PROVE  [/\ fault' = "no-key" => Confused'
              /\ \A t \in Verifier :
                   at[t] = "check" /\ at'[t] # "check" => tmp[t] = "own" \/ Confused']_vars
  <2> SUFFICES ASSUME Next
               PROVE  /\ fault' = "no-key" => Confused'
                      /\ \A t \in Verifier :
                           at[t] = "check" /\ at'[t] # "check" => tmp[t] = "own" \/ Confused'
    BY <1>1
  <2>1. \A v \in Verifier : Read(v) => tmp[v] = "own" \/ Confused'
    <3> SUFFICES ASSUME NEW v \in Verifier, Read(v), tmp[v] # "own"
                 PROVE  Confused'
      OBVIOUS
    <3>1. CASE tmp[v] = "freed"
      BY <3>1 DEF Read, Met, Confused
    <3>2. CASE tmp[v] = "other"
      BY <1>1, <3>2 DEF Read, SessionsInv, Keys, Confused
    <3>3. CASE tmp[v] = None
      BY <1>1, <3>3 DEF Read, Met, SessionsInv, Keys, Confused
    <3> QED BY <1>1, <3>1, <3>2, <3>3 DEF SessionsInv, TypeOK
  <2>2. fault' = "no-key" => Confused'
    <3>1. ASSUME NEW v \in Verifier, ReadNull(v) PROVE Confused'
      BY <2>1, <3>1 DEF ReadNull
    <3>2. ASSUME NEW c \in Closer, CloseSlot(c), fault = "none" PROVE fault' # "no-key"
      BY <3>2 DEF CloseSlot, StartLeave
    <3>3. ASSUME NEW s \in Slot, KickUser(s), fault = "none" PROVE fault' # "no-key"
      BY <3>3 DEF KickUser, StartLeave
    <3> QED BY <3>1, <3>2, <3>3 DEF Next, Select, VerifyThread, LeaveThread, Closer
  <2>3. \A t \in Verifier : at[t] = "check" /\ at'[t] # "check" => Read(t)
    BY <1>1, OnlyReadLeavesCheck
  <2> QED BY <2>1, <2>2, <2>3
<1> QED BY <1>1, SessionsSafe, PTL DEF Spec, KeyIsOwn
=============================================================================
