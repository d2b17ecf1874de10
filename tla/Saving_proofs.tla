---------------------------- MODULE Saving_proofs ----------------------------
(***************************************************************************)
(* What Saving promises, for any Users, plays and deposits: the log explains *)
(* the balance, whoever is freed has been saved, and no coin and no kill is  *)
(* lost.  It begins with sums over finite sets.                             *)
(***************************************************************************)
EXTENDS Saving, FiniteSetTheorems, WellFoundedInduction, TLAPS

(* Sums, of which the library has no theorems.                             *)

(* What holds for a set as soon as it holds for its proper subsets holds for *)
(* every subset of a finite set; P is the set of those it holds for.        *)
LEMMA SubsetInduction ==
  ASSUME NEW I, IsFiniteSet(I), NEW P,
         \A s \in SUBSET I : (\A t \in SUBSET s : t # s => t \in P) => s \in P
  PROVE  \A s \in SUBSET I : s \in P
<1> DEFINE Bad == {s \in SUBSET I : s \notin P}
           R == StrictSubsetOrdering(I)
<1> SUFFICES ASSUME Bad # {} PROVE FALSE
  OBVIOUS
<1>1. Bad \subseteq FiniteSubsetsOf(I)
  BY FS_Subset DEF FiniteSubsetsOf
<1>2. PICK s \in Bad : \A t \in Bad : <<t, s>> \notin R
  <2> HIDE DEF R, Bad
  <2> QED BY <1>1, FS_StrictSubsetOrderingWellFounded, WFMin DEF R
<1>3. \A t \in SUBSET s : t # s => t \in P
  <2> TAKE t \in SUBSET s
  <2> SUFFICES ASSUME t # s, t \notin P PROVE FALSE
    OBVIOUS
  <2>1. t \in Bad
    BY <1>2
  <2>2. <<t, s>> \in R
    BY <1>2, <2>1 DEF StrictSubsetOrdering
  <2> QED BY <1>2, <2>1, <2>2
<1> QED BY <1>2, <1>3

(* A partial sum by set: what SumFunctionOnSet is the value of at I.         *)
Pick(s) == CHOOSE x \in s : TRUE
Sums(f, I, sum) ==
  sum = [s \in SUBSET I |-> IF s = {} THEN 0 ELSE f[Pick(s)] + sum[s \ {Pick(s)}]]

LEMMA SumIs ==
  ASSUME NEW f, NEW I
  PROVE  SumFunctionOnSet(f, I) = (CHOOSE sum : Sums(f, I, sum))[I]
BY Zenon DEF SumFunctionOnSet, FoldFunctionOnSet, MapThenFoldSet, Sums, Pick

LEMMA PickIn == ASSUME NEW s, s # {} PROVE Pick(s) \in s
BY DEF Pick

LEMMA SumsAt ==
  ASSUME NEW f, NEW I, NEW sum, Sums(f, I, sum), NEW s \in SUBSET I
  PROVE  sum[s] = IF s = {} THEN 0 ELSE f[Pick(s)] + sum[s \ {Pick(s)}]
<1>1. sum = [t \in SUBSET I |-> IF t = {} THEN 0 ELSE f[Pick(t)] + sum[t \ {Pick(t)}]]
  BY DEF Sums
<1> QED BY <1>1

(* There is one such function at most, and it does not depend on I,         *)
LEMMA SumsAgree ==
  ASSUME NEW f, NEW I, NEW J \in SUBSET I, IsFiniteSet(J), NEW a, Sums(f, I, a),
         NEW b, Sums(f, J, b)
  PROVE  \A s \in SUBSET J : a[s] = b[s]
<1> DEFINE Same == {s \in SUBSET J : a[s] = b[s]}
<1>1. ASSUME NEW s \in SUBSET J, \A t \in SUBSET s : t # s => t \in Same
      PROVE  s \in Same
  <2>1. CASE s = {}
    BY <2>1, SumsAt
  <2>2. CASE s # {}
    <3> DEFINE rest == s \ {Pick(s)}
    <3>1. rest \in SUBSET s /\ rest # s
      BY <2>2, PickIn
    <3>2. a[rest] = b[rest]
      BY <1>1, <3>1
    <3> HIDE DEF rest
    <3>3. a[s] = f[Pick(s)] + a[rest] /\ b[s] = f[Pick(s)] + b[rest]
      BY <2>2, SumsAt DEF rest
    <3> QED BY <3>2, <3>3
  <2> QED BY <2>1, <2>2
<1>2. \A s \in SUBSET J : s \in Same
  <2> HIDE DEF Same
  <2> QED BY <1>1, SubsetInduction
<1> QED BY <1>2

(* and there is one: it is put together from those of the smaller sets.     *)
LEMMA SumsExist ==
  ASSUME NEW f, NEW I, IsFiniteSet(I)
  PROVE  \E sum : Sums(f, I, sum)
<1> DEFINE Known == {t \in SUBSET I : \E sum : Sums(f, t, sum)}
           The(t) == CHOOSE sum : Sums(f, t, sum)
<1>1. ASSUME NEW t \in SUBSET I, \A u \in SUBSET t : u # t => u \in Known
      PROVE  t \in Known
  <2> DEFINE sum == [s \in SUBSET t |->
                       IF s = {} THEN 0
                       ELSE f[Pick(s)] + The(s \ {Pick(s)})[s \ {Pick(s)}]]
  <2>1. ASSUME NEW u \in SUBSET t, u # t
        PROVE  Sums(f, u, The(u)) /\ IsFiniteSet(u)
    <3>1. \E g : Sums(f, u, g)
      BY <1>1, <2>1
    <3> QED BY <3>1, FS_Subset
  <2> HIDE DEF The
  <2>2. ASSUME NEW u \in SUBSET t, u # t
        PROVE  sum[u] = The(u)[u]
    <3>1. CASE u = {}
      BY <2>1, <2>2, <3>1, SumsAt
    <3>2. CASE u # {}
      <4> DEFINE v == u \ {Pick(u)}
      <4>1. v \in SUBSET u /\ v # t
        BY <2>2, <3>2, PickIn
      <4>2. Sums(f, u, The(u)) /\ Sums(f, v, The(v)) /\ IsFiniteSet(v)
        BY <2>1, <2>2, <4>1
      <4>3. sum[u] = f[Pick(u)] + The(v)[v]
        BY <3>2
      <4> HIDE DEF v
      <4>4. The(u)[v] = The(v)[v]
        BY <4>1, <4>2, SumsAgree
      <4>5. The(u)[u] = f[Pick(u)] + The(u)[v]
        BY <3>2, <4>2, SumsAt DEF v
      <4> QED BY <4>3, <4>4, <4>5
    <3> QED BY <3>1, <3>2
  <2>3. ASSUME NEW s \in SUBSET t
        PROVE  sum[s] = IF s = {} THEN 0 ELSE f[Pick(s)] + sum[s \ {Pick(s)}]
    <3>1. CASE s = {}
      BY <3>1
    <3>2. CASE s # {}
      <4> DEFINE v == s \ {Pick(s)}
      <4>1. v \in SUBSET t /\ v # t
        BY <3>2, PickIn
      <4>2. sum[s] = f[Pick(s)] + The(v)[v]
        BY <3>2
      <4>3. sum[v] = The(v)[v]
        BY <2>2, <4>1
      <4> HIDE DEF sum
      <4> QED BY <3>2, <4>2, <4>3
    <3> QED BY <3>1, <3>2
  <2>4. Sums(f, t, sum)
    <3>1. sum = [s \in SUBSET t |-> sum[s]]
      OBVIOUS
    <3> HIDE DEF sum
    <3> QED BY <2>3, <3>1 DEF Sums
  <2> QED BY <2>4
<1>2. \A t \in SUBSET I : t \in Known
  <2> HIDE DEF Known
  <2> QED BY <1>1, SubsetInduction
<1> QED BY <1>2

(* What a sum over a finite set is made of.                                 *)
LEMMA SumSteps ==
  ASSUME NEW f, NEW I, IsFiniteSet(I)
  PROVE  /\ I = {} => SumFunctionOnSet(f, I) = 0
         /\ I # {} => SumFunctionOnSet(f, I) =
                        f[Pick(I)] + SumFunctionOnSet(f, I \ {Pick(I)})
<1> DEFINE The(t) == CHOOSE sum : Sums(f, t, sum)
           rest == I \ {Pick(I)}
<1>1. rest \in SUBSET I /\ IsFiniteSet(rest)
  BY FS_Subset
<1> HIDE DEF rest
<1>2. Sums(f, I, The(I)) /\ Sums(f, rest, The(rest))
  BY <1>1, SumsExist
<1>3. SumFunctionOnSet(f, I) = The(I)[I] /\ SumFunctionOnSet(f, rest) = The(rest)[rest]
  BY SumIs
<1> HIDE DEF The
<1>4. The(I)[rest] = The(rest)[rest]
  BY <1>1, <1>2, SumsAgree
<1>5. The(I)[I] = IF I = {} THEN 0 ELSE f[Pick(I)] + The(I)[rest]
  <2>1. \A s \in SUBSET I :
          The(I)[s] = IF s = {} THEN 0 ELSE f[Pick(s)] + The(I)[s \ {Pick(s)}]
    BY <1>2, SumsAt
  <2>2. I \in SUBSET I
    OBVIOUS
  <2> QED BY <2>1, <2>2 DEF rest
<1> QED BY <1>3, <1>4, <1>5 DEF rest

LEMMA SumType ==
  ASSUME NEW I, IsFiniteSet(I), NEW f, \A i \in I : f[i] \in Int
  PROVE  SumFunctionOnSet(f, I) \in Int
<1> DEFINE Good == {s \in SUBSET I : SumFunctionOnSet(f, s) \in Int}
<1>1. ASSUME NEW s \in SUBSET I, \A t \in SUBSET s : t # s => t \in Good
      PROVE  s \in Good
  <2>1. IsFiniteSet(s)
    BY FS_Subset
  <2>2. CASE s = {}
    <3>1. SumFunctionOnSet(f, s) = 0
      BY <2>1, <2>2, SumSteps
    <3> QED BY <3>1
  <2>3. CASE s # {}
    <3>1. Pick(s) \in s
      BY <2>3, PickIn
    <3>2. SumFunctionOnSet(f, s \ {Pick(s)}) \in Int /\ f[Pick(s)] \in Int
      BY <1>1, <3>1
    <3> QED BY <2>1, <2>3, <3>2, SumSteps
  <2> QED BY <2>2, <2>3
<1>2. \A s \in SUBSET I : s \in Good
  <2> HIDE DEF Good
  <2> QED BY <1>1, SubsetInduction
<1> QED BY <1>2

(* The order does not matter: any index may be taken out first.             *)
LEMMA SumWithout ==
  ASSUME NEW I, IsFiniteSet(I), NEW f, \A i \in I : f[i] \in Int, NEW x \in I
  PROVE  SumFunctionOnSet(f, I) = f[x] + SumFunctionOnSet(f, I \ {x})
<1> DEFINE Good == {s \in SUBSET I : \A i \in s :
                      SumFunctionOnSet(f, s) = f[i] + SumFunctionOnSet(f, s \ {i})}
<1>1. ASSUME NEW s \in SUBSET I, \A t \in SUBSET s : t # s => t \in Good
      PROVE  s \in Good
  <2> SUFFICES ASSUME NEW i \in s
               PROVE  SumFunctionOnSet(f, s) = f[i] + SumFunctionOnSet(f, s \ {i})
    OBVIOUS
  <2> DEFINE p == Pick(s)
  <2>1. IsFiniteSet(s) /\ p \in s
    BY FS_Subset, PickIn
  <2>2. SumFunctionOnSet(f, s) = f[p] + SumFunctionOnSet(f, s \ {p})
    BY <2>1, SumSteps
  <2> HIDE DEF p
  <2>3. CASE i = p
    BY <2>2, <2>3
  <2>4. CASE i # p
    <3> DEFINE rest == (s \ {p}) \ {i}
    <3>1. s \ {p} \in Good /\ s \ {i} \in Good
      BY <1>1, <2>1
    <3>2. SumFunctionOnSet(f, s \ {p}) = f[i] + SumFunctionOnSet(f, rest)
      BY <2>4, <3>1
    <3>3. rest = (s \ {i}) \ {p} /\ p \in s \ {i}
      BY <2>1, <2>4
    <3> HIDE DEF rest
    <3>4. SumFunctionOnSet(f, s \ {i}) = f[p] + SumFunctionOnSet(f, rest)
      BY <3>1, <3>3
    <3>5. SumFunctionOnSet(f, rest) \in Int /\ f[p] \in Int /\ f[i] \in Int
      <4>1. IsFiniteSet(rest)
        BY <2>1, FS_Subset DEF rest
      <4> QED BY <2>1, <4>1, SumType DEF rest
    <3> QED BY <2>2, <3>2, <3>4, <3>5
  <2> QED BY <2>3, <2>4
<1>2. \A s \in SUBSET I : s \in Good
  <2> HIDE DEF Good
  <2> QED BY <1>1, SubsetInduction
<1> QED BY <1>2

(* A sum depends on the values summed up and nothing else.                  *)
LEMMA SumSame ==
  ASSUME NEW I, IsFiniteSet(I), NEW f, NEW g, \A i \in I : f[i] = g[i]
  PROVE  SumFunctionOnSet(f, I) = SumFunctionOnSet(g, I)
<1> DEFINE Same == {s \in SUBSET I : SumFunctionOnSet(f, s) = SumFunctionOnSet(g, s)}
<1>1. ASSUME NEW s \in SUBSET I, \A t \in SUBSET s : t # s => t \in Same
      PROVE  s \in Same
  <2>1. IsFiniteSet(s)
    BY FS_Subset
  <2>2. CASE s = {}
    BY <2>1, <2>2, SumSteps
  <2>3. CASE s # {}
    <3> DEFINE rest == s \ {Pick(s)}
    <3>1. Pick(s) \in s
      BY <2>3, PickIn
    <3>2. SumFunctionOnSet(f, rest) = SumFunctionOnSet(g, rest) /\ f[Pick(s)] = g[Pick(s)]
      BY <1>1, <3>1
    <3> QED BY <2>1, <2>3, <3>2, SumSteps
  <2> QED BY <2>2, <2>3
<1>2. \A s \in SUBSET I : s \in Same
  <2> HIDE DEF Same
  <2> QED BY <1>1, SubsetInduction
<1> QED BY <1>2

(* One value changed changes the sum by as much.                            *)
LEMMA SumChanged ==
  ASSUME NEW I, IsFiniteSet(I), NEW f \in [I -> Int], NEW g \in [I -> Int], NEW x \in I,
         \A i \in I \ {x} : g[i] = f[i]
  PROVE  /\ SumFunction(f) \in Int
         /\ SumFunction(g) = SumFunction(f) + g[x] - f[x]
<1> DEFINE rest == I \ {x}
<1>1. IsFiniteSet(rest)
  BY FS_Subset
<1>2. SumFunctionOnSet(f, rest) = SumFunctionOnSet(g, rest)
  BY <1>1, SumSame
<1>3. SumFunctionOnSet(f, rest) \in Int
  BY <1>1, SumType
<1>4. /\ SumFunctionOnSet(f, I) = f[x] + SumFunctionOnSet(f, rest)
      /\ SumFunctionOnSet(g, I) = g[x] + SumFunctionOnSet(g, rest)
  BY SumWithout
<1>5. SumFunction(f) = SumFunctionOnSet(f, I) /\ SumFunction(g) = SumFunctionOnSet(g, I)
  BY DEF SumFunction
<1> HIDE DEF rest
<1> QED BY <1>2, <1>3, <1>4, <1>5

LEMMA SumZero ==
  ASSUME NEW I, IsFiniteSet(I)
  PROVE  SumFunction([i \in I |-> 0]) = 0
<1> DEFINE f == [i \in I |-> 0]
           Zero == {s \in SUBSET I : SumFunctionOnSet(f, s) = 0}
<1>1. ASSUME NEW s \in SUBSET I, \A t \in SUBSET s : t # s => t \in Zero
      PROVE  s \in Zero
  <2>1. IsFiniteSet(s)
    BY FS_Subset
  <2>2. CASE s = {}
    BY <2>1, <2>2, SumSteps
  <2>3. CASE s # {}
    <3>1. Pick(s) \in s
      BY <2>3, PickIn
    <3>2. SumFunctionOnSet(f, s \ {Pick(s)}) = 0 /\ f[Pick(s)] = 0
      BY <1>1, <3>1
    <3> HIDE DEF f
    <3>3. SumFunctionOnSet(f, s) = 0 + 0
      BY <2>1, <2>3, <3>2, SumSteps
    <3> QED BY <3>3
  <2> QED BY <2>2, <2>3
<1>2. \A s \in SUBSET I : s \in Zero
  <2> HIDE DEF Zero
  <2> QED BY <1>1, SubsetInduction
<1>3. SumFunctionOnSet(f, I) = 0
  BY <1>2
<1> QED BY <1>3 DEF SumFunction

(* A value appended to a list.                                             *)
LEMMA SumAppended ==
  ASSUME NEW list \in Seq(Int), NEW n \in Int
  PROVE  SumFunction(Append(list, n)) = SumFunction(list) + n
<1> DEFINE longer == Append(list, n)
           last == Len(list) + 1
           I == 1 .. Len(list)
           J == 1 .. last
<1>1. /\ Len(list) \in Nat /\ DOMAIN list = I /\ DOMAIN longer = J
      /\ longer[last] = n
      /\ \A i \in I : longer[i] = list[i] /\ list[i] \in Int
      /\ J \ {last} = I /\ last \in J
  OBVIOUS
<1>2. IsFiniteSet(I) /\ IsFiniteSet(J)
  BY <1>1, FS_Interval
<1>3. \A i \in J : longer[i] \in Int
  BY <1>1
<1> HIDE DEF longer, last, I, J
<1>4. SumFunctionOnSet(longer, J) = n + SumFunctionOnSet(longer, I)
  BY <1>1, <1>2, <1>3, SumWithout
<1>5. SumFunctionOnSet(longer, I) = SumFunctionOnSet(list, I)
  BY <1>1, <1>2, SumSame
<1>6. SumFunctionOnSet(list, I) \in Int
  BY <1>1, <1>2, SumType
<1> QED BY <1>1, <1>4, <1>5, <1>6 DEF SumFunction, longer

----------------------------------------------------------------------------

(* The inductive invariant, in parts.                                      *)

Entry == [id : Nat, value : Int, changed : BOOLEAN]
Places == {"idle", "test", "read", "take", "put", "mark", "write", "kills", "keep"}

TypesAccount ==
  /\ balance \in Int /\ logged \in Int /\ deposits \in Int
  /\ rows \in Seq(Int)

TypesUser ==
  /\ state \in [User -> {"none", "slot", "leaving", "freed"}]
  /\ coin \in [User -> Int] /\ backup \in [User -> Int]
  /\ kills \in [User -> Seq(Entry)]

TypesSaving ==
  /\ at \in [Saver -> Places]
  /\ target \in User \cup {"none"}
  /\ read \in [Saver -> Int] /\ win \in [Saver -> Int] /\ count \in [Saver -> Int]

TypeOK == TypesAccount /\ TypesUser /\ TypesSaving

(* A userLeave thread works while its User leaves, userSave while it has a   *)
(* target, which has been loaded.                                          *)
SaversWork ==
  /\ \A o \in User : at[o] # "idle" <=> state[o] = "leaving"
  /\ at["userSave"] # "idle" <=> target # "none"
  /\ target # "none" => state[target] # "none"

(* Whoever keeps a count has an entry to take it from.                      *)
KeepHasEntry == \A c \in Saver : at[c] = "keep" => kills[Of(c)] # <<>>

(* What a User that leaves has won is saved, or somebody is still at it, and *)
(* its counts once it is freed.                                            *)
Unsaved == {"test", "read", "take", "put", "mark"}
LeaverSaved ==
  \A o \in User :
    /\ state[o] \in {"leaving", "freed"} =>
         coin[o] = backup[o] \/ \E c \in Saver : Of(c) = o /\ at[c] \in Unsaved
    /\ state[o] = "freed" => ~Marked(o)

(* Without a crossing, one thread at a time is between its query and its      *)
(* UPDATE, and what it has read is the balance.                             *)
Calm == mishaps \subseteq {"played", "again", "shared", "exit", "cut"}
ReadIsBalance ==
  Calm => /\ \A c \in Halfway : read[c] = balance
          /\ \A c, d \in Halfway : c = d

SavingInv ==
  /\ TypeOK
  /\ SaversWork
  /\ KeepHasEntry
  /\ LeaverSaved
  /\ ReadIsBalance
  /\ LogExplainsBalance

----------------------------------------------------------------------------
(* What a step leaves alone.                                               *)

LEMMA Frame ==
  /\ TypesAccount /\ UNCHANGED <<balance, logged, deposits, rows>> => TypesAccount'
  /\ TypesUser /\ UNCHANGED <<state, coin, backup, kills>> => TypesUser'
  /\ TypesSaving /\ UNCHANGED <<at, target, read, win, count>> => TypesSaving'
  /\ SaversWork /\ UNCHANGED <<at, target, state>> => SaversWork'
  /\ KeepHasEntry /\ UNCHANGED <<at, target, kills>> => KeepHasEntry'
  /\ LeaverSaved /\ UNCHANGED <<at, target, state, coin, backup, kills>> => LeaverSaved'
  /\ ReadIsBalance /\ UNCHANGED <<at, read, balance>> /\ mishaps \subseteq mishaps'
       => ReadIsBalance'
  /\ LogExplainsBalance /\ UNCHANGED <<balance, deposits, logged>> /\ mishaps \subseteq mishaps'
       => LogExplainsBalance'
<1>1. TypesAccount /\ UNCHANGED <<balance, logged, deposits, rows>> => TypesAccount'
  BY DEF TypesAccount
<1>2. TypesUser /\ UNCHANGED <<state, coin, backup, kills>> => TypesUser'
  BY DEF TypesUser
<1>3. TypesSaving /\ UNCHANGED <<at, target, read, win, count>> => TypesSaving'
  BY DEF TypesSaving
<1>4. SaversWork /\ UNCHANGED <<at, target, state>> => SaversWork'
  BY DEF SaversWork
<1>5. KeepHasEntry /\ UNCHANGED <<at, target, kills>> => KeepHasEntry'
  BY DEF KeepHasEntry, Of
<1>6. LeaverSaved /\ UNCHANGED <<at, target, state, coin, backup, kills>> => LeaverSaved'
  BY DEF LeaverSaved, Of, Marked
<1>7. ReadIsBalance /\ UNCHANGED <<at, read, balance>> /\ mishaps \subseteq mishaps'
        => ReadIsBalance'
  BY DEF ReadIsBalance, Calm, Halfway
<1>8. LogExplainsBalance /\ UNCHANGED <<balance, deposits, logged>>
        /\ mishaps \subseteq mishaps' => LogExplainsBalance'
  BY DEF LogExplainsBalance
<1> QED BY <1>1, <1>2, <1>3, <1>4, <1>5, <1>6, <1>7, <1>8

(* Whoever saves has a User, that has been loaded.                          *)
LEMMA SaverHasUser ==
  ASSUME SavingInv, NEW c \in Saver, at[c] # "idle"
  PROVE  /\ Of(c) \in User /\ state[Of(c)] # "none"
         /\ c # "userSave" => Of(c) = c /\ c \in User
         /\ c = "userSave" => Of(c) = target
BY SavingAssumption DEF SavingInv, TypeOK, TypesSaving, SaversWork, Of, Saver

LEMMA SavingInit == Init => SavingInv
<1> SUFFICES ASSUME Init PROVE SavingInv
  OBVIOUS
<1> USE SavingAssumption DEF Init, NoUsers, Idle
<1>1. TypesAccount
  BY DEF TypesAccount
<1>2. TypesUser
  BY DEF TypesUser
<1>3. TypesSaving
  BY DEF TypesSaving, Places
<1>4. SaversWork
  BY DEF SaversWork, Saver
<1>5. KeepHasEntry /\ LeaverSaved
  BY DEF KeepHasEntry, LeaverSaved
<1>6. ReadIsBalance
  BY DEF ReadIsBalance, Halfway
<1>7. LogExplainsBalance
  BY DEF LogExplainsBalance
<1> QED BY <1>1, <1>2, <1>3, <1>4, <1>5, <1>6, <1>7 DEF SavingInv, TypeOK

(* Steps that change no place, or places outside of query and UPDATE only.   *)
LEMMA HalfwaySame ==
  ASSUME SavingInv, UNCHANGED <<read, balance>>, mishaps \subseteq mishaps',
         Halfway' \subseteq Halfway
  PROVE  ReadIsBalance'
BY DEF SavingInv, ReadIsBalance, Calm

----------------------------------------------------------------------------
(* The select thread and the website.                                      *)

LEMMA LoadKeeps ==
  ASSUME SavingInv, NEW o \in User, Load(o)
  PROVE  SavingInv'
<1> USE SavingAssumption
<1>1. PICK failed \in SUBSET {"coin", "kills"} :
        /\ coin' = [coin EXCEPT ![o] = DbCoin("coin" \in failed)]
        /\ backup' = [backup EXCEPT ![o] = coin'[o]]
        /\ kills' = [kills EXCEPT ![o] = DbKills("kills" \in failed)]
  BY DEF Load
<1>2. /\ UNCHANGED <<account, saving, play, mishaps>>
      /\ state[o] = "none"
      /\ state' = [state EXCEPT ![o] = "slot"]
  BY DEF Load
<1>3. DbCoin("coin" \in failed) \in Int
  <2>1. balance \in Int /\ <<balance>>[1] = balance /\ <<balance>> # <<>>
    BY DEF SavingInv, TypeOK, TypesAccount
  <2> QED BY <2>1 DEF DbCoin, GetRow, GetItemToInt
<1>4. DbKills("kills" \in failed) \in Seq(Entry)
  <2>1. CASE "kills" \in failed
    BY <2>1 DEF DbKills
  <2>2. CASE "kills" \notin failed
    <3>1. /\ rows \in Seq(Int) /\ DOMAIN rows = 1 .. Len(rows) /\ Len(rows) \in Nat
      BY DEF SavingInv, TypeOK, TypesAccount
    <3>2. \A i \in 1 .. Len(rows) : [id |-> i, value |-> rows[i], changed |-> FALSE] \in Entry
      BY <3>1 DEF Entry
    <3>3. [i \in 1 .. Len(rows) |-> [id |-> i, value |-> rows[i], changed |-> FALSE]]
            \in Seq(Entry)
      BY <3>1, <3>2
    <3> QED BY <2>2, <3>1, <3>3 DEF DbKills
  <2> QED BY <2>1, <2>2
<1>5. TypesUser'
  <2>1. coin' \in [User -> Int] /\ coin'[o] \in Int
    BY <1>1, <1>3 DEF SavingInv, TypeOK, TypesUser
  <2>2. backup' \in [User -> Int]
    BY <1>1, <2>1 DEF SavingInv, TypeOK, TypesUser
  <2>3. kills' \in [User -> Seq(Entry)]
    BY <1>1, <1>4 DEF SavingInv, TypeOK, TypesUser
  <2> QED BY <1>2, <2>1, <2>2, <2>3 DEF SavingInv, TypeOK, TypesUser
<1>6. /\ state'[o] = "slot"
      /\ \A p \in User \ {o} : /\ state'[p] = state[p] /\ coin'[p] = coin[p]
                               /\ backup'[p] = backup[p] /\ kills'[p] = kills[p]
  BY <1>1, <1>2 DEF SavingInv, TypeOK, TypesUser
<1>7. SaversWork'
  BY <1>2, <1>6 DEF SavingInv, SaversWork, TypeOK, TypesSaving, saving
<1>8. KeepHasEntry'
  <2> SUFFICES ASSUME NEW c \in Saver, at[c] = "keep"
               PROVE  kills'[Of(c)] # <<>>
    BY <1>2 DEF KeepHasEntry, Of, saving
  <2>1. Of(c) \in User \ {o}
    BY <1>2, SaverHasUser
  <2> QED BY <1>6, <2>1 DEF SavingInv, KeepHasEntry
<1>9. LeaverSaved'
  <2> SUFFICES ASSUME NEW p \in User, state'[p] \in {"leaving", "freed"}
               PROVE  /\ \/ coin'[p] = backup'[p]
                         \/ \E c \in Saver : Of(c) = p /\ at[c] \in Unsaved
                      /\ state'[p] = "freed" => ~Marked(p)'
    BY <1>2 DEF LeaverSaved, Of, saving
  <2>1. p # o
    BY <1>6
  <2> QED BY <1>6, <2>1 DEF SavingInv, LeaverSaved, Marked
<1> QED BY <1>2, <1>5, <1>7, <1>8, <1>9, Frame DEF SavingInv, TypeOK, account, saving, play

LEMMA EntryExcept ==
  ASSUME NEW e \in Entry, NEW v \in Int
  PROVE  [e EXCEPT !.value = v, !.changed = TRUE] \in Entry
BY DEF Entry

LEMMA PlayKeeps ==
  ASSUME SavingInv, NEW o \in User, NEW gain \in {-1, 1}, Play(o, gain)
  PROVE  SavingInv'
<1> USE SavingAssumption
<1>1. /\ UNCHANGED <<account, state, backup, saving, deposits>>
      /\ state[o] = "slot"
      /\ coin' = [coin EXCEPT ![o] = @ + gain]
      /\ kills' = IF gain > 0 THEN [kills EXCEPT ![o] = KillFish(kills[o])] ELSE kills
      /\ mishaps \subseteq mishaps'
  BY DEF Play
<1>2. KillFish(kills[o]) \in Seq(Entry) /\ KillFish(kills[o]) # <<>>
  <2>1. kills[o] \in Seq(Entry)
    BY DEF SavingInv, TypeOK, TypesUser
  <2>2. CASE kills[o] = <<>>
    <3>1. [id |-> 0, value |-> 1, changed |-> TRUE] \in Entry
      BY DEF Entry
    <3> QED BY <2>2, <3>1 DEF KillFish
  <2>3. CASE kills[o] # <<>>
    <3> DEFINE first == kills[o][1]
               new == [first EXCEPT !.value = @ + 1, !.changed = TRUE]
    <3>1. 1 \in DOMAIN kills[o] /\ first \in Entry
      BY <2>1, <2>3
    <3>2. new \in Entry
      <4>1. first.value + 1 \in Int
        BY <3>1 DEF Entry
      <4> QED BY <3>1, <4>1, EntryExcept
    <3>3. KillFish(kills[o]) = [kills[o] EXCEPT ![1] = new]
      BY <2>3, <3>1 DEF KillFish, Entry
    <3> HIDE DEF new
    <3> QED BY <2>1, <2>3, <3>1, <3>2, <3>3
  <2> QED BY <2>2, <2>3
<1>3. TypesUser'
  <2>1. coin[o] + gain \in Int
    BY DEF SavingInv, TypeOK, TypesUser
  <2>2. coin' \in [User -> Int]
    BY <1>1, <2>1 DEF SavingInv, TypeOK, TypesUser
  <2>3. kills' \in [User -> Seq(Entry)]
    BY <1>1, <1>2 DEF SavingInv, TypeOK, TypesUser
  <2> QED BY <1>1, <2>2, <2>3 DEF SavingInv, TypeOK, TypesUser
<1>4. \A p \in User : kills'[p] = kills[p] \/ kills'[p] # <<>>
  BY <1>1, <1>2 DEF SavingInv, TypeOK, TypesUser
<1>5. \A p \in User \ {o} : coin'[p] = coin[p] /\ kills'[p] = kills[p]
  BY <1>1 DEF SavingInv, TypeOK, TypesUser
<1>6. KeepHasEntry'
  <2> SUFFICES ASSUME NEW c \in Saver, at[c] = "keep"
               PROVE  kills'[Of(c)] # <<>>
    BY <1>1 DEF KeepHasEntry, Of, saving
  <2>1. Of(c) \in User
    BY SaverHasUser
  <2> QED BY <1>4, <2>1 DEF SavingInv, KeepHasEntry
<1>7. LeaverSaved'
  <2> SUFFICES ASSUME NEW p \in User, state[p] \in {"leaving", "freed"}
               PROVE  /\ \/ coin'[p] = backup[p]
                         \/ \E c \in Saver : Of(c) = p /\ at[c] \in Unsaved
                      /\ state[p] = "freed" => ~Marked(p)'
    BY <1>1 DEF LeaverSaved, Of, saving
  <2>1. p # o
    BY <1>1
  <2> QED BY <1>5, <2>1 DEF SavingInv, LeaverSaved, Marked
<1> QED BY <1>1, <1>3, <1>6, <1>7, Frame DEF SavingInv, TypeOK, account, saving

LEMMA DepositKeeps ==
  ASSUME SavingInv, Deposit
  PROVE  SavingInv'
<1>1. /\ UNCHANGED <<logged, rows, user, saving>>
      /\ balance' = balance + 1 /\ deposits' = deposits + 1
      /\ mishaps \subseteq mishaps'
      /\ Halfway # {} => "deposit" \in mishaps'
  BY DEF Deposit, Met
<1>2. TypesAccount'
  BY <1>1 DEF SavingInv, TypeOK, TypesAccount
<1>3. Calm' => Calm /\ Halfway = {} /\ Halfway' = {}
  BY <1>1 DEF Calm, Halfway, saving
<1>4. ReadIsBalance'
  BY <1>3 DEF ReadIsBalance
<1>5. LogExplainsBalance'
  <2>1. balance \in Int /\ deposits \in Int /\ logged \in Int /\ Balance \in Int
    BY SavingAssumption DEF SavingInv, TypeOK, TypesAccount
  <2> QED BY <1>1, <2>1 DEF SavingInv, LogExplainsBalance
<1> QED BY <1>1, <1>2, <1>4, <1>5, Frame DEF SavingInv, TypeOK, user, saving

LEMMA ExitKeeps ==
  ASSUME SavingInv, Exit
  PROVE  SavingInv'
<1> USE SavingAssumption
<1>1. /\ state' = NoUsers.state /\ coin' = NoUsers.coin /\ backup' = NoUsers.coin
      /\ kills' = NoUsers.kills
      /\ at' = Idle.at /\ target' = "none"
      /\ read' = Idle.value /\ win' = Idle.value /\ count' = Idle.value
      /\ UNCHANGED <<logged, rows, deposits>>
  BY DEF Exit
<1>2. PICK cut \in {{}} \cup {{c} : c \in {s \in Saver : at[s] = "write"}} :
        /\ balance' = IF cut = {} THEN balance ELSE NewBalance(CHOOSE c \in cut : TRUE)
        /\ mishaps' = mishaps \cup {"exit"} \cup Met("cut", cut # {})
  BY DEF Exit
<1>3. TypesAccount'
  <2>1. \A c \in Saver : NewBalance(c) \in Int
    BY DEF NewBalance, SavingInv, TypeOK, TypesSaving
  <2>2. cut # {} => (CHOOSE c \in cut : TRUE) \in Saver
    OBVIOUS
  <2>3. balance' \in Int
    BY <1>2, <2>1, <2>2 DEF SavingInv, TypeOK, TypesAccount
  <2> QED BY <1>1, <2>3 DEF SavingInv, TypeOK, TypesAccount
<1>4. TypesUser'
  BY <1>1 DEF TypesUser, NoUsers
<1>5. TypesSaving'
  BY <1>1 DEF TypesSaving, Idle, Places
<1>6. SaversWork'
  BY <1>1 DEF SaversWork, Idle, NoUsers, Saver
<1>7. KeepHasEntry' /\ LeaverSaved'
  BY <1>1 DEF KeepHasEntry, LeaverSaved, Idle, NoUsers
<1>8. ReadIsBalance'
  BY <1>1 DEF ReadIsBalance, Halfway, Idle
<1>9. LogExplainsBalance'
  <2> SUFFICES ASSUME mishaps' \subseteq {"played", "again", "shared", "exit"}
               PROVE  balance' = Balance + deposits' + logged'
    BY DEF LogExplainsBalance
  <2>1. mishaps \subseteq mishaps' /\ (cut # {} => "cut" \in mishaps')
    BY <1>2 DEF Met
  <2>2. cut = {} /\ mishaps \subseteq {"played", "again", "shared", "exit"}
    BY <2>1
  <2> QED BY <1>1, <1>2, <2>2 DEF SavingInv, LogExplainsBalance
<1> QED BY <1>3, <1>4, <1>5, <1>6, <1>7, <1>8, <1>9 DEF SavingInv, TypeOK

LEMMA LeaveKeeps ==
  ASSUME SavingInv, NEW o \in User, Leave(o)
  PROVE  SavingInv'
<1> USE SavingAssumption
<1>1. /\ UNCHANGED <<account, coin, backup, kills, target, read, win, count, play, mishaps>>
      /\ state[o] = "slot"
      /\ state' = [state EXCEPT ![o] = "leaving"]
      /\ at' = [at EXCEPT ![o] = "test"]
  BY DEF Leave, Go
<1>2. /\ state'[o] = "leaving" /\ at'[o] = "test"
      /\ \A p \in User \ {o} : state'[p] = state[p]
      /\ \A c \in Saver \ {o} : at'[c] = at[c]
      /\ o \in Saver /\ o # "userSave" /\ "userSave" \in Saver
  BY <1>1 DEF SavingInv, TypeOK, TypesUser, TypesSaving, Saver
<1>3. TypesUser'
  BY <1>1 DEF SavingInv, TypeOK, TypesUser
<1>4. TypesSaving'
  BY <1>1 DEF SavingInv, TypeOK, TypesSaving, Places
<1>5. SaversWork'
  <2>1. \A p \in User : at'[p] # "idle" <=> state'[p] = "leaving"
    BY <1>2 DEF SavingInv, SaversWork, Saver
  <2>2. at'["userSave"] = at["userSave"] /\ target' = target
    BY <1>1, <1>2
  <2>3. target # "none" => state'[target] # "none"
    BY <1>2 DEF SavingInv, SaversWork, TypeOK, TypesSaving
  <2> QED BY <2>1, <2>2, <2>3 DEF SavingInv, SaversWork
<1>6. KeepHasEntry'
  BY <1>1, <1>2 DEF SavingInv, KeepHasEntry, Of
<1>7. LeaverSaved'
  <2> SUFFICES ASSUME NEW p \in User, state'[p] \in {"leaving", "freed"}
               PROVE  /\ \/ coin[p] = backup[p]
                         \/ \E c \in Saver : Of(c)' = p /\ at'[c] \in Unsaved
                      /\ state'[p] = "freed" => ~Marked(p)
    BY <1>1 DEF LeaverSaved, Marked
  <2>1. CASE p = o
    BY <1>2, <2>1 DEF Of, Unsaved
  <2>2. CASE p # o
    <3>1. ASSUME NEW c \in Saver, Of(c) = p, at[c] \in Unsaved
          PROVE  Of(c)' = p /\ at'[c] \in Unsaved
      <4>1. c # o
        BY <1>2, <2>2, <3>1 DEF Of
      <4> QED BY <1>1, <1>2, <3>1, <4>1 DEF Of
    <3> QED BY <1>2, <2>2, <3>1 DEF SavingInv, LeaverSaved
  <2> QED BY <2>1, <2>2
<1>8. Halfway' \subseteq Halfway
  BY <1>2 DEF Halfway
<1> QED BY <1>1, <1>3, <1>4, <1>5, <1>6, <1>7, <1>8, Frame, HalfwaySame
        DEF SavingInv, TypeOK, account, play

LEMMA UserSaveKeeps ==
  ASSUME SavingInv, NEW o \in User, UserSave(o)
  PROVE  SavingInv'
<1> USE SavingAssumption
<1>1. /\ UNCHANGED <<account, user, read, win, count, play, mishaps>>
      /\ at["userSave"] = "idle" /\ state[o] = "slot"
      /\ target' = o
      /\ at' = [at EXCEPT !["userSave"] = "test"]
  BY DEF UserSave, Go
<1>2. /\ at'["userSave"] = "test" /\ target = "none"
      /\ \A c \in Saver \ {"userSave"} : at'[c] = at[c]
      /\ \A p \in User : p \in Saver /\ p # "userSave"
      /\ o # "none"
  BY <1>1 DEF SavingInv, TypeOK, TypesSaving, SaversWork, Saver
<1>3. TypesSaving'
  BY <1>1 DEF SavingInv, TypeOK, TypesSaving, Places
<1>4. SaversWork'
  BY <1>1, <1>2 DEF SavingInv, SaversWork, user
<1>5. KeepHasEntry'
  BY <1>1, <1>2 DEF SavingInv, KeepHasEntry, Of, user
<1>6. LeaverSaved'
  <2>1. ASSUME NEW p \in User, NEW c \in Saver, Of(c) = p, at[c] \in Unsaved
        PROVE  Of(c)' = p /\ at'[c] \in Unsaved
    <3>1. c # "userSave"
      BY <1>1, <2>1 DEF Unsaved
    <3> QED BY <1>2, <2>1, <3>1 DEF Of
  <2> QED BY <1>1, <2>1 DEF SavingInv, LeaverSaved, Marked, user
<1>7. Halfway' \subseteq Halfway
  BY <1>2 DEF Halfway
<1> QED BY <1>1, <1>3, <1>4, <1>5, <1>6, <1>7, Frame, HalfwaySame
        DEF SavingInv, TypeOK, account, user, play

----------------------------------------------------------------------------
(* User::save.                                                             *)

(* A thread that goes on from one place of save to another.                 *)
LEMMA GoingOn ==
  ASSUME SavingInv, NEW c \in Saver, at[c] # "idle", NEW place \in Places \ {"idle"},
         at' = [at EXCEPT ![c] = place], UNCHANGED <<state, target>>
  PROVE  /\ at'[c] = place /\ \A d \in Saver \ {c} : at'[d] = at[d]
         /\ at' \in [Saver -> Places]
         /\ \A d \in Saver : Of(d)' = Of(d)
         /\ SaversWork'
<1> USE SavingAssumption
<1>1. /\ at'[c] = place /\ \A d \in Saver \ {c} : at'[d] = at[d]
      /\ at' \in [Saver -> Places]
  BY DEF SavingInv, TypeOK, TypesSaving
<1>2. \A d \in Saver : at'[d] # "idle" <=> at[d] # "idle"
  BY <1>1
<1>3. "userSave" \in Saver /\ User \subseteq Saver
  BY DEF Saver
<1>4. SaversWork'
  BY <1>2, <1>3 DEF SavingInv, SaversWork
<1> QED BY <1>1, <1>4 DEF Of

LEMMA TestKeeps ==
  ASSUME SavingInv, NEW c \in Saver, Test(c)
  PROVE  SavingInv'
<1> DEFINE place == IF Changed(c) THEN "read" ELSE "kills"
<1>1. /\ UNCHANGED <<account, user, target, read, win, count, play, mishaps>>
      /\ at[c] = "test" /\ at' = [at EXCEPT ![c] = place]
  BY DEF Test, Go
<1>2. UNCHANGED <<state, coin, backup, kills>>
  BY <1>1 DEF user
<1>3. /\ at'[c] = place /\ \A d \in Saver \ {c} : at'[d] = at[d]
      /\ at' \in [Saver -> Places]
      /\ \A d \in Saver : Of(d)' = Of(d)
      /\ SaversWork'
  BY <1>1, <1>2, GoingOn DEF Places
<1>4. TypesSaving'
  BY <1>1, <1>3 DEF SavingInv, TypeOK, TypesSaving
<1>5. KeepHasEntry'
  BY <1>2, <1>3 DEF SavingInv, KeepHasEntry
<1>6. LeaverSaved'
  <2> SUFFICES ASSUME NEW p \in User, state[p] \in {"leaving", "freed"}, coin[p] # backup[p]
               PROVE  \E d \in Saver : Of(d) = p /\ at'[d] \in Unsaved
    BY <1>2, <1>3 DEF SavingInv, LeaverSaved, Marked
  <2>1. PICK d \in Saver : Of(d) = p /\ at[d] \in Unsaved
    BY DEF SavingInv, LeaverSaved
  <2>2. CASE d = c
    <3>1. Changed(c)
      BY <2>1, <2>2 DEF Changed
    <3> QED BY <1>3, <2>1, <2>2, <3>1 DEF Unsaved
  <2>3. CASE d # c
    BY <1>3, <2>1, <2>3
  <2> QED BY <2>2, <2>3
<1>7. Halfway' \subseteq Halfway
  BY <1>3 DEF Halfway
<1> QED BY <1>1, <1>2, <1>3, <1>4, <1>5, <1>6, <1>7, Frame, HalfwaySame
        DEF SavingInv, TypeOK, account, play

LEMMA ReadBalanceKeeps ==
  ASSUME SavingInv, NEW c \in Saver, ReadBalance(c)
  PROVE  SavingInv'
<1>1. PICK failed \in BOOLEAN :
        /\ read' = [read EXCEPT ![c] = DbCoin(failed)]
        /\ mishaps' = mishaps \cup Met("two-savers", Halfway # {})
                              \cup Met("read-failed", failed)
  BY DEF ReadBalance
<1>2. /\ UNCHANGED <<account, user, target, win, count, play>>
      /\ at[c] = "read" /\ at' = [at EXCEPT ![c] = "take"]
  BY DEF ReadBalance, Go
<1>3. UNCHANGED <<balance, state, coin, backup, kills>>
  BY <1>2 DEF account, user
<1>4. /\ at'[c] = "take" /\ \A d \in Saver \ {c} : at'[d] = at[d]
      /\ at' \in [Saver -> Places]
      /\ \A d \in Saver : Of(d)' = Of(d)
      /\ SaversWork'
  BY <1>2, <1>3, GoingOn DEF Places
<1>5. /\ DbCoin(failed) \in Int
      /\ ~failed => DbCoin(failed) = balance
  <2>1. balance \in Int /\ <<balance>>[1] = balance /\ <<balance>> # <<>>
    BY DEF SavingInv, TypeOK, TypesAccount
  <2> QED BY <2>1 DEF DbCoin, GetRow, GetItemToInt
<1>6. TypesSaving'
  BY <1>1, <1>2, <1>4, <1>5 DEF SavingInv, TypeOK, TypesSaving
<1>7. KeepHasEntry'
  BY <1>3, <1>4 DEF SavingInv, KeepHasEntry
<1>8. LeaverSaved'
  <2>1. \A d \in Saver : at[d] \in Unsaved => at'[d] \in Unsaved
    BY <1>4 DEF Unsaved
  <2> QED BY <1>3, <1>4, <2>1 DEF SavingInv, LeaverSaved, Marked
<1>9. mishaps \subseteq mishaps'
  BY <1>1
<1>10. ReadIsBalance'
  <2> SUFFICES ASSUME Calm'
               PROVE  /\ \A d \in Halfway' : read'[d] = balance
                      /\ \A d, e \in Halfway' : d = e
    BY <1>3 DEF ReadIsBalance
  <2>1. Halfway = {} /\ ~failed
    BY <1>1 DEF Met, Calm
  <2>2. Halfway' \subseteq {c}
    BY <1>4, <2>1 DEF Halfway
  <2>3. read'[c] = balance
    BY <1>1, <1>5, <2>1 DEF SavingInv, TypeOK, TypesSaving
  <2> QED BY <2>2, <2>3
<1> QED BY <1>2, <1>3, <1>4, <1>6, <1>7, <1>8, <1>9, <1>10, Frame
        DEF SavingInv, TypeOK, account, play

LEMMA TakeWinKeeps ==
  ASSUME SavingInv, NEW c \in Saver, TakeWin(c)
  PROVE  SavingInv'
<1>1. /\ UNCHANGED <<account, user, target, read, count, play, mishaps>>
      /\ win' = [win EXCEPT ![c] = Win(c)]
      /\ at[c] = "take" /\ at' = [at EXCEPT ![c] = "put"]
  BY DEF TakeWin, Go
<1>2. UNCHANGED <<balance, state, coin, backup, kills>>
  BY <1>1 DEF account, user
<1>3. /\ at'[c] = "put" /\ \A d \in Saver \ {c} : at'[d] = at[d]
      /\ at' \in [Saver -> Places]
      /\ \A d \in Saver : Of(d)' = Of(d)
      /\ SaversWork'
  BY <1>1, <1>2, GoingOn DEF Places
<1>4. TypesSaving'
  <2>1. Of(c) \in User
    BY <1>1, SaverHasUser
  <2>2. Win(c) \in Int
    BY <2>1 DEF Win, SavingInv, TypeOK, TypesUser
  <2> QED BY <1>1, <1>3, <2>2 DEF SavingInv, TypeOK, TypesSaving
<1>5. KeepHasEntry'
  BY <1>2, <1>3 DEF SavingInv, KeepHasEntry
<1>6. LeaverSaved'
  <2>1. \A d \in Saver : at[d] \in Unsaved => at'[d] \in Unsaved
    BY <1>1, <1>3 DEF Unsaved
  <2> QED BY <1>2, <1>3, <2>1 DEF SavingInv, LeaverSaved, Marked
<1>7. Halfway' \subseteq Halfway
  BY <1>1, <1>3 DEF Halfway
<1> QED BY <1>1, <1>2, <1>3, <1>4, <1>5, <1>6, <1>7, Frame, HalfwaySame
        DEF SavingInv, TypeOK, account, play

LEMMA PutCoinKeeps ==
  ASSUME SavingInv, NEW c \in Saver, PutCoin(c)
  PROVE  SavingInv'
<1>1. /\ UNCHANGED <<account, state, backup, kills, target, read, win, count, play, mishaps>>
      /\ coin' = [coin EXCEPT ![Of(c)] = read[c] + win[c]]
      /\ at[c] = "put" /\ at' = [at EXCEPT ![c] = "mark"]
  BY DEF PutCoin, Go
<1>2. Of(c) \in User
  BY <1>1, SaverHasUser
<1>3. /\ at'[c] = "mark" /\ \A d \in Saver \ {c} : at'[d] = at[d]
      /\ at' \in [Saver -> Places]
      /\ \A d \in Saver : Of(d)' = Of(d)
      /\ SaversWork'
  BY <1>1, GoingOn DEF Places
<1>4. TypesUser'
  <2>1. read[c] + win[c] \in Int
    BY DEF SavingInv, TypeOK, TypesSaving
  <2> QED BY <1>1, <2>1 DEF SavingInv, TypeOK, TypesUser
<1>5. TypesSaving'
  BY <1>1, <1>3 DEF SavingInv, TypeOK, TypesSaving
<1>6. KeepHasEntry'
  BY <1>1, <1>3 DEF SavingInv, KeepHasEntry
<1>7. LeaverSaved'
  <2>1. \A d \in Saver : at[d] \in Unsaved => at'[d] \in Unsaved
    BY <1>1, <1>3 DEF Unsaved
  <2>2. at'[c] \in Unsaved
    BY <1>3 DEF Unsaved
  <2>3. \A p \in User : p # Of(c) => coin'[p] = coin[p]
    BY <1>1 DEF SavingInv, TypeOK, TypesUser
  <2> QED BY <1>1, <1>3, <2>1, <2>2, <2>3 DEF SavingInv, LeaverSaved, Marked
<1>8. Halfway' \subseteq Halfway
  BY <1>1, <1>3 DEF Halfway
<1> QED BY <1>1, <1>3, <1>4, <1>5, <1>6, <1>7, <1>8, Frame, HalfwaySame
        DEF SavingInv, TypeOK, account, play

LEMMA MarkBackupKeeps ==
  ASSUME SavingInv, NEW c \in Saver, MarkBackup(c)
  PROVE  SavingInv'
<1>1. /\ UNCHANGED <<account, state, coin, kills, target, read, win, count, play, mishaps>>
      /\ backup' = [backup EXCEPT ![Of(c)] = coin[Of(c)]]
      /\ at[c] = "mark" /\ at' = [at EXCEPT ![c] = "write"]
  BY DEF MarkBackup, NewBackup, Go
<1>2. Of(c) \in User
  BY <1>1, SaverHasUser
<1>3. /\ at'[c] = "write" /\ \A d \in Saver \ {c} : at'[d] = at[d]
      /\ at' \in [Saver -> Places]
      /\ \A d \in Saver : Of(d)' = Of(d)
      /\ SaversWork'
  BY <1>1, GoingOn DEF Places
<1>4. TypesUser'
  BY <1>1, <1>2 DEF SavingInv, TypeOK, TypesUser
<1>5. TypesSaving'
  BY <1>1, <1>3 DEF SavingInv, TypeOK, TypesSaving
<1>6. KeepHasEntry'
  BY <1>1, <1>3 DEF SavingInv, KeepHasEntry
<1>7. LeaverSaved'
  <2>1. /\ backup'[Of(c)] = coin[Of(c)]
        /\ \A p \in User : p # Of(c) => backup'[p] = backup[p]
    BY <1>1, <1>2 DEF SavingInv, TypeOK, TypesUser
  <2> SUFFICES ASSUME NEW p \in User, state[p] \in {"leaving", "freed"}, coin[p] # backup'[p]
               PROVE  \E d \in Saver : Of(d) = p /\ at'[d] \in Unsaved
    BY <1>1, <1>3 DEF SavingInv, LeaverSaved, Marked
  <2>2. p # Of(c) /\ coin[p] # backup[p]
    BY <2>1
  <2>3. PICK d \in Saver : Of(d) = p /\ at[d] \in Unsaved
    BY <2>2 DEF SavingInv, LeaverSaved
  <2> QED BY <1>3, <2>2, <2>3
<1>8. Halfway' \subseteq Halfway
  BY <1>1, <1>3 DEF Halfway
<1> QED BY <1>1, <1>3, <1>4, <1>5, <1>6, <1>7, <1>8, Frame, HalfwaySame
        DEF SavingInv, TypeOK, account, play

LEMMA WriteBalanceKeeps ==
  ASSUME SavingInv, NEW c \in Saver, WriteBalance(c)
  PROVE  SavingInv'
<1>1. PICK failed \in SUBSET {"balance", "log"} :
        /\ balance' = IF "balance" \in failed THEN balance ELSE NewBalance(c)
        /\ logged' = IF "log" \in failed THEN logged ELSE logged + win[c]
        /\ mishaps' = mishaps \cup Met("write-failed", failed # {})
  BY DEF WriteBalance
<1>2. /\ UNCHANGED <<rows, user, target, read, win, count, play>>
      /\ at[c] = "write" /\ at' = [at EXCEPT ![c] = "kills"]
  BY DEF WriteBalance, Go
<1>3. UNCHANGED <<state, coin, backup, kills, deposits>>
  BY <1>2 DEF user, play
<1>4. /\ at'[c] = "kills" /\ \A d \in Saver \ {c} : at'[d] = at[d]
      /\ at' \in [Saver -> Places]
      /\ \A d \in Saver : Of(d)' = Of(d)
      /\ SaversWork'
  BY <1>2, <1>3, GoingOn DEF Places
<1>5. /\ balance \in Int /\ logged \in Int /\ deposits \in Int /\ Balance \in Int
      /\ read[c] \in Int /\ win[c] \in Int
  BY SavingAssumption DEF SavingInv, TypeOK, TypesAccount, TypesSaving
<1>6. TypesAccount'
  <2>1. NewBalance(c) \in Int /\ logged + win[c] \in Int
    BY <1>5 DEF NewBalance
  <2>2. balance' \in Int /\ logged' \in Int
    BY <1>1, <1>5, <2>1
  <2> QED BY <1>2, <1>3, <2>2 DEF SavingInv, TypeOK, TypesAccount
<1>7. TypesSaving'
  BY <1>2, <1>4 DEF SavingInv, TypeOK, TypesSaving
<1>8. KeepHasEntry'
  BY <1>3, <1>4 DEF SavingInv, KeepHasEntry
<1>9. LeaverSaved'
  <2>1. \A d \in Saver : at[d] \in Unsaved => at'[d] \in Unsaved
    BY <1>2, <1>4 DEF Unsaved
  <2> QED BY <1>3, <1>4, <2>1 DEF SavingInv, LeaverSaved, Marked
<1>10. Calm' => Calm /\ failed = {} /\ Halfway = {c} /\ read[c] = balance
  <2>1. Calm' => Calm /\ failed = {}
    BY <1>1 DEF Calm, Met
  <2>2. c \in Halfway
    BY <1>2 DEF Halfway
  <2> QED BY <2>1, <2>2 DEF SavingInv, ReadIsBalance
<1>11. ReadIsBalance'
  <2>1. Calm' => Halfway' = {}
    BY <1>4, <1>10 DEF Halfway
  <2> QED BY <2>1 DEF ReadIsBalance
<1>12. LogExplainsBalance'
  <2> SUFFICES ASSUME mishaps' \subseteq {"played", "again", "shared", "exit"}
               PROVE  balance' = Balance + deposits + logged'
    BY <1>3 DEF LogExplainsBalance
  <2>1. balance' = balance + win[c] /\ logged' = logged + win[c]
    BY <1>1, <1>10 DEF NewBalance, Calm
  <2>2. balance = Balance + deposits + logged
    BY <1>1 DEF SavingInv, LogExplainsBalance
  <2> QED BY <1>5, <2>1, <2>2
<1> QED BY <1>3, <1>4, <1>6, <1>7, <1>8, <1>9, <1>11, <1>12, Frame DEF SavingInv, TypeOK

LEMMA FormatKillsKeeps ==
  ASSUME SavingInv, NEW c \in Saver, FormatKills(c)
  PROVE  SavingInv'
<1>1. /\ UNCHANGED <<account, user, target, read, win, play>>
      /\ mishaps \subseteq mishaps'
      /\ at[c] = "kills" /\ at' = [at EXCEPT ![c] = "keep"]
      /\ Marked(Of(c))
      /\ count' = [count EXCEPT ![c] = kills[Of(c)][1].value]
  BY DEF FormatKills, Go
<1>2. UNCHANGED <<balance, state, coin, backup, kills>>
  BY <1>1 DEF account, user
<1>3. /\ at'[c] = "keep" /\ \A d \in Saver \ {c} : at'[d] = at[d]
      /\ at' \in [Saver -> Places]
      /\ \A d \in Saver : Of(d)' = Of(d)
      /\ SaversWork'
  BY <1>1, <1>2, GoingOn DEF Places
<1>4. TypesSaving'
  <2>1. kills[Of(c)] \in Seq(Entry) /\ kills[Of(c)] # <<>>
    BY <1>1, SaverHasUser DEF SavingInv, TypeOK, TypesUser, Marked
  <2>2. kills[Of(c)][1] \in Entry
    BY <2>1
  <2>3. kills[Of(c)][1].value \in Int
    BY <2>2 DEF Entry
  <2> QED BY <1>1, <1>3, <2>3 DEF SavingInv, TypeOK, TypesSaving
<1>5. KeepHasEntry'
  BY <1>1, <1>2, <1>3 DEF SavingInv, KeepHasEntry, Marked
<1>6. LeaverSaved'
  <2>1. \A d \in Saver : at[d] \in Unsaved => at'[d] \in Unsaved
    BY <1>1, <1>3 DEF Unsaved
  <2> QED BY <1>2, <1>3, <2>1 DEF SavingInv, LeaverSaved, Marked
<1>7. Halfway' \subseteq Halfway
  BY <1>3 DEF Halfway
<1> QED BY <1>1, <1>2, <1>3, <1>4, <1>5, <1>6, <1>7, Frame, HalfwaySame
        DEF SavingInv, TypeOK, account, play

(* The end of save: userLeave frees its User, which has no count marked.     *)
LEMMA FinishKeeps ==
  ASSUME SavingInv, NEW c \in Saver, at[c] \in {"kills", "keep"}, Finish(c),
         UNCHANGED <<coin, backup>>,
         kills'[Of(c)] = <<>> \/ ~kills'[Of(c)][1].changed,
         \A o \in User : o # Of(c) => kills'[o] = kills[o],
         \A o \in User : kills[o] # <<>> => kills'[o] # <<>>
  PROVE  /\ state' \in [User -> {"none", "slot", "leaving", "freed"}]
         /\ TypesSaving' /\ SaversWork' /\ KeepHasEntry' /\ LeaverSaved'
         /\ Halfway' \subseteq Halfway
<1> USE SavingAssumption
<1> DEFINE o == Of(c)
<1>1. o \in User /\ state[o] # "none" /\ (c # "userSave" => o = c)
      /\ (c = "userSave" => o = target)
  BY SaverHasUser
<1>2. /\ at' = [at EXCEPT ![c] = "idle"]
      /\ read' = [read EXCEPT ![c] = 0] /\ win' = [win EXCEPT ![c] = 0]
      /\ count' = [count EXCEPT ![c] = 0]
      /\ c = "userSave" => target' = "none" /\ state' = state
      /\ c # "userSave" => state' = [state EXCEPT ![c] = "freed"] /\ target' = target
  BY DEF Finish, Go, Destory
<1>3. /\ at'[c] = "idle" /\ \A d \in Saver \ {c} : at'[d] = at[d]
      /\ "userSave" \in Saver /\ User \subseteq Saver /\ "userSave" \notin User
  BY <1>2 DEF SavingInv, TypeOK, TypesSaving, Saver
<1>4. state' \in [User -> {"none", "slot", "leaving", "freed"}]
  BY <1>2 DEF SavingInv, TypeOK, TypesUser
<1>5. TypesSaving'
  BY <1>2 DEF SavingInv, TypeOK, TypesSaving, Places
<1>6. /\ c # "userSave" => state'[c] = "freed"
      /\ \A p \in User : p # c => state'[p] = state[p]
  BY <1>1, <1>2, <1>3 DEF SavingInv, TypeOK, TypesUser
<1>7. SaversWork'
  <2>1. \A p \in User : at'[p] # "idle" <=> state'[p] = "leaving"
    <3> TAKE p \in User
    <3>1. CASE p = c
      BY <1>3, <1>6, <3>1
    <3>2. CASE p # c
      BY <1>3, <1>6, <3>2 DEF SavingInv, SaversWork
    <3> QED BY <3>1, <3>2
  <2>2. /\ at'["userSave"] # "idle" <=> target' # "none"
        /\ target' # "none" => state'[target'] # "none"
    <3>1. CASE c = "userSave"
      BY <1>2, <1>3, <3>1
    <3>2. CASE c # "userSave"
      <4>1. at'["userSave"] = at["userSave"] /\ target' = target
        BY <1>2, <1>3, <3>2
      <4>2. \A p \in User : state[p] # "none" => state'[p] # "none"
        BY <1>6, <3>2
      <4> QED BY <4>1, <4>2 DEF SavingInv, SaversWork, TypeOK, TypesSaving
    <3> QED BY <3>1, <3>2
  <2> QED BY <2>1, <2>2 DEF SaversWork
<1>8. \A d \in Saver \ {c} : Of(d)' = Of(d)
  BY <1>2 DEF Of
<1>9. KeepHasEntry'
  <2> SUFFICES ASSUME NEW d \in Saver, at'[d] = "keep"
               PROVE  kills'[Of(d)'] # <<>>
    BY DEF KeepHasEntry
  <2>1. d # c /\ at[d] = "keep"
    BY <1>3
  <2>2. Of(d) \in User
    BY <2>1, SaverHasUser
  <2> QED BY <1>8, <2>1, <2>2 DEF SavingInv, KeepHasEntry
<1>10. LeaverSaved'
  <2>1. ASSUME NEW p \in User, state'[p] \in {"leaving", "freed"}, coin[p] # backup[p]
        PROVE  \E d \in Saver : Of(d)' = p /\ at'[d] \in Unsaved
    <3>1. state[p] \in {"leaving", "freed"}
      <4>1. CASE p = c
        BY <1>3, <4>1 DEF SavingInv, SaversWork
      <4>2. CASE p # c
        BY <1>6, <2>1, <4>2
      <4> QED BY <4>1, <4>2
    <3>2. PICK d \in Saver : Of(d) = p /\ at[d] \in Unsaved
      BY <2>1, <3>1 DEF SavingInv, LeaverSaved
    <3>3. d # c
      BY <3>2 DEF Unsaved
    <3> QED BY <1>3, <1>8, <3>2, <3>3
  <2>2. ASSUME NEW p \in User, state'[p] = "freed"
        PROVE  ~Marked(p)'
    <3>1. CASE p = o
      BY <3>1 DEF Marked
    <3>2. CASE p # o
      <4>1. kills'[p] = kills[p]
        BY <3>2
      <4>2. p # c
        BY <1>1, <1>3, <3>2
      <4> QED BY <1>6, <2>2, <4>1, <4>2 DEF SavingInv, LeaverSaved, Marked
    <3> QED BY <3>1, <3>2
  <2> QED BY <2>1, <2>2 DEF LeaverSaved
<1>11. Halfway' \subseteq Halfway
  BY <1>3 DEF Halfway
<1> QED BY <1>4, <1>5, <1>7, <1>9, <1>10, <1>11

LEMMA FinishReads ==
  ASSUME SavingInv, NEW c \in Saver, at[c] \in {"kills", "keep"}, Finish(c),
         UNCHANGED balance, mishaps \subseteq mishaps', Halfway' \subseteq Halfway
  PROVE  ReadIsBalance'
<1>1. c \notin Halfway
  BY DEF Halfway
<1>2. \A d \in Saver \ {c} : read'[d] = read[d]
  BY DEF Finish, SavingInv, TypeOK, TypesSaving
<1>3. Halfway \subseteq Saver
  BY DEF Halfway
<1> QED BY <1>1, <1>2, <1>3 DEF SavingInv, ReadIsBalance, Calm

LEMMA NoKillsKeeps ==
  ASSUME SavingInv, NEW c \in Saver, NoKills(c)
  PROVE  SavingInv'
<1>1. /\ UNCHANGED <<account, coin, backup, kills, play, mishaps>>
      /\ at[c] = "kills" /\ ~Marked(Of(c)) /\ Finish(c)
  BY DEF NoKills
<1>2. UNCHANGED <<balance, logged, rows, deposits>>
  BY <1>1 DEF account, play
<1>3. /\ state' \in [User -> {"none", "slot", "leaving", "freed"}]
      /\ TypesSaving' /\ SaversWork' /\ KeepHasEntry' /\ LeaverSaved'
      /\ Halfway' \subseteq Halfway
  <2>1. kills'[Of(c)] = <<>> \/ ~kills'[Of(c)][1].changed
    BY <1>1 DEF Marked
  <2>2. \A o \in User : kills'[o] = kills[o]
    BY <1>1
  <2> QED BY <1>1, <2>1, <2>2, FinishKeeps
<1>4. TypesUser'
  BY <1>1, <1>3 DEF SavingInv, TypeOK, TypesUser
<1>5. ReadIsBalance'
  BY <1>1, <1>2, <1>3, FinishReads
<1> QED BY <1>1, <1>2, <1>3, <1>4, <1>5, Frame DEF SavingInv, TypeOK

(* Another value in a row leaves rows.                                     *)
LEMMA RowPut ==
  ASSUME NEW list \in Seq(Int), NEW n \in Nat, NEW value \in Int
  PROVE  [list EXCEPT ![n] = value] \in Seq(Int)
<1> DEFINE put == [list EXCEPT ![n] = value]
<1>1. Len(list) \in Nat /\ list \in [1 .. Len(list) -> Int]
  OBVIOUS
<1>2. put \in [1 .. Len(list) -> Int]
  BY <1>1
<1> HIDE DEF put
<1>3. put \in Seq(Int)
  BY <1>1, <1>2
<1> QED BY <1>3 DEF put

LEMMA KeepKillsKeeps ==
  ASSUME SavingInv, NEW c \in Saver, KeepKills(c)
  PROVE  SavingInv'
<1> DEFINE o == Of(c)
           list == kills[o]
           kept == [list EXCEPT ![1].changed = FALSE]
<1>1. /\ UNCHANGED <<balance, logged, coin, backup, play>>
      /\ at[c] = "keep" /\ Finish(c)
      /\ kills' = [kills EXCEPT ![o] = kept]
  BY DEF KeepKills
<1>2. PICK failed \in BOOLEAN :
        /\ rows' = IF failed THEN rows ELSE RowsAfter(list[1].id, count[c])
        /\ mishaps \subseteq mishaps'
  BY DEF KeepKills
<1>3. /\ o \in User /\ list \in Seq(Entry) /\ list # <<>>
      /\ list[1] \in Entry /\ list[1].id \in Nat /\ count[c] \in Int /\ rows \in Seq(Int)
  <2>1. o \in User /\ list \in Seq(Entry) /\ list # <<>>
    BY <1>1, SaverHasUser DEF SavingInv, TypeOK, TypesUser, KeepHasEntry
  <2>2. list[1] \in Entry
    BY <2>1
  <2> QED BY <2>1, <2>2 DEF Entry, SavingInv, TypeOK, TypesSaving, TypesAccount
<1>4. kept \in Seq(Entry) /\ kept # <<>> /\ ~kept[1].changed
  <2>1. 1 \in DOMAIN list
    BY <1>3
  <2>2. [list[1] EXCEPT !.changed = FALSE] \in Entry
    BY <1>3 DEF Entry
  <2>3. kept = [list EXCEPT ![1] = [list[1] EXCEPT !.changed = FALSE]]
    BY <1>3, <2>1
  <2>4. kept \in Seq(Entry) /\ DOMAIN kept = DOMAIN list
    BY <1>3, <2>1, <2>2, <2>3
  <2>5. kept[1] = [list[1] EXCEPT !.changed = FALSE]
    BY <2>1, <2>3
  <2>6. ~kept[1].changed
    BY <1>3, <2>5 DEF Entry
  <2> QED BY <2>1, <2>4, <2>6
<1> HIDE DEF kept
<1>5. /\ kills' \in [User -> Seq(Entry)] /\ kills'[o] = kept
      /\ \A p \in User : p # o => kills'[p] = kills[p]
  BY <1>1, <1>3, <1>4 DEF SavingInv, TypeOK, TypesUser
<1>6. /\ state' \in [User -> {"none", "slot", "leaving", "freed"}]
      /\ TypesSaving' /\ SaversWork' /\ KeepHasEntry' /\ LeaverSaved'
      /\ Halfway' \subseteq Halfway
  <2>1. \A p \in User : kills[p] # <<>> => kills'[p] # <<>>
    BY <1>4, <1>5
  <2> QED BY <1>1, <1>4, <1>5, <2>1, FinishKeeps
<1>7. TypesUser'
  BY <1>1, <1>5, <1>6 DEF SavingInv, TypeOK, TypesUser
<1>8. TypesAccount'
  <2>1. RowsAfter(list[1].id, count[c]) \in Seq(Int)
    <3>1. Append(rows, count[c]) \in Seq(Int)
      BY <1>3
    <3>2. [rows EXCEPT ![list[1].id] = count[c]] \in Seq(Int)
      BY <1>3, RowPut
    <3> QED BY <3>1, <3>2 DEF RowsAfter
  <2>2. rows' \in Seq(Int)
    BY <1>2, <1>3, <2>1
  <2> QED BY <1>1, <2>2 DEF SavingInv, TypeOK, TypesAccount, play
<1>9. ReadIsBalance'
  BY <1>1, <1>2, <1>6, FinishReads
<1> QED BY <1>1, <1>2, <1>6, <1>7, <1>8, <1>9, Frame DEF SavingInv, TypeOK, play

----------------------------------------------------------------------------
LEMMA SavingStep == SavingInv /\ [Next]_vars => SavingInv'
<1> SUFFICES ASSUME SavingInv, [Next]_vars PROVE SavingInv'
  OBVIOUS
<1>1. CASE UNCHANGED <<account, user, saving, play, mishaps>>
  BY <1>1, Frame DEF SavingInv, TypeOK, account, user, saving, play
<1>2. CASE UNCHANGED vars
  BY <1>1, <1>2 DEF vars
<1>3. ASSUME NEW o \in User, Load(o) \/ Leave(o) \/ UserSave(o)
      PROVE  SavingInv'
  BY <1>3, LoadKeeps, LeaveKeeps, UserSaveKeeps
<1>4. ASSUME NEW o \in User, NEW gain \in {-1, 1}, Play(o, gain)
      PROVE  SavingInv'
  BY <1>4, PlayKeeps
<1>5. CASE Deposit
  BY <1>5, DepositKeeps
<1>6. CASE Exit
  BY <1>6, ExitKeeps
<1>7. ASSUME NEW c \in Saver, Save(c)
      PROVE  SavingInv'
  BY <1>7, TestKeeps, ReadBalanceKeeps, TakeWinKeeps, PutCoinKeeps, MarkBackupKeeps,
     WriteBalanceKeeps, NoKillsKeeps, FormatKillsKeeps, KeepKillsKeeps DEF Save
<1>8. CASE SaveFreed
  BY <1>1, <1>8 DEF SaveFreed
<1> QED BY <1>2, <1>3, <1>4, <1>5, <1>6, <1>7, <1>8 DEF Next, Others, SaveThread

(* The invariant holds in every reachable state.                           *)
THEOREM SavingSafe == Spec => []SavingInv
BY SavingInit, SavingStep, PTL DEF Spec

(* The log of coins explains the balance, for any User objects of one         *)
(* account, whatever play does while they are saved and also after an exit   *)
(* that has not come between the two queries (user.hpp:268, 272).           *)
THEOREM LogAlwaysExplains == Spec => []LogExplainsBalance
<1>1. SavingInv => LogExplainsBalance
  BY DEF SavingInv
<1> QED BY <1>1, SavingSafe, PTL

(* Nobody is freed (thread.hpp:129) with coins or counts that the database   *)
(* does not have, unless userSave is still about to write them.            *)
THEOREM FreedAlwaysSaved == Spec => []FreedIsSaved
<1>1. SavingInv => FreedIsSaved
  <2> SUFFICES ASSUME SavingInv, NEW o \in User, state[o] = "freed", target # o
               PROVE  Pending(o) = 0 /\ Uncounted(o) = 0
    BY DEF FreedIsSaved
  <2>1. \A c \in Saver : at[c] # "idle" => Of(c) # o
    <3> TAKE c \in Saver
    <3> SUFFICES ASSUME at[c] # "idle" PROVE Of(c) # o
      OBVIOUS
    <3>1. CASE c = "userSave"
      BY <3>1, SaverHasUser
    <3>2. CASE c # "userSave"
      BY <3>2, SaverHasUser DEF SavingInv, SaversWork
    <3> QED BY <3>1, <3>2
  <2>2. coin[o] = backup[o] /\ coin[o] \in Int
    BY <2>1 DEF SavingInv, LeaverSaved, Unsaved, TypeOK, TypesUser
  <2>3. {c \in Saver : Of(c) = o /\ at[c] \in {"mark", "write"}} = {}
    BY <2>1
  <2>4. Pending(o) = 0
    BY <2>2, <2>3 DEF Pending
  <2>5. ~Marked(o)
    BY DEF SavingInv, LeaverSaved
  <2> QED BY <2>4, <2>5 DEF Uncounted
<1> QED BY <1>1, SavingSafe, PTL

----------------------------------------------------------------------------
(* The coins: a second invariant, on top of the first.                     *)

CoinsCalm == mishaps \subseteq {"again", "shared", "exit", "cut"}
TypesEarned == earned \in Int

(* A User that has not been loaded has nothing.                             *)
FreshEmpty ==
  \A o \in User : state[o] = "none" => coin[o] = backup[o] /\ kills[o] = <<>>

(* What a saver is about to put is what its User has won.                   *)
WinWaits ==
  CoinsCalm => \A c \in Saver : at[c] = "put" => win[c] = coin[Of(c)] - backup[Of(c)]

PendingSum == SumFunction([o \in User |-> Pending(o)])

CoinsInv == TypesEarned /\ FreshEmpty /\ WinWaits /\ CoinsKept

(* Who has put a User's coins, and not written them.                        *)
Writing(o) == {c \in Saver : Of(c) = o /\ at[c] \in {"mark", "write"}}

PendingAs(o) ==
  /\ Writing(o) = {} => Pending(o) = coin[o] - backup[o]
  /\ \A c \in Writing(o) :
       /\ at[c] = "mark" => Pending(o) = win[c]
       /\ at[c] = "write" => Pending(o) = win[c] + (coin[o] - backup[o])

LEMMA PendingIs == SavingInv /\ Calm => \A o \in User : PendingAs(o)
<1> SUFFICES ASSUME SavingInv, Calm, NEW o \in User PROVE PendingAs(o)
  OBVIOUS
<1>1. CASE Writing(o) = {}
  BY <1>1 DEF PendingAs, Pending, Writing
<1>2. ASSUME NEW c \in Writing(o)
      PROVE  /\ at[c] = "mark" => Pending(o) = win[c]
             /\ at[c] = "write" => Pending(o) = win[c] + (coin[o] - backup[o])
  <2>1. Writing(o) = {c}
    <3>1. Writing(o) \subseteq Halfway
      BY DEF Writing, Halfway
    <3> QED BY <1>2, <3>1 DEF SavingInv, ReadIsBalance
  <2>2. (CHOOSE d \in Writing(o) : TRUE) = c
    BY <2>1
  <2>3. Pending(o) = win[c] + IF at[c] = "write" THEN coin[o] - backup[o] ELSE 0
    BY <2>1, <2>2 DEF Pending, Writing
  <2>4. c \in Saver /\ win[c] \in Int
    BY <1>2 DEF Writing, SavingInv, TypeOK, TypesSaving
  <2> QED BY <2>3, <2>4
<1> QED BY <1>1, <1>2 DEF PendingAs

LEMMA PendingIsNext == SavingInv' /\ Calm' => (\A o \in User : PendingAs(o))'
BY PendingIs, PTL

LEMMA PendingType == SavingInv => \A o \in User : Pending(o) \in Int
<1> SUFFICES ASSUME SavingInv, NEW o \in User PROVE Pending(o) \in Int
  OBVIOUS
<1>1. coin[o] - backup[o] \in Int
  BY DEF SavingInv, TypeOK, TypesUser
<1>2. CASE Writing(o) = {}
  BY <1>1, <1>2 DEF Pending, Writing
<1>3. CASE Writing(o) # {}
  <2> DEFINE c == CHOOSE c \in Writing(o) : TRUE
  <2>1. c \in Saver
    BY <1>3 DEF Writing
  <2>2. win[c] \in Int
    BY <2>1 DEF SavingInv, TypeOK, TypesSaving
  <2>3. Pending(o) = win[c] + IF at[c] = "write" THEN coin[o] - backup[o] ELSE 0
    BY <1>3 DEF Pending, Writing
  <2> HIDE DEF c
  <2> QED BY <1>1, <2>2, <2>3
<1> QED BY <1>2, <1>3

(* What nobody touches stays pending.                                      *)
LEMMA PendingSame ==
  ASSUME NEW o \in User, coin'[o] = coin[o], backup'[o] = backup[o],
         Writing(o)' = Writing(o),
         \A c \in Writing(o) : at'[c] = at[c] /\ win'[c] = win[c]
  PROVE  Pending(o)' = Pending(o)
<1>1. CASE Writing(o) = {}
  BY <1>1 DEF Pending, Writing
<1>2. CASE Writing(o) # {}
  <2> DEFINE c == CHOOSE c \in Writing(o) : TRUE
  <2>1. c \in Writing(o)
    BY <1>2
  <2>2. Pending(o) = win[c] + IF at[c] = "write" THEN coin[o] - backup[o] ELSE 0
    BY <1>2 DEF Pending, Writing
  <2>3. Pending(o)' = win'[c] + IF at'[c] = "write" THEN coin'[o] - backup'[o] ELSE 0
    BY <1>2 DEF Pending, Writing
  <2> HIDE DEF c
  <2> QED BY <2>1, <2>2, <2>3
<1> QED BY <1>1, <1>2

(* The sum changes with what is pending for one User, and not otherwise.     *)
LEMMA PendingSumMoves ==
  ASSUME SavingInv, SavingInv', NEW x \in User,
         \A o \in User \ {x} : Pending(o)' = Pending(o)
  PROVE  /\ PendingSum \in Int
         /\ PendingSum' = PendingSum + Pending(x)' - Pending(x)
<1> DEFINE f == [o \in User |-> Pending(o)]
           g == [o \in User |-> Pending(o)']
<1>1. f \in [User -> Int] /\ g \in [User -> Int]
  <2>1. \A o \in User : Pending(o) \in Int
    BY PendingType
  <2>2. \A o \in User : Pending(o)' \in Int
    <3>1. (\A o \in User : Pending(o) \in Int)'
      BY PendingType, PTL
    <3> QED BY <3>1
  <2> QED BY <2>1, <2>2
<1>2. \A o \in User \ {x} : g[o] = f[o]
  OBVIOUS
<1>3. f[x] = Pending(x) /\ g[x] = Pending(x)'
  OBVIOUS
<1>4. PendingSum = SumFunction(f) /\ PendingSum' = SumFunction(g)
  BY DEF PendingSum
<1> HIDE DEF f, g
<1> QED BY <1>1, <1>2, <1>3, <1>4, SavingAssumption, SumChanged

LEMMA PendingSumType == ASSUME SavingInv PROVE PendingSum \in Int
<1> DEFINE f == [o \in User |-> Pending(o)]
<1>1. \A o \in User : f[o] \in Int
  BY PendingType
<1>2. PendingSum = SumFunctionOnSet(f, User)
  BY DEF PendingSum, SumFunction
<1> HIDE DEF f
<1> QED BY <1>1, <1>2, SavingAssumption, SumType

LEMMA PendingSumSame ==
  ASSUME SavingInv, SavingInv', \A o \in User : Pending(o)' = Pending(o)
  PROVE  PendingSum' = PendingSum
BY DEF PendingSum

----------------------------------------------------------------------------
(* Steps that move no coins.                                               *)
LEMMA CoinsFrame ==
  ASSUME SavingInv, SavingInv', CoinsInv, mishaps \subseteq mishaps',
         UNCHANGED <<coin, backup, balance, deposits, earned>>,
         \A o \in User : state'[o] = "none" => state[o] = "none" /\ kills'[o] = kills[o],
         \A c \in Saver : at'[c] = at[c] \/ at'[c] \notin {"put", "mark", "write"},
         \A c \in Saver : at[c] \in {"put", "mark", "write"} =>
           at'[c] = at[c] /\ Of(c)' = Of(c) /\ win'[c] = win[c],
         \A c \in Saver : at'[c] \in {"put", "mark", "write"} => Of(c)' = Of(c)
  PROVE  CoinsInv'
<1>1. TypesEarned' /\ FreshEmpty'
  BY DEF CoinsInv, TypesEarned, FreshEmpty
<1>2. WinWaits'
  BY DEF CoinsInv, WinWaits, CoinsCalm
<1>3. ASSUME NEW o \in User PROVE Pending(o)' = Pending(o)
  <2>1. Writing(o)' = Writing(o)
    BY DEF Writing
  <2>2. \A c \in Writing(o) : at'[c] = at[c] /\ win'[c] = win[c]
    BY DEF Writing
  <2> QED BY <2>1, <2>2, PendingSame
<1>4. PendingSum' = PendingSum
  BY <1>3, PendingSumSame
<1>5. CoinsKept'
  BY <1>4 DEF CoinsInv, CoinsKept, PendingSum
<1> QED BY <1>1, <1>2, <1>5 DEF CoinsInv

(* Steps that move coins of one User.                                      *)
LEMMA CoinsMove ==
  ASSUME SavingInv, SavingInv', CoinsInv, mishaps \subseteq mishaps', NEW x \in User,
         earned' \in Int,
         CoinsCalm' =>
           /\ \A o \in User \ {x} : Pending(o)' = Pending(o)
           /\ balance' + Pending(x)' - deposits' - earned'
                = balance + Pending(x) - deposits - earned
  PROVE  CoinsKept'
<1> SUFFICES ASSUME CoinsCalm'
             PROVE  balance' + PendingSum' = Balance + deposits' + earned'
  BY DEF CoinsKept, CoinsCalm, PendingSum
<1>1. balance + PendingSum = Balance + deposits + earned
  BY DEF CoinsInv, CoinsKept, CoinsCalm, PendingSum
<1>2. PendingSum \in Int /\ PendingSum' = PendingSum + Pending(x)' - Pending(x)
  BY PendingSumMoves
<1>3. Pending(x) \in Int /\ Pending(x)' \in Int
  <2>1. (\A o \in User : Pending(o) \in Int)'
    BY PendingType, PTL
  <2> QED BY <2>1, PendingType
<1>4. /\ balance \in Int /\ balance' \in Int /\ deposits \in Int /\ deposits' \in Int
      /\ earned \in Int /\ Balance \in Int
  BY SavingAssumption DEF SavingInv, TypeOK, TypesAccount, CoinsInv, TypesEarned
<1> QED BY <1>1, <1>2, <1>3, <1>4

----------------------------------------------------------------------------
LEMMA CoinsInit == Init => CoinsInv
<1> SUFFICES ASSUME Init PROVE CoinsInv
  OBVIOUS
<1> USE SavingAssumption DEF Init, NoUsers, Idle
<1>1. TypesEarned /\ FreshEmpty
  BY DEF TypesEarned, FreshEmpty
<1>2. WinWaits
  BY DEF WinWaits
<1>3. \A o \in User : Pending(o) = 0
  <2> TAKE o \in User
  <2>1. Writing(o) = {}
    BY DEF Writing
  <2>2. Pending(o) = 0 - 0
    BY <2>1 DEF Pending, Writing
  <2> QED BY <2>2
<1>4. PendingSum = 0
  BY <1>3, SumZero DEF PendingSum
<1>5. CoinsKept
  BY <1>4 DEF CoinsKept, PendingSum
<1> QED BY <1>1, <1>2, <1>5 DEF CoinsInv

LEMMA LoadCoins ==
  ASSUME SavingInv, SavingInv', CoinsInv, NEW x \in User, Load(x)
  PROVE  CoinsInv'
<1>1. /\ UNCHANGED <<balance, deposits, earned, mishaps, at, target, win>>
      /\ state[x] = "none" /\ state' = [state EXCEPT ![x] = "slot"]
  BY DEF Load, account, saving, play
<1>2. /\ \A o \in User \ {x} : /\ state'[o] = state[o] /\ coin'[o] = coin[o]
                               /\ backup'[o] = backup[o] /\ kills'[o] = kills[o]
      /\ state'[x] = "slot" /\ backup'[x] = coin'[x]
  BY <1>1 DEF Load, SavingInv, TypeOK, TypesUser
<1>3. \A c \in Saver : at[c] # "idle" => Of(c) # x /\ Of(c) \in User
  BY <1>1, SaverHasUser
<1>4. \A c \in Saver : Of(c)' = Of(c)
  BY <1>1 DEF Of
<1>5. TypesEarned' /\ FreshEmpty'
  BY <1>1, <1>2 DEF CoinsInv, TypesEarned, FreshEmpty
<1>6. WinWaits'
  BY <1>1, <1>2, <1>3, <1>4 DEF CoinsInv, WinWaits, CoinsCalm
<1>7. ASSUME NEW o \in User \ {x} PROVE Pending(o)' = Pending(o)
  <2>1. Writing(o)' = Writing(o)
    BY <1>1, <1>4 DEF Writing
  <2> QED BY <1>1, <1>2, <2>1, PendingSame
<1>8. Pending(x) = 0 /\ Pending(x)' = 0
  <2>1. Writing(x) = {} /\ Writing(x)' = {}
    BY <1>1, <1>3, <1>4 DEF Writing
  <2>2. Pending(x) = coin[x] - backup[x] /\ Pending(x)' = coin'[x] - backup'[x]
    BY <2>1 DEF Pending, Writing
  <2>3. coin[x] = backup[x] /\ coin[x] \in Int /\ coin'[x] \in Int
    BY <1>1 DEF CoinsInv, FreshEmpty, SavingInv, TypeOK, TypesUser
  <2> QED BY <1>2, <2>2, <2>3
<1>9. CoinsKept'
  BY <1>1, <1>7, <1>8, CoinsMove DEF CoinsInv, TypesEarned
<1> QED BY <1>5, <1>6, <1>9 DEF CoinsInv

LEMMA LeaveCoins ==
  ASSUME SavingInv, SavingInv', CoinsInv, NEW x \in User, Leave(x)
  PROVE  CoinsInv'
<1>1. /\ UNCHANGED <<account, coin, backup, kills, target, win, play, mishaps>>
      /\ state[x] = "slot" /\ state' = [state EXCEPT ![x] = "leaving"]
      /\ at' = [at EXCEPT ![x] = "test"]
  BY DEF Leave, Go
<1>2. UNCHANGED <<balance, deposits, earned>>
  BY <1>1 DEF account, play
<1>3. \A o \in User : state'[o] = "none" => state[o] = "none"
  BY <1>1 DEF SavingInv, TypeOK, TypesUser
<1>4. /\ at[x] = "idle" /\ at'[x] = "test" /\ x \in Saver
      /\ \A c \in Saver \ {x} : at'[c] = at[c]
  BY <1>1 DEF SavingInv, TypeOK, TypesSaving, SaversWork, Saver
<1>5. \A c \in Saver : Of(c)' = Of(c)
  BY <1>1 DEF Of
<1> QED BY <1>1, <1>2, <1>3, <1>4, <1>5, CoinsFrame

LEMMA UserSaveCoins ==
  ASSUME SavingInv, SavingInv', CoinsInv, NEW x \in User, UserSave(x)
  PROVE  CoinsInv'
<1>1. /\ UNCHANGED <<account, user, win, play, mishaps>>
      /\ at["userSave"] = "idle" /\ at' = [at EXCEPT !["userSave"] = "test"]
  BY DEF UserSave, Go
<1>2. UNCHANGED <<balance, deposits, earned, state, coin, backup, kills>>
  BY <1>1 DEF account, user, play
<1>3. /\ at'["userSave"] = "test"
      /\ \A c \in Saver \ {"userSave"} : at'[c] = at[c] /\ Of(c)' = Of(c)
  BY <1>1 DEF SavingInv, TypeOK, TypesSaving, Saver, Of
<1> QED BY <1>1, <1>2, <1>3, CoinsFrame

LEMMA PlayCoins ==
  ASSUME SavingInv, SavingInv', CoinsInv, NEW x \in User, NEW gain \in {-1, 1}, Play(x, gain)
  PROVE  CoinsInv'
<1> DEFINE busy == \E c \in Saver : at[c] \in {"put", "mark"} /\ Of(c) = x
<1>1. /\ UNCHANGED <<account, state, backup, saving, deposits>>
      /\ state[x] = "slot"
      /\ coin' = [coin EXCEPT ![x] = @ + gain]
      /\ kills' = IF gain > 0 THEN [kills EXCEPT ![x] = KillFish(kills[x])] ELSE kills
      /\ earned' = earned + gain
      /\ mishaps \subseteq mishaps'
  BY DEF Play
<1>2. busy => "played" \in mishaps'
  BY DEF Play, Met
<1>3. UNCHANGED <<balance, at, target, win>>
  BY <1>1 DEF account, saving
<1>4. \A c \in Saver : Of(c)' = Of(c)
  BY <1>3 DEF Of
<1>5. /\ coin'[x] = coin[x] + gain
      /\ \A o \in User \ {x} : coin'[o] = coin[o] /\ kills'[o] = kills[o]
      /\ coin[x] \in Int /\ backup[x] \in Int /\ earned \in Int
      /\ balance \in Int /\ deposits \in Int
  BY <1>1 DEF SavingInv, TypeOK, TypesUser, TypesAccount, CoinsInv, TypesEarned
<1>6. TypesEarned' /\ FreshEmpty'
  <2>1. earned' \in Int
    BY <1>1, <1>5
  <2> QED BY <1>1, <1>5, <2>1 DEF CoinsInv, TypesEarned, FreshEmpty
<1>7. CoinsCalm' => CoinsCalm /\ Calm /\ Calm' /\ ~busy
  BY <1>1, <1>2 DEF CoinsCalm, Calm
<1> HIDE DEF busy
<1>8. WinWaits'
  <2> SUFFICES ASSUME CoinsCalm', NEW c \in Saver, at[c] = "put"
               PROVE  win[c] = coin'[Of(c)] - backup[Of(c)]
    BY <1>1, <1>3, <1>4 DEF WinWaits
  <2>1. Of(c) \in User \ {x}
    BY <1>7, SaverHasUser DEF busy
  <2> QED BY <1>5, <1>7, <2>1 DEF CoinsInv, WinWaits
<1>9. \A o \in User : Writing(o)' = Writing(o)
  BY <1>3, <1>4 DEF Writing
<1>10. ASSUME NEW o \in User \ {x} PROVE Pending(o)' = Pending(o)
  BY <1>1, <1>3, <1>5, <1>9, PendingSame
<1>11. ASSUME CoinsCalm' PROVE Pending(x)' = Pending(x) + gain
  <2>1. /\ Writing(x)' = {} => Pending(x)' = coin'[x] - backup'[x]
        /\ \A c \in Writing(x)' :
             at'[c] = "write" => Pending(x)' = win'[c] + (coin'[x] - backup'[x])
    BY <1>7, <1>11, PendingIsNext DEF PendingAs
  <2>2. /\ Writing(x) = {} => Pending(x) = coin[x] - backup[x]
        /\ \A c \in Writing(x) :
             at[c] = "write" => Pending(x) = win[c] + (coin[x] - backup[x])
    BY <1>7, <1>11, PendingIs DEF PendingAs
  <2>3. \A c \in Writing(x) : at[c] = "write" /\ c \in Saver
    BY <1>7, <1>11 DEF Writing, busy
  <2>4. CASE Writing(x) = {}
    BY <1>1, <1>5, <1>9, <2>1, <2>2, <2>4
  <2>5. CASE Writing(x) # {}
    <3>1. PICK c \in Writing(x) : at[c] = "write" /\ win[c] \in Int
      BY <2>3, <2>5 DEF SavingInv, TypeOK, TypesSaving
    <3>2. Pending(x) = win[c] + (coin[x] - backup[x])
      BY <2>2, <3>1
    <3>3. Pending(x)' = win[c] + (coin'[x] - backup[x])
      BY <1>1, <1>3, <1>9, <2>1, <3>1
    <3> QED BY <1>5, <3>1, <3>2, <3>3
  <2> QED BY <2>4, <2>5
<1>12. CoinsKept'
  <2>1. Pending(x) \in Int /\ earned' \in Int
    BY <1>6, PendingType DEF TypesEarned
  <2> QED BY <1>1, <1>3, <1>5, <1>10, <1>11, <2>1, CoinsMove
<1> QED BY <1>6, <1>8, <1>12 DEF CoinsInv

LEMMA DepositCoins ==
  ASSUME SavingInv, SavingInv', CoinsInv, Deposit
  PROVE  CoinsInv'
<1>1. /\ UNCHANGED <<user, saving, earned>>
      /\ balance' = balance + 1 /\ deposits' = deposits + 1
      /\ mishaps \subseteq mishaps'
  BY DEF Deposit
<1>2. UNCHANGED <<state, coin, backup, kills, at, target, win>>
  BY <1>1 DEF user, saving
<1>3. TypesEarned' /\ FreshEmpty'
  BY <1>1, <1>2 DEF CoinsInv, TypesEarned, FreshEmpty
<1>4. WinWaits'
  BY <1>1, <1>2 DEF CoinsInv, WinWaits, CoinsCalm, Of
<1>5. PendingSum' = PendingSum
  <2>1. \A o \in User : Pending(o)' = Pending(o)
    BY <1>2 DEF Pending, Of
  <2> QED BY <2>1, PendingSumSame
<1>6. CoinsKept'
  <2> SUFFICES ASSUME CoinsCalm'
               PROVE  balance' + PendingSum' = Balance + deposits' + earned'
    BY DEF CoinsKept, CoinsCalm, PendingSum
  <2>1. balance + PendingSum = Balance + deposits + earned
    BY <1>1 DEF CoinsInv, CoinsKept, CoinsCalm, PendingSum
  <2>2. PendingSum \in Int
    BY PendingSumType
  <2>3. balance \in Int /\ deposits \in Int /\ earned \in Int /\ Balance \in Int
    BY SavingAssumption DEF SavingInv, TypeOK, TypesAccount, CoinsInv, TypesEarned
  <2> QED BY <1>1, <1>5, <2>1, <2>2, <2>3
<1> QED BY <1>3, <1>4, <1>6 DEF CoinsInv

LEMMA ExitCoins ==
  ASSUME SavingInv, SavingInv', CoinsInv, Exit
  PROVE  CoinsInv'
<1> USE SavingAssumption
<1>1. /\ state' = NoUsers.state /\ coin' = NoUsers.coin /\ backup' = NoUsers.coin
      /\ kills' = NoUsers.kills
      /\ at' = Idle.at /\ UNCHANGED deposits
  BY DEF Exit
<1>2. PICK cut \in {{}} \cup {{c} : c \in {s \in Saver : at[s] = "write"}} :
        /\ balance' = IF cut = {} THEN balance ELSE NewBalance(CHOOSE c \in cut : TRUE)
        /\ earned' = earned - PendingSum
                       + IF cut = {} THEN 0 ELSE win[CHOOSE c \in cut : TRUE]
        /\ mishaps \subseteq mishaps'
  BY DEF Exit, PendingSum
<1> DEFINE s == CHOOSE c \in cut : TRUE
<1>3. cut # {} => s \in Saver /\ at[s] = "write" /\ win[s] \in Int
  BY DEF SavingInv, TypeOK, TypesSaving
<1> HIDE DEF s
<1>4. PendingSum \in Int /\ earned \in Int /\ balance \in Int /\ deposits \in Int
  BY PendingSumType DEF CoinsInv, TypesEarned, SavingInv, TypeOK, TypesAccount
<1>5. TypesEarned' /\ FreshEmpty'
  <2>1. earned' \in Int
    BY <1>2, <1>3, <1>4 DEF s
  <2> QED BY <1>1, <2>1 DEF TypesEarned, FreshEmpty, NoUsers
<1>6. WinWaits'
  BY <1>1 DEF WinWaits, Idle
<1>7. PendingSum' = 0
  <2>1. \A o \in User : Pending(o)' = 0
    <3> TAKE o \in User
    <3>1. Writing(o)' = {}
      BY <1>1 DEF Writing, Idle
    <3>2. Pending(o)' = coin'[o] - backup'[o]
      BY <3>1 DEF Pending, Writing
    <3>3. coin'[o] = 0 /\ backup'[o] = 0
      BY <1>1 DEF NoUsers
    <3> QED BY <3>2, <3>3
  <2> QED BY <2>1, SumZero DEF PendingSum
<1>8. CoinsKept'
  <2> SUFFICES ASSUME CoinsCalm'
               PROVE  balance' + PendingSum' = Balance + deposits' + earned'
    BY DEF CoinsKept, CoinsCalm, PendingSum
  <2>1. balance + PendingSum = Balance + deposits + earned
    BY <1>2 DEF CoinsInv, CoinsKept, CoinsCalm, PendingSum
  <2>2. cut # {} => balance' = balance + win[s]
    <3>1. cut # {} => read[s] = balance
      BY <1>2, <1>3 DEF CoinsCalm, Calm, Halfway, SavingInv, ReadIsBalance
    <3> QED BY <1>2, <3>1 DEF NewBalance, s
  <2>3. CASE cut = {}
    BY <1>1, <1>2, <1>4, <1>7, <2>1, <2>3
  <2>4. CASE cut # {}
    <3>1. earned' = earned - PendingSum + win[s]
      BY <1>2, <2>4 DEF s
    <3> QED BY <1>1, <1>3, <1>4, <1>7, <2>1, <2>2, <2>4, <3>1
  <2> QED BY <2>3, <2>4
<1> QED BY <1>5, <1>6, <1>8 DEF CoinsInv

----------------------------------------------------------------------------
(* User::save, and the coins.                                              *)

(* From one place to another, of which neither has to do with coins put.     *)
LEMMA GoingCoins ==
  ASSUME SavingInv, SavingInv', CoinsInv, NEW c \in Saver,
         NEW place \in Places \ {"put", "mark", "write"},
         at[c] \notin {"put", "mark", "write"}, at' = [at EXCEPT ![c] = place],
         UNCHANGED <<coin, backup, kills, state, target, win, balance, play>>,
         mishaps \subseteq mishaps'
  PROVE  CoinsInv'
<1>1. /\ at'[c] = place /\ \A d \in Saver \ {c} : at'[d] = at[d]
  BY DEF SavingInv, TypeOK, TypesSaving
<1>2. \A d \in Saver : Of(d)' = Of(d)
  BY DEF Of
<1>3. UNCHANGED <<deposits, earned>>
  BY DEF play
<1> QED BY <1>1, <1>2, <1>3, CoinsFrame

LEMMA SaveBeginsCoins ==
  ASSUME SavingInv, SavingInv', CoinsInv, NEW c \in Saver,
         Test(c) \/ ReadBalance(c) \/ FormatKills(c)
  PROVE  CoinsInv'
<1>1. CASE Test(c)
  <2>1. (IF Changed(c) THEN "read" ELSE "kills") \in Places \ {"put", "mark", "write"}
    BY DEF Places
  <2> QED BY <1>1, <2>1, GoingCoins DEF Test, Go, account, user
<1>2. CASE ReadBalance(c)
  <2>1. "take" \in Places \ {"put", "mark", "write"}
    BY DEF Places
  <2> QED BY <1>2, <2>1, GoingCoins DEF ReadBalance, Go, account, user
<1>3. CASE FormatKills(c)
  <2>1. "keep" \in Places \ {"put", "mark", "write"}
    BY DEF Places
  <2> QED BY <1>3, <2>1, GoingCoins DEF FormatKills, Go, account, user
<1> QED BY <1>1, <1>2, <1>3

LEMMA TakeWinCoins ==
  ASSUME SavingInv, SavingInv', CoinsInv, NEW c \in Saver, TakeWin(c)
  PROVE  CoinsInv'
<1>1. /\ UNCHANGED <<account, user, target, play, mishaps>>
      /\ win' = [win EXCEPT ![c] = Win(c)]
      /\ at[c] = "take" /\ at' = [at EXCEPT ![c] = "put"]
  BY DEF TakeWin, Go
<1>2. UNCHANGED <<balance, state, coin, backup, kills, deposits, earned>>
  BY <1>1 DEF account, user, play
<1>3. /\ at'[c] = "put" /\ win'[c] = coin[Of(c)] - backup[Of(c)]
      /\ \A d \in Saver \ {c} : at'[d] = at[d] /\ win'[d] = win[d]
      /\ \A d \in Saver : Of(d)' = Of(d)
  BY <1>1 DEF SavingInv, TypeOK, TypesSaving, Of, Win
<1>4. TypesEarned' /\ FreshEmpty'
  BY <1>2 DEF CoinsInv, TypesEarned, FreshEmpty
<1>5. WinWaits'
  BY <1>1, <1>2, <1>3 DEF CoinsInv, WinWaits, CoinsCalm
<1>6. ASSUME NEW o \in User PROVE Pending(o)' = Pending(o)
  <2>1. Writing(o)' = Writing(o) /\ c \notin Writing(o)
    BY <1>1, <1>3 DEF Writing
  <2>2. \A d \in Writing(o) : at'[d] = at[d] /\ win'[d] = win[d]
    BY <1>3, <2>1 DEF Writing
  <2> QED BY <1>2, <2>1, <2>2, PendingSame
<1>7. PendingSum' = PendingSum
  BY <1>6, PendingSumSame
<1>8. CoinsKept'
  BY <1>1, <1>2, <1>7 DEF CoinsInv, CoinsKept, PendingSum
<1> QED BY <1>4, <1>5, <1>8 DEF CoinsInv

(* The steps that move what has been won: in calm, one thread at a time is   *)
(* at it.                                                                  *)
LEMMA MoverAlone ==
  ASSUME SavingInv, SavingInv', NEW c \in Saver, at[c] \in {"put", "mark", "write"},
         at'[c] \in {"mark", "write", "kills"}, \A d \in Saver \ {c} : at'[d] = at[d],
         UNCHANGED <<target, win>>, Calm, NEW o \in User, o = Of(c)
  PROVE  /\ win[c] \in Int
         /\ Writing(o) = IF at[c] = "put" THEN {} ELSE {c}
         /\ Writing(o)' = IF at'[c] = "kills" THEN {} ELSE {c}
         /\ \A p \in User \ {o} : Writing(p)' = {} /\ Writing(p) = {}
         /\ \A d \in Saver : at'[d] # "put"
<1>1. win[c] \in Int
  BY DEF SavingInv, TypeOK, TypesSaving
<1>2. \A d \in Saver : d # c => at[d] \notin {"put", "mark", "write"}
  BY DEF SavingInv, ReadIsBalance, Halfway
<1>4. \A d \in Saver : Of(d)' = Of(d)
  BY DEF Of
<1>5. Writing(o) = IF at[c] = "put" THEN {} ELSE {c}
  BY <1>2 DEF Writing
<1>6. Writing(o)' = IF at'[c] = "kills" THEN {} ELSE {c}
  BY <1>2, <1>4 DEF Writing
<1>7. \A p \in User \ {o} : Writing(p)' = {} /\ Writing(p) = {}
  BY <1>2, <1>4 DEF Writing
<1>8. \A d \in Saver : at'[d] # "put"
  BY <1>2
<1> QED BY <1>1, <1>5, <1>6, <1>7, <1>8

(* Pending before and after, for the places the mover goes through.         *)
LEMMA MoverPending ==
  ASSUME SavingInv, SavingInv', NEW c \in Saver, at[c] \in {"put", "mark", "write"},
         at'[c] \in {"mark", "write", "kills"}, \A d \in Saver \ {c} : at'[d] = at[d],
         UNCHANGED <<target, win>>, Calm, Calm',
         NEW o \in User, o = Of(c),
         \A p \in User \ {o} : coin'[p] = coin[p] /\ backup'[p] = backup[p]
  PROVE  /\ at[c] = "put" => Pending(o) = coin[o] - backup[o]
         /\ at[c] = "mark" => Pending(o) = win[c]
         /\ at[c] = "write" => Pending(o) = win[c] + (coin[o] - backup[o])
         /\ at'[c] = "mark" => Pending(o)' = win[c]
         /\ at'[c] = "write" => Pending(o)' = win[c] + (coin'[o] - backup'[o])
         /\ at'[c] = "kills" => Pending(o)' = coin'[o] - backup'[o]
         /\ \A p \in User \ {o} : Pending(p)' = Pending(p)
<1>1. /\ win[c] \in Int
      /\ Writing(o) = IF at[c] = "put" THEN {} ELSE {c}
      /\ Writing(o)' = IF at'[c] = "kills" THEN {} ELSE {c}
      /\ \A p \in User \ {o} : Writing(p)' = {} /\ Writing(p) = {}
  BY MoverAlone
<1>3. PendingAs(o)
  BY <1>1, PendingIs
<1>4. PendingAs(o)'
  BY <1>1, PendingIsNext
<1>5. /\ at[c] = "put" => Pending(o) = coin[o] - backup[o]
      /\ at[c] = "mark" => Pending(o) = win[c]
      /\ at[c] = "write" => Pending(o) = win[c] + (coin[o] - backup[o])
  BY <1>1, <1>3 DEF PendingAs
<1>6. /\ at'[c] = "mark" => Pending(o)' = win[c]
      /\ at'[c] = "write" => Pending(o)' = win[c] + (coin'[o] - backup'[o])
      /\ at'[c] = "kills" => Pending(o)' = coin'[o] - backup'[o]
  BY <1>1, <1>4 DEF PendingAs
<1>7. \A p \in User \ {o} : Pending(p)' = Pending(p)
  BY <1>1, PendingSame
<1> QED BY <1>5, <1>6, <1>7

LEMMA PutCoinCoins ==
  ASSUME SavingInv, SavingInv', CoinsInv, NEW c \in Saver, PutCoin(c)
  PROVE  CoinsInv'
<1>own. PICK o \in User : o = Of(c) /\ state[o] # "none"
  <2>1. at[c] # "idle"
    BY DEF PutCoin
  <2> QED BY <2>1, SaverHasUser
<1>1. /\ UNCHANGED <<balance, state, backup, kills, target, win, deposits, earned, mishaps>>
      /\ coin' = [coin EXCEPT ![o] = read[c] + win[c]]
      /\ at[c] = "put" /\ at' = [at EXCEPT ![c] = "mark"]
  BY <1>own DEF PutCoin, Go, account, play
<1>2. /\ state[o] # "none"
      /\ \A p \in User \ {o} : coin'[p] = coin[p] /\ backup'[p] = backup[p]
  BY <1>1, <1>own DEF SavingInv, TypeOK, TypesUser
<1>moved. at'[c] = "mark" /\ \A d \in Saver \ {c} : at'[d] = at[d]
  BY <1>1 DEF SavingInv, TypeOK, TypesSaving
<1>3. TypesEarned' /\ FreshEmpty'
  BY <1>1, <1>2 DEF CoinsInv, TypesEarned, FreshEmpty
<1>4. CoinsCalm' => CoinsCalm /\ Calm /\ Calm'
  BY <1>1 DEF CoinsCalm, Calm
<1>5. WinWaits'
  BY <1>1, <1>4, <1>own, <1>moved, MoverAlone DEF WinWaits
<1>6. ASSUME CoinsCalm'
      PROVE  /\ Pending(o)' = Pending(o)
             /\ \A p \in User \ {o} : Pending(p)' = Pending(p)
  <2>1. /\ Pending(o) = coin[o] - backup[o] /\ Pending(o)' = win[c]
        /\ \A p \in User \ {o} : Pending(p)' = Pending(p)
    BY <1>1, <1>2, <1>4, <1>6, <1>own, <1>moved, MoverPending
  <2>2. win[c] = coin[o] - backup[o]
    BY <1>own, <1>1, <1>4, <1>6 DEF CoinsInv, WinWaits
  <2> QED BY <2>1, <2>2
<1>7. CoinsKept'
  BY <1>1, <1>2, <1>3, <1>6, CoinsMove DEF TypesEarned
<1> QED BY <1>3, <1>5, <1>7 DEF CoinsInv

LEMMA MarkBackupCoins ==
  ASSUME SavingInv, SavingInv', CoinsInv, NEW c \in Saver, MarkBackup(c)
  PROVE  CoinsInv'
<1>own. PICK o \in User : o = Of(c) /\ state[o] # "none"
  <2>1. at[c] # "idle"
    BY DEF MarkBackup
  <2> QED BY <2>1, SaverHasUser
<1>1. /\ UNCHANGED <<balance, state, coin, kills, target, win, deposits, earned, mishaps>>
      /\ backup' = [backup EXCEPT ![o] = coin[o]]
      /\ at[c] = "mark" /\ at' = [at EXCEPT ![c] = "write"]
  BY <1>own DEF MarkBackup, NewBackup, Go, account, play
<1>2. /\ state[o] # "none" /\ backup'[o] = coin[o] /\ coin[o] \in Int
      /\ win[c] \in Int
      /\ \A p \in User \ {o} : coin'[p] = coin[p] /\ backup'[p] = backup[p]
  BY <1>1, <1>own DEF SavingInv, TypeOK, TypesUser, TypesSaving
<1>moved. at'[c] = "write" /\ \A d \in Saver \ {c} : at'[d] = at[d]
  BY <1>1 DEF SavingInv, TypeOK, TypesSaving
<1>3. TypesEarned' /\ FreshEmpty'
  BY <1>1, <1>2 DEF CoinsInv, TypesEarned, FreshEmpty
<1>4. CoinsCalm' => CoinsCalm /\ Calm /\ Calm'
  BY <1>1 DEF CoinsCalm, Calm
<1>5. WinWaits'
  BY <1>1, <1>4, <1>own, <1>moved, MoverAlone DEF WinWaits
<1>6. ASSUME CoinsCalm'
      PROVE  /\ Pending(o)' = Pending(o)
             /\ \A p \in User \ {o} : Pending(p)' = Pending(p)
  <2>1. /\ at[c] \in {"put", "mark", "write"}
        /\ UNCHANGED <<target, win>> /\ Calm /\ Calm'
    BY <1>1, <1>4, <1>6
  <2>2. /\ Pending(o) = win[c] /\ Pending(o)' = win[c] + (coin'[o] - backup'[o])
        /\ \A p \in User \ {o} : Pending(p)' = Pending(p)
    BY <1>own, <1>moved, <1>1, <1>2, <2>1, MoverPending
  <2> QED BY <1>1, <1>2, <2>2
<1>7. CoinsKept'
  BY <1>1, <1>2, <1>3, <1>6, CoinsMove DEF TypesEarned
<1> QED BY <1>3, <1>5, <1>7 DEF CoinsInv

LEMMA WriteBalanceCoins ==
  ASSUME SavingInv, SavingInv', CoinsInv, NEW c \in Saver, WriteBalance(c)
  PROVE  CoinsInv'
<1>own. PICK o \in User : o = Of(c) /\ state[o] # "none"
  <2>1. at[c] # "idle"
    BY DEF WriteBalance
  <2> QED BY <2>1, SaverHasUser
<1>1. PICK failed \in SUBSET {"balance", "log"} :
        /\ balance' = IF "balance" \in failed THEN balance ELSE NewBalance(c)
        /\ mishaps' = mishaps \cup Met("write-failed", failed # {})
  BY DEF WriteBalance
<1>2. /\ UNCHANGED <<state, coin, backup, kills, target, win, deposits, earned>>
      /\ at[c] = "write" /\ at' = [at EXCEPT ![c] = "kills"]
  BY <1>own DEF WriteBalance, Go, user, play
<1>3. /\ coin[o] \in Int /\ backup[o] \in Int
      /\ win[c] \in Int /\ balance \in Int /\ deposits \in Int /\ earned \in Int
  BY <1>own, <1>2
     DEF SavingInv, TypeOK, TypesAccount, TypesUser, TypesSaving, CoinsInv, TypesEarned
<1>moved. at'[c] = "kills" /\ \A d \in Saver \ {c} : at'[d] = at[d]
  BY <1>2 DEF SavingInv, TypeOK, TypesSaving
<1>4. TypesEarned' /\ FreshEmpty'
  BY <1>2 DEF CoinsInv, TypesEarned, FreshEmpty
<1>5. CoinsCalm' => CoinsCalm /\ Calm /\ Calm' /\ failed = {}
  BY <1>1 DEF CoinsCalm, Calm, Met
<1>6. WinWaits'
  BY <1>2, <1>5, <1>own, <1>moved, MoverAlone DEF WinWaits
<1>7. ASSUME CoinsCalm'
      PROVE  /\ balance' = balance + win[c]
             /\ Pending(o)' = Pending(o) - win[c]
             /\ \A p \in User \ {o} : Pending(p)' = Pending(p)
  <2>1. balance' = balance + win[c]
    <3>1. read[c] = balance
      BY <1>2, <1>5, <1>7 DEF SavingInv, ReadIsBalance, Halfway
    <3> QED BY <1>1, <1>5, <1>7, <3>1 DEF NewBalance
  <2>2. /\ Pending(o) = win[c] + (coin[o] - backup[o])
        /\ Pending(o)' = coin'[o] - backup'[o]
        /\ \A p \in User \ {o} : Pending(p)' = Pending(p)
    BY <1>2, <1>5, <1>7, <1>own, <1>moved, MoverPending
  <2> QED BY <1>2, <1>3, <2>1, <2>2
<1>8. CoinsKept'
  <2>1. Pending(o) \in Int /\ earned' \in Int /\ mishaps \subseteq mishaps'
    BY <1>1, <1>2, <1>3, PendingType
  <2> QED BY <1>2, <1>3, <1>7, <2>1, CoinsMove
<1> QED BY <1>4, <1>6, <1>8 DEF CoinsInv

LEMMA SaveEndsCoins ==
  ASSUME SavingInv, SavingInv', CoinsInv, NEW c \in Saver, NoKills(c) \/ KeepKills(c)
  PROVE  CoinsInv'
<1> USE SavingAssumption
<1>1. /\ UNCHANGED <<balance, coin, backup, deposits, earned>>
      /\ at[c] \in {"kills", "keep"} /\ Finish(c) /\ mishaps \subseteq mishaps'
  BY DEF NoKills, KeepKills, account, play
<1>2. Of(c) \in User /\ state[Of(c)] # "none" /\ (c # "userSave" => Of(c) = c /\ c \in User)
  BY <1>1, SaverHasUser
<1>3. \A p \in User : p # Of(c) => kills'[p] = kills[p]
  BY DEF NoKills, KeepKills, SavingInv, TypeOK, TypesUser
<1>4. /\ at'[c] = "idle"
      /\ \A d \in Saver \ {c} : at'[d] = at[d] /\ win'[d] = win[d]
  BY <1>1 DEF Finish, Go, SavingInv, TypeOK, TypesSaving
<1>5. \A d \in Saver \ {c} : Of(d)' = Of(d)
  BY <1>1 DEF Finish, Of
<1>6. \A p \in User : state'[p] = "none" => state[p] = "none" /\ p # Of(c)
  <2>1. CASE c = "userSave"
    BY <1>1, <1>2, <2>1 DEF Finish
  <2>2. CASE c # "userSave"
    <3>1. state' = [state EXCEPT ![c] = "freed"]
      BY <1>1, <2>2 DEF Finish, Destory
    <3> QED BY <1>2, <2>2, <3>1 DEF SavingInv, TypeOK, TypesUser
  <2> QED BY <2>1, <2>2
<1> HIDE DEF Finish
<1> QED BY <1>1, <1>3, <1>4, <1>5, <1>6, CoinsFrame

LEMMA CoinsStep == SavingInv /\ SavingInv' /\ CoinsInv /\ [Next]_vars => CoinsInv'
<1> SUFFICES ASSUME SavingInv, SavingInv', CoinsInv, [Next]_vars PROVE CoinsInv'
  OBVIOUS
<1>1. CASE UNCHANGED <<account, user, saving, play, mishaps>>
  <2>1. UNCHANGED <<balance, deposits, earned, state, coin, backup, kills, at, target,
                    win, mishaps>>
    BY <1>1 DEF account, user, saving, play
  <2>2. \A c \in Saver : Of(c)' = Of(c)
    BY <2>1 DEF Of
  <2> QED BY <2>1, <2>2, CoinsFrame
<1>2. CASE UNCHANGED vars
  BY <1>1, <1>2 DEF vars
<1>3. ASSUME NEW o \in User, Load(o) \/ Leave(o) \/ UserSave(o)
      PROVE  CoinsInv'
  BY <1>3, LoadCoins, LeaveCoins, UserSaveCoins
<1>4. ASSUME NEW o \in User, NEW gain \in {-1, 1}, Play(o, gain)
      PROVE  CoinsInv'
  BY <1>4, PlayCoins
<1>5. CASE Deposit
  BY <1>5, DepositCoins
<1>6. CASE Exit
  BY <1>6, ExitCoins
<1>7. ASSUME NEW c \in Saver, Save(c)
      PROVE  CoinsInv'
  BY <1>7, SaveBeginsCoins, TakeWinCoins, PutCoinCoins, MarkBackupCoins,
     WriteBalanceCoins, SaveEndsCoins DEF Save
<1>8. CASE SaveFreed
  BY <1>1, <1>8 DEF SaveFreed
<1> QED BY <1>2, <1>3, <1>4, <1>5, <1>6, <1>7, <1>8 DEF Next, Others, SaveThread

THEOREM CoinsSafe == Spec => []CoinsInv
BY SavingSafe, CoinsInit, CoinsStep, PTL DEF Spec

(* Every coin earned or paid in is in the account or on its way there, for   *)
(* any number of User objects of one account (user.hpp:31, 258).            *)
THEOREM CoinsAlwaysKept == Spec => []CoinsKept
<1>1. CoinsInv => CoinsKept
  BY DEF CoinsInv
<1> QED BY <1>1, CoinsSafe, PTL

----------------------------------------------------------------------------
(* The kills: a third invariant.                                           *)

KillsCalm == mishaps \cap {"again", "shared", "played", "write-failed"} = {}

(* The first entry is a row's, or new.                                     *)
FirstIsRow ==
  /\ killed \in Int
  /\ \A o \in User : kills[o] # <<>> => kills[o][1].id \in {0} \cup DOMAIN rows

(* An entry without a change is as its row.                                *)
RowsRead ==
  KillsCalm => \A o \in User :
    state[o] # "freed" /\ kills[o] # <<>> /\ kills[o][1].id # 0 /\ ~kills[o][1].changed
      => kills[o][1].value = rows[kills[o][1].id]

(* The count in the text of a query is still that of the entry, which is      *)
(* still marked, and nobody else has it.                                   *)
CountWaits ==
  KillsCalm =>
    /\ \A c \in Saver : at[c] = "keep" =>
         Marked(Of(c)) /\ count[c] = kills[Of(c)][1].value
    /\ \A c, d \in Saver : at[c] = "keep" /\ at[d] = "keep" /\ Of(c) = Of(d) => c = d

KillsInv == FirstIsRow /\ RowsRead /\ CountWaits /\ KillsKept

UncountedSum == SumFunction([o \in User |-> Uncounted(o)])

LEMMA EntryTypes ==
  ASSUME SavingInv, NEW o \in User, kills[o] # <<>>
  PROVE  kills[o][1].id \in Nat /\ kills[o][1].value \in Int /\ kills[o][1].changed \in BOOLEAN
<1>1. kills[o] \in Seq(Entry)
  BY DEF SavingInv, TypeOK, TypesUser
<1>2. kills[o][1] \in Entry
  BY <1>1
<1> QED BY <1>2 DEF Entry

LEMMA UncountedType == SavingInv /\ FirstIsRow => \A o \in User : Uncounted(o) \in Int
<1> SUFFICES ASSUME SavingInv, FirstIsRow, NEW o \in User PROVE Uncounted(o) \in Int
  OBVIOUS
<1>1. CASE ~Marked(o)
  BY <1>1 DEF Uncounted
<1>2. CASE Marked(o)
  <2> DEFINE first == kills[o][1]
  <2>1. kills[o] # <<>> /\ first.value \in Int
    BY <1>2, EntryTypes DEF Marked
  <2>2. first.id # 0 => rows[first.id] \in Int
    <3>1. rows \in Seq(Int) /\ (first.id # 0 => first.id \in DOMAIN rows)
      BY <2>1 DEF FirstIsRow, SavingInv, TypeOK, TypesAccount
    <3> QED BY <3>1
  <2>3. Uncounted(o) = IF first.id = 0 THEN first.value ELSE first.value - rows[first.id]
    BY <1>2 DEF Uncounted
  <2> HIDE DEF first
  <2> QED BY <2>1, <2>2, <2>3
<1> QED BY <1>1, <1>2

LEMMA UncountedSumType == ASSUME SavingInv, FirstIsRow PROVE UncountedSum \in Int
<1> DEFINE f == [o \in User |-> Uncounted(o)]
<1>1. \A o \in User : f[o] \in Int
  BY UncountedType
<1>2. UncountedSum = SumFunctionOnSet(f, User)
  BY DEF UncountedSum, SumFunction
<1> HIDE DEF f
<1> QED BY <1>1, <1>2, SavingAssumption, SumType

LEMMA UncountedSumMoves ==
  ASSUME SavingInv, SavingInv', FirstIsRow, FirstIsRow', NEW x \in User,
         \A o \in User \ {x} : Uncounted(o)' = Uncounted(o)
  PROVE  UncountedSum' = UncountedSum + Uncounted(x)' - Uncounted(x)
<1> DEFINE f == [o \in User |-> Uncounted(o)]
           g == [o \in User |-> Uncounted(o)']
<1>1. f \in [User -> Int] /\ g \in [User -> Int]
  <2>1. (\A o \in User : Uncounted(o) \in Int)'
    BY UncountedType, PTL
  <2> QED BY <2>1, UncountedType
<1>2. \A o \in User \ {x} : g[o] = f[o]
  OBVIOUS
<1>3. f[x] = Uncounted(x) /\ g[x] = Uncounted(x)'
  OBVIOUS
<1>4. UncountedSum = SumFunction(f) /\ UncountedSum' = SumFunction(g)
  BY DEF UncountedSum
<1> HIDE DEF f, g
<1> QED BY <1>1, <1>2, <1>3, <1>4, SavingAssumption, SumChanged

LEMMA RowsSumType == ASSUME SavingInv PROVE SumFunction(rows) \in Int
<1>1. rows \in Seq(Int) /\ DOMAIN rows = 1 .. Len(rows) /\ Len(rows) \in Nat
  BY DEF SavingInv, TypeOK, TypesAccount
<1>2. \A i \in DOMAIN rows : rows[i] \in Int
  BY <1>1
<1>3. IsFiniteSet(DOMAIN rows)
  BY <1>1, FS_Interval
<1> QED BY <1>2, <1>3, SumType DEF SumFunction

----------------------------------------------------------------------------
(* Steps that neither count nor save a count.                              *)
LEMMA KillsFrame ==
  ASSUME KillsInv, mishaps \subseteq mishaps', UNCHANGED <<rows, kills, killed>>,
         \A o \in User : state'[o] # "freed" => state[o] # "freed",
         \A c \in Saver : at'[c] = "keep" =>
           at[c] = "keep" /\ Of(c)' = Of(c) /\ count'[c] = count[c]
  PROVE  KillsInv'
<1>1. KillsCalm' => KillsCalm
  BY DEF KillsCalm
<1>2. FirstIsRow'
  BY DEF KillsInv, FirstIsRow
<1>3. RowsRead'
  BY <1>1 DEF KillsInv, RowsRead
<1>4. CountWaits'
  <2> SUFFICES ASSUME KillsCalm'
               PROVE  /\ \A c \in Saver : at'[c] = "keep" =>
                           Marked(Of(c))' /\ count'[c] = kills[Of(c)'][1].value
                      /\ \A c, d \in Saver :
                           at'[c] = "keep" /\ at'[d] = "keep" /\ Of(c)' = Of(d)' => c = d
    BY DEF CountWaits
  <2> QED BY <1>1 DEF KillsInv, CountWaits, Marked
<1>5. KillsKept'
  <2>1. \A o \in User : Uncounted(o)' = Uncounted(o)
    BY DEF Uncounted, Marked
  <2>2. UncountedSum' = UncountedSum
    BY <2>1 DEF UncountedSum
  <2> QED BY <2>2 DEF KillsInv, KillsKept, UncountedSum
<1> QED BY <1>2, <1>3, <1>4, <1>5 DEF KillsInv

LEMMA KillsInit == Init => KillsInv
<1> SUFFICES ASSUME Init PROVE KillsInv
  OBVIOUS
<1> USE SavingAssumption DEF Init, NoUsers, Idle
<1>1. FirstIsRow /\ RowsRead /\ CountWaits
  BY DEF FirstIsRow, RowsRead, CountWaits
<1>2. UncountedSum = 0
  <2>1. \A o \in User : Uncounted(o) = 0
    BY DEF Uncounted, Marked
  <2> QED BY <2>1, SumZero DEF UncountedSum
<1>3. SumFunction(rows) = 0
  <2>1. DOMAIN rows = {}
    OBVIOUS
  <2> QED BY <2>1, FS_EmptySet, SumSteps DEF SumFunction
<1>4. KillsKept
  BY <1>2, <1>3 DEF KillsKept, UncountedSum
<1> QED BY <1>1, <1>4 DEF KillsInv

LEMMA ExitKills ==
  ASSUME SavingInv, KillsInv, Exit
  PROVE  KillsInv'
<1> USE SavingAssumption
<1>1. /\ kills' = NoUsers.kills /\ at' = Idle.at /\ UNCHANGED rows
      /\ killed' = killed - UncountedSum
      /\ mishaps \subseteq mishaps'
  BY DEF Exit, UncountedSum
<1>2. UncountedSum \in Int /\ SumFunction(rows) \in Int /\ killed \in Int
  BY UncountedSumType, RowsSumType DEF KillsInv, FirstIsRow
<1>3. FirstIsRow'
  BY <1>1, <1>2 DEF FirstIsRow, NoUsers
<1>4. RowsRead'
  BY <1>1 DEF RowsRead, NoUsers
<1>5. CountWaits'
  BY <1>1 DEF CountWaits, Idle
<1>6. UncountedSum' = 0
  <2>1. \A o \in User : Uncounted(o)' = 0
    BY <1>1 DEF Uncounted, Marked, NoUsers
  <2> QED BY <2>1, SumZero DEF UncountedSum
<1>7. KillsKept'
  <2> SUFFICES ASSUME KillsCalm' PROVE SumFunction(rows) + UncountedSum' = killed'
    BY <1>1 DEF KillsKept, KillsCalm, UncountedSum
  <2>1. SumFunction(rows) + UncountedSum = killed
    BY <1>1 DEF KillsInv, KillsKept, KillsCalm, UncountedSum
  <2> QED BY <1>1, <1>2, <1>6, <2>1
<1> QED BY <1>3, <1>4, <1>5, <1>7 DEF KillsInv

LEMMA LoadKills ==
  ASSUME SavingInv, FreshEmpty, KillsInv, NEW x \in User, Load(x)
  PROVE  KillsInv'
<1>1. /\ UNCHANGED <<rows, killed, mishaps, at, target, count>>
      /\ state[x] = "none" /\ state' = [state EXCEPT ![x] = "slot"]
  BY DEF Load, account, saving, play
<1>2. PICK failed \in SUBSET {"coin", "kills"} :
        kills' = [kills EXCEPT ![x] = DbKills("kills" \in failed)]
  BY DEF Load
<1> DEFINE list == DbKills("kills" \in failed)
<1>3. /\ \A o \in User \ {x} : kills'[o] = kills[o] /\ state'[o] = state[o]
      /\ kills'[x] = list
  BY <1>1, <1>2 DEF SavingInv, TypeOK, TypesUser
<1>4. list # <<>> =>
        /\ 1 \in DOMAIN rows
        /\ list[1] = [id |-> 1, value |-> rows[1], changed |-> FALSE]
  <2>1. rows \in Seq(Int)
    BY DEF SavingInv, TypeOK, TypesAccount
  <2>2. CASE rows = <<>>
    BY <2>1, <2>2 DEF DbKills
  <2>3. CASE rows # <<>>
    <3>1. 1 \in DOMAIN rows
      BY <2>1, <2>3
    <3> QED BY <3>1 DEF DbKills
  <2> QED BY <2>2, <2>3
<1> HIDE DEF list
<1>5. FirstIsRow'
  BY <1>1, <1>3, <1>4 DEF KillsInv, FirstIsRow
<1>6. RowsRead'
  BY <1>1, <1>3, <1>4 DEF KillsInv, RowsRead, KillsCalm
<1>7. CountWaits'
  <2>1. \A c \in Saver : at[c] = "keep" => Of(c) \in User \ {x} /\ Of(c)' = Of(c)
    BY <1>1, SaverHasUser DEF Of
  <2> QED BY <1>1, <1>3, <2>1 DEF KillsInv, CountWaits, KillsCalm, Marked
<1>8. KillsKept'
  <2>1. \A o \in User : Uncounted(o)' = Uncounted(o)
    <3>1. \A o \in User \ {x} : Uncounted(o)' = Uncounted(o)
      BY <1>1, <1>3 DEF Uncounted, Marked
    <3>2. ~Marked(x) /\ ~Marked(x)'
      BY <1>1, <1>3, <1>4 DEF FreshEmpty, Marked
    <3> QED BY <3>1, <3>2 DEF Uncounted
  <2>2. UncountedSum' = UncountedSum
    BY <2>1 DEF UncountedSum
  <2> QED BY <1>1, <2>2 DEF KillsInv, KillsKept, UncountedSum
<1> QED BY <1>5, <1>6, <1>7, <1>8 DEF KillsInv

(* A kill makes the first entry, or adds one to it, and marks it.            *)
LEMMA KillFishFirst ==
  ASSUME SavingInv, NEW o \in User
  PROVE  LET new == KillFish(kills[o])[1] IN
         /\ KillFish(kills[o]) # <<>> /\ new.changed
         /\ kills[o] = <<>> => new.id = 0 /\ new.value = 1
         /\ kills[o] # <<>> => new.id = kills[o][1].id /\ new.value = kills[o][1].value + 1
<1> DEFINE list == kills[o]
<1>1. list \in Seq(Entry)
  BY DEF SavingInv, TypeOK, TypesUser
<1>2. CASE list = <<>>
  BY <1>2 DEF KillFish
<1>3. CASE list # <<>>
  <2> DEFINE first == list[1]
             new == [first EXCEPT !.value = @ + 1, !.changed = TRUE]
  <2>1. first \in Entry /\ 1 \in DOMAIN list
    BY <1>1, <1>3
  <2>2. new.id = first.id /\ new.value = first.value + 1 /\ new.changed
    BY <2>1 DEF Entry
  <2>3. KillFish(list) = [list EXCEPT ![1] = new]
    BY <1>3, <2>1 DEF KillFish, Entry
  <2> HIDE DEF new
  <2>4. KillFish(list)[1] = new /\ DOMAIN KillFish(list) = DOMAIN list
    BY <1>1, <2>1, <2>3
  <2> QED BY <1>3, <2>1, <2>2, <2>4
<1> QED BY <1>2, <1>3

LEMMA PlayKills ==
  ASSUME SavingInv, SavingInv', KillsInv, NEW x \in User, NEW gain \in {-1, 1}, Play(x, gain)
  PROVE  KillsInv'
<1> DEFINE list == kills[x]
           keeping == \E c \in Saver : at[c] \in {"keep"} /\ Of(c) = x
           saved == list # <<>> /\ list[1].id = 0 /\ ~list[1].changed
<1>1. /\ UNCHANGED <<rows, state, at, target, count>>
      /\ state[x] = "slot"
      /\ kills' = IF gain > 0 THEN [kills EXCEPT ![x] = KillFish(list)] ELSE kills
      /\ killed' = IF gain > 0 THEN killed + 1 ELSE killed
      /\ mishaps \subseteq mishaps'
  BY DEF Play, account, saving
<1>2. gain > 0 => /\ keeping => "played" \in mishaps'
                  /\ saved => "again" \in mishaps'
  BY DEF Play, Met
<1>3. \A c \in Saver : Of(c)' = Of(c)
  BY <1>1 DEF Of
<1>4. CASE gain < 0
  <2>1. UNCHANGED <<kills, killed>>
    BY <1>1, <1>4
  <2> QED BY <1>1, <1>3, <2>1, KillsFrame
<1>5. CASE gain > 0
  <2>1. /\ kills'[x] = KillFish(list) /\ killed' = killed + 1
        /\ \A o \in User \ {x} : kills'[o] = kills[o]
    BY <1>1, <1>5 DEF SavingInv, TypeOK, TypesUser
  <2>2. KillsCalm' => KillsCalm /\ ~keeping /\ ~saved
    BY <1>1, <1>2, <1>5 DEF KillsCalm
  <2>3. /\ kills'[x] # <<>> /\ kills'[x][1].changed
        /\ list = <<>> => kills'[x][1].id = 0 /\ kills'[x][1].value = 1
        /\ list # <<>> => /\ kills'[x][1].id = list[1].id
                          /\ kills'[x][1].value = list[1].value + 1
    BY <2>1, KillFishFirst
  <2> HIDE DEF keeping, saved
  <2>4. FirstIsRow'
    <3>1. killed' \in Int
      BY <2>1 DEF KillsInv, FirstIsRow
    <3>2. ASSUME NEW o \in User, kills'[o] # <<>>
          PROVE  kills'[o][1].id \in {0} \cup DOMAIN rows
      BY <2>1, <2>3, <3>2 DEF KillsInv, FirstIsRow
    <3> QED BY <1>1, <3>1, <3>2 DEF FirstIsRow
  <2>5. RowsRead'
    BY <1>1, <2>1, <2>2, <2>3 DEF KillsInv, RowsRead
  <2>6. CountWaits'
    <3>1. ASSUME KillsCalm' PROVE \A c \in Saver : at[c] = "keep" => Of(c) \in User \ {x}
      BY <2>2, <3>1, SaverHasUser DEF keeping
    <3> QED BY <1>1, <1>3, <2>1, <2>2, <3>1 DEF KillsInv, CountWaits, Marked
  <2>7. ASSUME KillsCalm' PROVE Uncounted(x)' = Uncounted(x) + 1
    <3> DEFINE new == kills'[x][1]
    <3>1. Uncounted(x)' = IF new.id = 0 THEN new.value ELSE new.value - rows[new.id]
      BY <1>1, <2>3 DEF Uncounted, Marked
    <3>2. CASE list = <<>>
      <4>1. Uncounted(x) = 0
        BY <3>2 DEF Uncounted, Marked
      <4> QED BY <2>3, <3>1, <3>2, <4>1
    <3>3. CASE list # <<>>
      <4> DEFINE first == list[1]
      <4>1. new.id = first.id /\ new.value = first.value + 1
        BY <2>3, <3>3
      <4>2. first.value \in Int /\ first.changed \in BOOLEAN
        BY <3>3, EntryTypes
      <4>3. first.id # 0 => rows[first.id] \in Int
        <5>1. rows \in Seq(Int) /\ (first.id # 0 => first.id \in DOMAIN rows)
          BY <3>3 DEF KillsInv, FirstIsRow, SavingInv, TypeOK, TypesAccount
        <5> QED BY <5>1
      <4>4. Uncounted(x) = IF first.id = 0 THEN first.value ELSE first.value - rows[first.id]
        <5>1. CASE first.changed
          BY <3>3, <5>1 DEF Uncounted, Marked
        <5>2. CASE ~first.changed
          <6>1. first.id # 0 /\ first.value = rows[first.id]
            BY <1>1, <2>2, <2>7, <3>3, <5>2 DEF saved, KillsInv, RowsRead
          <6>2. Uncounted(x) = 0
            BY <5>2 DEF Uncounted, Marked
          <6> HIDE DEF first
          <6> QED BY <4>2, <6>1, <6>2
        <5> QED BY <5>1, <5>2
      <4> HIDE DEF new, first
      <4> QED BY <3>1, <4>1, <4>2, <4>3, <4>4
    <3> QED BY <3>2, <3>3
  <2>8. \A o \in User \ {x} : Uncounted(o)' = Uncounted(o)
    BY <1>1, <2>1 DEF Uncounted, Marked
  <2>9. KillsKept'
    <3> SUFFICES ASSUME KillsCalm' PROVE SumFunction(rows) + UncountedSum' = killed'
      BY <1>1 DEF KillsKept, KillsCalm, UncountedSum
    <3>1. SumFunction(rows) + UncountedSum = killed
      BY <2>2 DEF KillsInv, KillsKept, KillsCalm, UncountedSum
    <3>2. UncountedSum' = UncountedSum + Uncounted(x)' - Uncounted(x)
      BY <2>4, <2>8, UncountedSumMoves DEF KillsInv
    <3>3. /\ UncountedSum \in Int /\ SumFunction(rows) \in Int /\ Uncounted(x) \in Int
          /\ killed \in Int
      BY UncountedSumType, RowsSumType, UncountedType DEF KillsInv, FirstIsRow
    <3> QED BY <2>1, <2>7, <3>1, <3>2, <3>3
  <2> QED BY <2>4, <2>5, <2>6, <2>9 DEF KillsInv
<1> QED BY <1>4, <1>5

LEMMA FormatKillsKills ==
  ASSUME SavingInv, KillsInv, NEW c \in Saver, FormatKills(c)
  PROVE  KillsInv'
<1>1. /\ UNCHANGED <<rows, kills, killed, state, target>>
      /\ at[c] = "kills" /\ Marked(Of(c))
      /\ count' = [count EXCEPT ![c] = kills[Of(c)][1].value]
      /\ at' = [at EXCEPT ![c] = "keep"]
      /\ mishaps \subseteq mishaps'
  BY DEF FormatKills, Go, account, user, play
<1>2. KillsCalm' => \A d \in Saver \ {c} : at[d] = "keep" => Of(d) # Of(c)
  BY DEF FormatKills, Met, KillsCalm
<1>3. /\ at'[c] = "keep" /\ count'[c] = kills[Of(c)][1].value
      /\ \A d \in Saver \ {c} : at'[d] = at[d] /\ count'[d] = count[d]
      /\ \A d \in Saver : Of(d)' = Of(d)
  BY <1>1 DEF SavingInv, TypeOK, TypesSaving, Of
<1>4. KillsCalm' => KillsCalm
  BY <1>1 DEF KillsCalm
<1>5. FirstIsRow' /\ RowsRead'
  BY <1>1, <1>4 DEF KillsInv, FirstIsRow, RowsRead
<1>6. CountWaits'
  <2> SUFFICES ASSUME KillsCalm'
               PROVE  /\ \A d \in Saver : at'[d] = "keep" =>
                           Marked(Of(d)) /\ count'[d] = kills[Of(d)][1].value
                      /\ \A d, e \in Saver :
                           at'[d] = "keep" /\ at'[e] = "keep" /\ Of(d) = Of(e) => d = e
    BY <1>1, <1>3 DEF CountWaits, Marked
  <2> QED BY <1>1, <1>2, <1>3, <1>4 DEF KillsInv, CountWaits
<1>7. KillsKept'
  <2>1. \A o \in User : Uncounted(o)' = Uncounted(o)
    BY <1>1 DEF Uncounted, Marked
  <2>2. UncountedSum' = UncountedSum
    BY <2>1 DEF UncountedSum
  <2> QED BY <1>1, <2>2 DEF KillsInv, KillsKept, UncountedSum
<1> QED BY <1>5, <1>6, <1>7 DEF KillsInv

(* The rows after a count has been kept.                                    *)
LEMMA RowsKept ==
  ASSUME SavingInv, NEW id \in {0} \cup DOMAIN rows, NEW n \in Int
  PROVE  /\ DOMAIN rows \subseteq DOMAIN RowsAfter(id, n)
         /\ \A i \in DOMAIN rows \ {id} : RowsAfter(id, n)[i] = rows[i]
         /\ id # 0 => RowsAfter(id, n)[id] = n
         /\ SumFunction(RowsAfter(id, n)) =
              SumFunction(rows) + n - IF id = 0 THEN 0 ELSE rows[id]
<1>1. /\ rows \in Seq(Int) /\ DOMAIN rows = 1 .. Len(rows) /\ Len(rows) \in Nat
      /\ 0 \notin DOMAIN rows /\ SumFunction(rows) \in Int
  BY RowsSumType DEF SavingInv, TypeOK, TypesAccount
<1>2. CASE id = 0
  <2> DEFINE longer == Append(rows, n)
  <2>1. RowsAfter(id, n) = longer
    BY <1>2 DEF RowsAfter
  <2>2. /\ DOMAIN rows \subseteq DOMAIN longer
        /\ \A i \in DOMAIN rows : longer[i] = rows[i]
    BY <1>1
  <2>3. SumFunction(longer) = SumFunction(rows) + n
    BY <1>1, SumAppended
  <2> HIDE DEF longer
  <2> QED BY <1>1, <1>2, <2>1, <2>2, <2>3
<1>3. CASE id # 0
  <2> DEFINE put == [rows EXCEPT ![id] = n]
             I == 1 .. Len(rows)
  <2>1. RowsAfter(id, n) = put
    BY <1>3 DEF RowsAfter
  <2>2. /\ rows \in [I -> Int] /\ put \in [I -> Int] /\ id \in I /\ put[id] = n
        /\ \A i \in I \ {id} : put[i] = rows[i]
        /\ DOMAIN rows = I /\ DOMAIN put = I
    BY <1>1, <1>3
  <2>3. IsFiniteSet(I)
    BY <1>1, FS_Interval
  <2> HIDE DEF put, I
  <2>4. SumFunction(put) = SumFunction(rows) + put[id] - rows[id]
    BY <2>2, <2>3, SumChanged
  <2>5. SumFunction(put) = SumFunction(rows) + n - rows[id]
    BY <2>2, <2>4
  <2> QED BY <1>3, <2>1, <2>2, <2>5
<1> QED BY <1>2, <1>3

LEMMA KeepKillsKills ==
  ASSUME SavingInv, SavingInv', KillsInv, NEW c \in Saver, KeepKills(c)
  PROVE  KillsInv'
<1>1. PICK o \in User : o = Of(c) /\ kills[o] # <<>>
  <2>1. at[c] = "keep"
    BY DEF KeepKills
  <2> QED BY <2>1, SaverHasUser DEF SavingInv, KeepHasEntry
<1> DEFINE id == kills[o][1].id
           kept == [kills[o] EXCEPT ![1].changed = FALSE]
<1>2. PICK failed \in BOOLEAN :
        /\ rows' = IF failed THEN rows ELSE RowsAfter(id, count[c])
        /\ mishaps' = mishaps \cup Met("write-failed", failed)
                              \cup Met("shared", id # 0 /\ Shared(o, id))
  BY <1>1 DEF KeepKills
<1>3. /\ at[c] = "keep" /\ UNCHANGED killed
      /\ kills' = [kills EXCEPT ![o] = kept]
      /\ Finish(c)
  BY <1>1 DEF KeepKills, play
<1>4. /\ at'[c] = "idle"
      /\ \A d \in Saver \ {c} : at'[d] = at[d] /\ count'[d] = count[d] /\ Of(d)' = Of(d)
      /\ \A p \in User : state'[p] # "freed" => state[p] # "freed"
  <2>1. /\ at'[c] = "idle"
        /\ \A d \in Saver \ {c} : at'[d] = at[d] /\ count'[d] = count[d] /\ Of(d)' = Of(d)
    BY <1>3 DEF Finish, Go, Of, SavingInv, TypeOK, TypesSaving
  <2>2. \A p \in User : state'[p] # "freed" => state[p] # "freed"
    BY <1>3 DEF Finish, Destory, SavingInv, TypeOK, TypesUser
  <2> QED BY <2>1, <2>2
<1>5. /\ id \in {0} \cup DOMAIN rows /\ count[c] \in Int
      /\ kills[o][1].value \in Int
      /\ 1 \in DOMAIN kills[o]
  <2>1. id \in {0} \cup DOMAIN rows
    BY <1>1 DEF KillsInv, FirstIsRow
  <2>2. kills[o][1].value \in Int
    BY <1>1, EntryTypes
  <2>3. kills[o] \in Seq(Entry) /\ count[c] \in Int
    BY DEF SavingInv, TypeOK, TypesSaving, TypesUser
  <2>4. 1 \in DOMAIN kills[o]
    BY <1>1, <2>3
  <2> QED BY <2>1, <2>2, <2>3, <2>4
<1>6. /\ kept # <<>> /\ kept[1].id = id /\ kept[1].value = kills[o][1].value
      /\ ~kept[1].changed
  <2> DEFINE first == kills[o][1]
             new == [first EXCEPT !.changed = FALSE]
  <2>1. kills[o] \in Seq(Entry) /\ first \in Entry
    BY <1>5 DEF SavingInv, TypeOK, TypesUser
  <2>2. new.id = first.id /\ new.value = first.value /\ ~new.changed
    BY <2>1 DEF Entry
  <2>3. kept = [kills[o] EXCEPT ![1] = new]
    BY <1>5, <2>1
  <2> HIDE DEF new, kept
  <2>4. kept[1] = new /\ DOMAIN kept = DOMAIN kills[o]
    BY <1>5, <2>1, <2>3
  <2> QED BY <1>5, <2>1, <2>2, <2>4
<1> HIDE DEF kept, Finish
<1>7. /\ kills'[o] = kept /\ \A p \in User \ {o} : kills'[p] = kills[p]
  BY <1>3 DEF SavingInv, TypeOK, TypesUser
<1>8. KillsCalm' => /\ KillsCalm /\ ~failed /\ (id # 0 => ~Shared(o, id))
                    /\ Marked(o) /\ count[c] = kills[o][1].value
                    /\ \A d \in Saver \ {c} : at[d] = "keep" => Of(d) # o
  <2>1. KillsCalm' => KillsCalm /\ ~failed /\ (id # 0 => ~Shared(o, id))
    BY <1>2 DEF KillsCalm, Met
  <2> QED BY <1>1, <1>3, <2>1 DEF KillsInv, CountWaits
<1> DEFINE after == RowsAfter(id, count[c])
<1>9. /\ DOMAIN rows \subseteq DOMAIN after
      /\ \A i \in DOMAIN rows \ {id} : after[i] = rows[i]
      /\ id # 0 => after[id] = count[c]
      /\ SumFunction(after) = SumFunction(rows) + count[c] - IF id = 0 THEN 0 ELSE rows[id]
  BY <1>5, RowsKept
<1> HIDE DEF after
<1>10. rows' = IF failed THEN rows ELSE after
  BY <1>2 DEF after
<1>11. FirstIsRow'
  <2>1. DOMAIN rows \subseteq DOMAIN rows'
    BY <1>9, <1>10
  <2>2. ASSUME NEW p \in User, kills'[p] # <<>>
        PROVE  kills'[p][1].id \in {0} \cup DOMAIN rows
    <3>1. CASE p = o
      BY <1>5, <1>6, <1>7, <3>1
    <3>2. CASE p # o
      BY <1>7, <2>2, <3>2 DEF KillsInv, FirstIsRow
    <3> QED BY <3>1, <3>2
  <2> QED BY <1>3, <2>1, <2>2 DEF KillsInv, FirstIsRow
(* What another User has counted in, if it still has a say, is not touched. *)
<1>12. ASSUME KillsCalm', NEW p \in User \ {o}, state[p] # "freed", kills[p] # <<>>,
              kills[p][1].id # 0
       PROVE  rows'[kills[p][1].id] = rows[kills[p][1].id]
  <2>1. kills[p][1].id \in DOMAIN rows
    BY <1>12 DEF KillsInv, FirstIsRow
  <2>2. id # 0 => kills[p][1].id # id
    <3>1. 1 \in DOMAIN kills[p]
      BY <1>12 DEF SavingInv, TypeOK, TypesUser
    <3> QED BY <1>8, <1>12, <3>1 DEF Shared
  <2>3. rows' = after
    BY <1>8, <1>10, <1>12
  <2> QED BY <1>9, <1>12, <2>1, <2>2, <2>3
<1>13. RowsRead'
  <2> SUFFICES ASSUME KillsCalm', NEW p \in User, state'[p] # "freed", kills'[p] # <<>>,
                      kills'[p][1].id # 0, ~kills'[p][1].changed
               PROVE  kills'[p][1].value = rows'[kills'[p][1].id]
    BY DEF RowsRead
  <2>1. CASE p = o
    BY <1>6, <1>7, <1>8, <1>9, <1>10, <2>1
  <2>2. CASE p # o
    <3>1. kills'[p] = kills[p] /\ state[p] # "freed"
      BY <1>4, <1>7, <2>2
    <3>2. kills[p][1].value = rows[kills[p][1].id]
      BY <1>8, <3>1 DEF KillsInv, RowsRead
    <3> QED BY <1>12, <2>2, <3>1, <3>2
  <2> QED BY <2>1, <2>2
<1>14. CountWaits'
  <2> SUFFICES ASSUME KillsCalm'
               PROVE  /\ \A d \in Saver : at'[d] = "keep" =>
                           Marked(Of(d))' /\ count'[d] = kills'[Of(d)'][1].value
                      /\ \A d, e \in Saver :
                           at'[d] = "keep" /\ at'[e] = "keep" /\ Of(d)' = Of(e)' => d = e
    BY DEF CountWaits
  <2>1. ASSUME NEW d \in Saver, at'[d] = "keep"
        PROVE  /\ d # c /\ at[d] = "keep" /\ Of(d)' = Of(d) /\ count'[d] = count[d]
               /\ kills'[Of(d)] = kills[Of(d)]
    <3>1. d # c /\ at[d] = "keep" /\ Of(d)' = Of(d) /\ count'[d] = count[d]
      BY <1>4, <2>1
    <3>2. Of(d) \in User \ {o}
      BY <1>8, <3>1, SaverHasUser
    <3> QED BY <1>7, <3>1, <3>2
  <2>2. \A d \in Saver : at'[d] = "keep" =>
          Marked(Of(d))' /\ count'[d] = kills'[Of(d)'][1].value
    <3> TAKE d \in Saver
    <3> HAVE at'[d] = "keep"
    <3>1. Marked(Of(d)) /\ count[d] = kills[Of(d)][1].value
      BY <1>8, <2>1 DEF KillsInv, CountWaits
    <3> QED BY <2>1, <3>1 DEF Marked
  <2>3. \A d, e \in Saver : at'[d] = "keep" /\ at'[e] = "keep" /\ Of(d)' = Of(e)' => d = e
    BY <1>8, <2>1 DEF KillsInv, CountWaits
  <2> QED BY <2>2, <2>3
<1>15. KillsKept'
  <2> SUFFICES ASSUME KillsCalm' PROVE SumFunction(rows') + UncountedSum' = killed'
    BY DEF KillsKept, KillsCalm, UncountedSum
  <2>1. SumFunction(rows) + UncountedSum = killed
    BY <1>8 DEF KillsInv, KillsKept, KillsCalm, UncountedSum
  <2>2. Uncounted(o)' = 0
    BY <1>6, <1>7 DEF Uncounted, Marked
  <2>3. Uncounted(o) = count[c] - IF id = 0 THEN 0 ELSE rows[id]
    BY <1>5, <1>8 DEF Uncounted
  <2>4. ASSUME NEW p \in User \ {o} PROVE Uncounted(p)' = Uncounted(p)
    <3>1. kills'[p] = kills[p]
      BY <1>7
    <3>2. CASE Marked(p) /\ kills[p][1].id # 0
      <4>1. state[p] # "freed" /\ kills[p] # <<>>
        BY <3>2 DEF SavingInv, LeaverSaved, Marked
      <4>2. rows'[kills[p][1].id] = rows[kills[p][1].id]
        BY <1>12, <3>2, <4>1
      <4> QED BY <3>1, <3>2, <4>2 DEF Uncounted, Marked
    <3>3. CASE ~(Marked(p) /\ kills[p][1].id # 0)
      BY <3>1, <3>3 DEF Uncounted, Marked
    <3> QED BY <3>2, <3>3
  <2>5. UncountedSum' = UncountedSum + Uncounted(o)' - Uncounted(o)
    BY <1>11, <2>4, UncountedSumMoves DEF KillsInv
  <2>6. SumFunction(rows') = SumFunction(rows) + count[c] - IF id = 0 THEN 0 ELSE rows[id]
    BY <1>8, <1>9, <1>10
  <2>7. /\ UncountedSum \in Int /\ SumFunction(rows) \in Int /\ killed \in Int
        /\ (id # 0 => rows[id] \in Int)
    <3>1. rows \in Seq(Int)
      BY DEF SavingInv, TypeOK, TypesAccount
    <3> QED BY <1>5, <3>1, UncountedSumType, RowsSumType DEF KillsInv, FirstIsRow
  <2> HIDE DEF id
  <2> QED BY <1>3, <1>5, <2>1, <2>2, <2>3, <2>5, <2>6, <2>7
<1> QED BY <1>11, <1>13, <1>14, <1>15 DEF KillsInv

LEMMA KillsStep ==
  SavingInv /\ SavingInv' /\ FreshEmpty /\ KillsInv /\ [Next]_vars => KillsInv'
<1> SUFFICES ASSUME SavingInv, SavingInv', FreshEmpty, KillsInv, [Next]_vars PROVE KillsInv'
  OBVIOUS
<1> USE SavingAssumption
<1>1. CASE UNCHANGED <<account, user, saving, play, mishaps>>
  BY <1>1, KillsFrame DEF account, user, saving, play, Of
<1>2. CASE UNCHANGED vars
  BY <1>1, <1>2 DEF vars
<1>3. ASSUME NEW o \in User, Leave(o)
      PROVE  KillsInv'
  <2>1. /\ UNCHANGED <<rows, kills, killed, target, count, mishaps>>
        /\ state' = [state EXCEPT ![o] = "leaving"] /\ state[o] = "slot"
        /\ at' = [at EXCEPT ![o] = "test"]
    BY <1>3 DEF Leave, Go, account, play
  <2>2. \A c \in Saver : at'[c] = "keep" => at[c] = "keep" /\ Of(c)' = Of(c)
    BY <2>1 DEF SavingInv, TypeOK, TypesSaving, Of
  <2>3. \A p \in User : state'[p] # "freed" => state[p] # "freed"
    BY <2>1 DEF SavingInv, TypeOK, TypesUser
  <2> QED BY <2>1, <2>2, <2>3, KillsFrame
<1>4. ASSUME NEW o \in User, UserSave(o)
      PROVE  KillsInv'
  <2>1. /\ UNCHANGED <<rows, kills, killed, state, count, mishaps>>
        /\ at' = [at EXCEPT !["userSave"] = "test"]
    BY <1>4 DEF UserSave, Go, account, user, play
  <2>2. \A c \in Saver : at'[c] = "keep" => at[c] = "keep" /\ Of(c)' = Of(c)
    BY <2>1 DEF SavingInv, TypeOK, TypesSaving, Of
  <2> QED BY <2>1, <2>2, KillsFrame
<1>5. CASE Deposit
  BY <1>5, KillsFrame DEF Deposit, user, saving, Of
<1>6. ASSUME NEW c \in Saver, Save(c), ~FormatKills(c), ~KeepKills(c), ~NoKills(c)
      PROVE  KillsInv'
  <2>1. PICK place \in Places \ {"keep"} : at' = [at EXCEPT ![c] = place]
    BY <1>6 DEF Save, Test, ReadBalance, TakeWin, PutCoin, MarkBackup, WriteBalance, Go, Places
  <2>2. UNCHANGED <<rows, kills, killed, state, target, count>> /\ mishaps \subseteq mishaps'
    BY <1>6 DEF Save, Test, ReadBalance, TakeWin, PutCoin, MarkBackup, WriteBalance,
                account, user, play
  <2>3. \A d \in Saver : at'[d] = "keep" => at[d] = "keep" /\ Of(d)' = Of(d)
    BY <2>1, <2>2 DEF SavingInv, TypeOK, TypesSaving, Of
  <2> QED BY <2>2, <2>3, KillsFrame
<1>7. ASSUME NEW c \in Saver, NoKills(c)
      PROVE  KillsInv'
  <2>1. UNCHANGED <<rows, kills, killed, mishaps>> /\ Finish(c)
    BY <1>7 DEF NoKills, account, play
  <2>2. \A d \in Saver : at'[d] = "keep" =>
          at[d] = "keep" /\ Of(d)' = Of(d) /\ count'[d] = count[d]
    BY <2>1 DEF Finish, Go, SavingInv, TypeOK, TypesSaving, Of
  <2>3. \A p \in User : state'[p] # "freed" => state[p] # "freed"
    BY <2>1 DEF Finish, Destory, SavingInv, TypeOK, TypesUser
  <2> HIDE DEF Finish
  <2> QED BY <2>1, <2>2, <2>3, KillsFrame
<1>8. ASSUME NEW c \in Saver, Save(c)
      PROVE  KillsInv'
  BY <1>6, <1>7, <1>8, FormatKillsKills, KeepKillsKills
<1>9. ASSUME NEW o \in User, Load(o)
      PROVE  KillsInv'
  BY <1>9, LoadKills
<1>10. ASSUME NEW o \in User, NEW gain \in {-1, 1}, Play(o, gain)
       PROVE  KillsInv'
  BY <1>10, PlayKills
<1>11. CASE Exit
  BY <1>11, ExitKills
<1>12. CASE SaveFreed
  BY <1>1, <1>12 DEF SaveFreed
<1> QED BY <1>2, <1>3, <1>4, <1>5, <1>8, <1>9, <1>10, <1>11, <1>12
        DEF Next, Others, SaveThread

THEOREM KillsSafe == Spec => []KillsInv
<1>1. CoinsInv => FreshEmpty
  BY DEF CoinsInv
<1> QED BY <1>1, SavingSafe, CoinsSafe, KillsInit, KillsStep, PTL DEF Spec

(* Every kill is in the rows, or on its way there, once (user.hpp:17, 278).  *)
THEOREM KillsAlwaysKept == Spec => []KillsKept
<1>1. KillsInv => KillsKept
  BY DEF KillsInv
<1> QED BY <1>1, KillsSafe, PTL
=============================================================================
