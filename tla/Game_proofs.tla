----------------------------- MODULE Game_proofs -----------------------------
(***************************************************************************)
(* What Game promises of fish, bullets and their ids holds for any players, *)
(* nodes, shots and size of a room.                                        *)
(***************************************************************************)
EXTENDS Game, FiniteSetTheorems, SequenceTheorems, WellFoundedInduction, TLAPS

(* The inductive invariant, in parts.                                      *)

Aiming == {"took-bullet", "took-fish", "mark-fish", "unlock-fish", "spend-bullet"}
Aimed == {"took-fish", "mark-fish", "unlock-fish"}
Emptying == {"clear-fish", "free-fish", "drop-fishs", "clear-bullets", "free-bullets",
             "drop-bullets"}
Ids == 1 .. MaxInt - 1

TypesPlay ==
  /\ inside \subseteq Player
  /\ coin \in [Player -> Nat]
  /\ shots \in [Player -> Nat]
  /\ kills \in [Player -> Nat]
  /\ paid \in [FishNode -> Nat]

TypesFish ==
  /\ fishs \in Seq(FishNode)
  /\ fishId \in [FishNode -> Ids \cup {0}]
  /\ fishNext \in Ids
  /\ locked \subseteq FishNode
  /\ killed \subseteq FishNode

TypesBullet ==
  /\ bullets \in Seq(BulletNode)
  /\ bulletId \in [BulletNode -> Ids \cup {0}]
  /\ bulletNext \in Ids
  /\ owner \in [BulletNode -> Player \cup {None}]
  /\ spent \subseteq BulletNode

TypesWalk ==
  /\ fishAt \in {"sleep", "grow", "create", "head", "lock", "isdel", "destroy"}
  /\ fishP \in FishNode \cup {None}
  /\ bulletAt \in {"sleep", "head", "look", "destroy"}
  /\ bulletP \in BulletNode \cup {None}

(* hitFish has a bullet and a player from its first step, and a fish while   *)
(* it pays for one.                                                        *)
Hands ==
  /\ at \in Aiming \cup Emptying \cup {"idle"}
  /\ at \in Aiming => who \in Player /\ bullet \in BulletNode
  /\ at \notin Aiming => who = None /\ bullet = None
  /\ at \in Aimed => fish \in FishNode

(* A node is in a list once.                                               *)
Distinct(list) == \A i, j \in DOMAIN list : list[i] = list[j] => i = j
FishOnce == Distinct(fishs)
BulletsOnce == Distinct(bullets)

(* No two nodes of a list have one id.                                     *)
FishIdsOnce == \A f, g \in Nodes(fishs) : fishId[f] = fishId[g] => f = g
BulletIdsOnce == \A b, c \in Nodes(bullets) : bulletId[b] = bulletId[c] => b = c

(* A fish that has paid is marked, or about to be.                          *)
PaidIsMarked ==
  /\ \A f \in FishNode : paid[f] <= 1
  /\ at = "took-fish" => paid[fish] = 0
  /\ \A f \in Nodes(fishs) : \/ paid[f] = 0
                             \/ f \in killed
                             \/ at = "mark-fish" /\ fish = f

(* Room for the fish the fish thread is about to add stays free.            *)
RoomToGrow ==
  /\ Len(fishs) <= MaxFish
  /\ fishAt = "create" => Len(fishs) < MaxFish

(* Until the room is cleared: who walks on a list finds it and his node, and *)
(* hitFish a fish that no thread is about to free.                          *)
BeforeClear ==
  ~emptied =>
    /\ at \in Aiming \cup {"idle", "clear-fish"}
    /\ ~fishClearing /\ ~bulletClearing
    /\ fishsGone => fishAt = "sleep" /\ bulletsGone
    /\ bulletsGone => bulletAt = "sleep"
    /\ fishAt \in {"lock", "isdel", "destroy"} => fishP \in Nodes(fishs)
    /\ fishAt = "destroy" => fishP \in killed
    /\ bulletAt \in {"look", "destroy"} => bulletP \in Nodes(bullets)
    /\ at \in {"took-fish", "mark-fish"} => fish \in Nodes(fishs) \ killed
    /\ fault \notin {"fish-thread", "bullet-thread"}

TypeOK == TypesPlay /\ TypesFish /\ TypesBullet /\ TypesWalk

GameInv ==
  /\ TypeOK
  /\ Hands
  /\ FishOnce
  /\ BulletsOnce
  /\ PaidIsMarked
  /\ BulletsCoverKills
  /\ FishIdsOnce
  /\ BulletIdsOnce
  /\ RoomToGrow
  /\ BeforeClear

----------------------------------------------------------------------------
(* Lists of distinct nodes.                                                *)

LEMMA AppendNodes ==
  ASSUME NEW S, NEW list \in Seq(S), Distinct(list), NEW n \in S, n \notin Nodes(list)
  PROVE  /\ Append(list, n) \in Seq(S)
         /\ Distinct(Append(list, n))
         /\ Nodes(Append(list, n)) = Nodes(list) \cup {n}
         /\ Len(Append(list, n)) = Len(list) + 1
<1> DEFINE new == Append(list, n)
<1>1. /\ Len(list) \in Nat /\ Len(new) = Len(list) + 1
      /\ DOMAIN list = 1 .. Len(list) /\ DOMAIN new = 1 .. Len(list) + 1
      /\ \A i \in 1 .. Len(list) : new[i] = list[i]
      /\ new[Len(list) + 1] = n
      /\ new \in Seq(S)
  OBVIOUS
<1> HIDE DEF new
<1>2. Nodes(new) = Nodes(list) \cup {n}
  <2>1. Nodes(new) \subseteq Nodes(list) \cup {n}
    BY <1>1 DEF Nodes
  <2>2. n \in Nodes(new)
    BY <1>1 DEF Nodes
  <2>3. Nodes(list) \subseteq Nodes(new)
    BY <1>1 DEF Nodes
  <2> QED BY <2>1, <2>2, <2>3
<1>3. Distinct(new)
  <2> SUFFICES ASSUME NEW i \in DOMAIN new, NEW j \in DOMAIN new, new[i] = new[j]
               PROVE  i = j
    BY DEF Distinct
  <2>1. \A k \in 1 .. Len(list) : new[k] # n
    BY <1>1 DEF Nodes
  <2>2. CASE i \in 1 .. Len(list) /\ j \in 1 .. Len(list)
    BY <1>1, <2>2 DEF Distinct
  <2>3. CASE i = Len(list) + 1 \/ j = Len(list) + 1
    BY <1>1, <2>1, <2>3
  <2> QED BY <1>1, <2>2, <2>3
<1> QED BY <1>1, <1>2, <1>3 DEF new

LEMMA PositionFound ==
  ASSUME NEW list, NEW n \in Nodes(list)
  PROVE  Position(list, n) \in DOMAIN list /\ list[Position(list, n)] = n
<1>1. \E i \in DOMAIN list : list[i] = n
  BY DEF Nodes
<1> QED BY <1>1 DEF Position

LEMMA WithoutNodes ==
  ASSUME NEW S, NEW list \in Seq(S), Distinct(list), NEW n \in Nodes(list)
  PROVE  /\ Without(list, n) \in Seq(S)
         /\ Distinct(Without(list, n))
         /\ Nodes(Without(list, n)) = Nodes(list) \ {n}
         /\ Len(Without(list, n)) = Len(list) - 1
<1> DEFINE new == Without(list, n)
           k == Position(list, n)
<1>1. k \in 1 .. Len(list) /\ list[k] = n /\ Len(list) \in Nat
  BY PositionFound
<1>2. /\ DOMAIN list = 1 .. Len(list)
      /\ new = [i \in 1 .. Len(list) - 1 |-> IF i < k THEN list[i] ELSE list[i + 1]]
  BY DEF Without
<1> HIDE DEF new, k
<1>3. /\ DOMAIN new = 1 .. Len(list) - 1
      /\ \A i \in 1 .. Len(list) - 1 : new[i] = IF i < k THEN list[i] ELSE list[i + 1]
  BY <1>2
<1>4. \A i \in 1 .. Len(list) - 1 : i + 1 \in 1 .. Len(list) /\ i \in 1 .. Len(list)
  BY <1>1
<1>5. \A i \in 1 .. Len(list) : list[i] \in S
  OBVIOUS
<1>6. new \in Seq(S) /\ Len(new) = Len(list) - 1
  <2>1. Len(list) - 1 \in Nat
    BY <1>1
  <2>2. \A i \in 1 .. Len(list) - 1 : new[i] \in S
    BY <1>3, <1>4, <1>5
  <2>3. new \in [1 .. Len(list) - 1 -> S]
    <3>1. new = [i \in 1 .. Len(list) - 1 |-> new[i]]
      BY <1>2, <1>3
    <3> QED BY <2>2, <3>1
  <2> QED BY <2>1, <2>3
<1>7. Nodes(new) = Nodes(list) \ {n}
  <2>1. ASSUME NEW i \in 1 .. Len(list) - 1
        PROVE  new[i] \in Nodes(list) \ {n}
    <3>1. CASE i < k
      <4>1. new[i] = list[i] /\ i # k
        BY <1>1, <1>3, <3>1
      <4> QED BY <1>1, <1>2, <1>4, <4>1 DEF Nodes, Distinct
    <3>2. CASE ~(i < k)
      <4>1. new[i] = list[i + 1] /\ i + 1 # k
        BY <1>1, <1>3, <3>2
      <4> QED BY <1>1, <1>2, <1>4, <4>1 DEF Nodes, Distinct
    <3> QED BY <3>1, <3>2
  <2>2. ASSUME NEW m \in Nodes(list) \ {n}
        PROVE  m \in Nodes(new)
    <3>1. PICK i \in 1 .. Len(list) : list[i] = m /\ i # k
      BY <1>1, <1>2 DEF Nodes
    <3>2. CASE i < k
      <4>1. i \in 1 .. Len(list) - 1 /\ new[i] = m
        BY <1>1, <1>3, <3>1, <3>2
      <4> QED BY <1>3, <4>1 DEF Nodes
    <3>3. CASE i > k
      <4>1. i - 1 \in 1 .. Len(list) - 1 /\ ~(i - 1 < k) /\ i - 1 + 1 = i
        BY <1>1, <3>1, <3>3
      <4>2. new[i - 1] = m
        BY <1>3, <3>1, <4>1
      <4> QED BY <1>3, <4>1, <4>2 DEF Nodes
    <3> QED BY <1>1, <3>1, <3>2, <3>3
  <2>3. Nodes(new) \subseteq Nodes(list) \ {n}
    BY <1>3, <2>1 DEF Nodes
  <2> QED BY <2>2, <2>3
<1>8. Distinct(new)
  <2> SUFFICES ASSUME NEW i \in 1 .. Len(list) - 1, NEW j \in 1 .. Len(list) - 1,
                      new[i] = new[j]
               PROVE  i = j
    BY <1>3 DEF Distinct
  <2> DEFINE old(x) == IF x < k THEN x ELSE x + 1
  <2>1. /\ new[i] = list[old(i)] /\ new[j] = list[old(j)]
        /\ old(i) \in DOMAIN list /\ old(j) \in DOMAIN list
    BY <1>2, <1>3, <1>4
  <2>2. old(i) = old(j)
    <3> HIDE DEF old
    <3> QED BY <2>1 DEF Distinct
  <2> QED BY <1>1, <2>2
<1> QED BY <1>6, <1>7, <1>8 DEF new

LEMMA AfterNode ==
  ASSUME NEW S, NEW list \in Seq(S), Distinct(list), NEW n \in Nodes(list)
  PROVE  After(list, n) # None => After(list, n) \in Nodes(list) \ {n}
<1> DEFINE k == Position(list, n)
<1>1. k \in 1 .. Len(list) /\ list[k] = n /\ DOMAIN list = 1 .. Len(list)
      /\ Len(list) \in Nat
  BY PositionFound
<1>2. CASE k # Len(list)
  <2>1. k + 1 \in 1 .. Len(list) /\ k + 1 # k
    BY <1>1, <1>2
  <2>2. list[k + 1] \in Nodes(list) /\ list[k + 1] # n
    BY <1>1, <2>1 DEF Nodes, Distinct
  <2> QED BY <1>2, <2>2 DEF After
<1> QED BY <1>2 DEF After

LEMMA FirstNode ==
  ASSUME NEW S, NEW list \in Seq(S)
  PROVE  First(list) # None => First(list) \in Nodes(list)
<1>1. CASE list = <<>>
  BY <1>1 DEF First
<1>2. CASE list # <<>>
  <2>1. 1 \in DOMAIN list
    BY <1>2
  <2> QED BY <2>1 DEF First, Nodes
<1> QED BY <1>1, <1>2

LEMMA SmallLists ==
  /\ Nodes(<<>>) = {} /\ Distinct(<<>>) /\ Len(<<>>) = 0
  /\ \A S : <<>> \in Seq(S)
  /\ \A S : \A n \in S : /\ <<n>> \in Seq(S) /\ Nodes(<<n>>) = {n}
                         /\ Distinct(<<n>>) /\ Len(<<n>>) = 1
  BY DEF Nodes, Distinct

LEMMA NodesInside ==
  ASSUME NEW S, NEW list \in Seq(S)
  PROVE  Nodes(list) \subseteq S
  BY DEF Nodes

----------------------------------------------------------------------------
(* getID finds an id nobody has.                                           *)

LEMMA Least ==
  ASSUME NEW T \in SUBSET Nat, T # {}
  PROVE  \E m \in T : \A n \in T : m <= n
<1> DEFINE Below(n) == 0 .. n - 1
           Belows == {Below(n) : n \in T}
           R == StrictSubsetOrdering(Nat)
<1>1. Belows \subseteq FiniteSubsetsOf(Nat) /\ Belows # {}
  <2>1. \A n \in T : IsFiniteSet(Below(n)) /\ Below(n) \subseteq Nat
    BY FS_Interval
  <2> QED BY <2>1 DEF FiniteSubsetsOf
<1>2. PICK B \in Belows : \A C \in Belows : <<C, B>> \notin R
  <2> HIDE DEF R, Belows
  <2> QED BY <1>1, FS_StrictSubsetOrderingWellFounded, WFMin DEF R
<1>3. PICK m \in T : B = Below(m)
  OBVIOUS
<1>4. ASSUME NEW n \in T, n < m PROVE FALSE
  <2>1. Below(n) \subseteq Below(m) /\ n \in Below(m) /\ n \notin Below(n)
    BY <1>4
  <2>2. Below(n) \in SUBSET Nat /\ Below(m) \in SUBSET Nat /\ Below(n) # Below(m)
    BY <2>1
  <2>3. <<Below(n), Below(m)>> \in R
    <3> HIDE DEF Below
    <3> QED BY <2>1, <2>2 DEF StrictSubsetOrdering
  <2> QED BY <1>2, <1>3, <2>3
<1> QED BY <1>4

LEMMA NthIsId ==
  ASSUME NEW from \in Ids
  PROVE  /\ \A k \in 0 .. MaxInt - 2 : Nth(from, k) \in Ids
         /\ \A id \in Ids : \E k \in 0 .. MaxInt - 2 : Nth(from, k) = id
<1> DEFINE m == MaxInt - 1
<1>0. m \in Nat \ {0} /\ MaxInt - 2 = m - 1 /\ Ids = 1 .. m
  BY GameAssumption DEF Ids
<1> HIDE DEF m
<1>1. \A x \in Int : x % m \in 0 .. m - 1
  BY <1>0
<1>2. \A k \in 0 .. m - 1 : ((from - 1 + k) % m) + 1 \in 1 .. m
  <2> TAKE k \in 0 .. m - 1
  <2> DEFINE x == from - 1 + k
  <2>1. x \in Int
    BY <1>0
  <2>2. x % m \in 0 .. m - 1
    BY <1>1, <2>1
  <2> HIDE DEF x
  <2>3. \A y \in 0 .. m - 1 : y + 1 \in 1 .. m
    BY <1>0
  <2>4. (x % m) + 1 \in 1 .. m
    BY <2>2, <2>3
  <2> QED BY <2>4 DEF x
<1>3. ASSUME NEW id \in 1 .. m
      PROVE  \E k \in 0 .. m - 1 : ((from - 1 + k) % m) + 1 = id
  <2>1. CASE id >= from
    <3>1. id - from \in 0 .. m - 1 /\ from - 1 + (id - from) = id - 1
      BY <1>0, <2>1
    <3>2. (id - 1) % m = id - 1
      BY <1>0
    <3> QED BY <3>1, <3>2
  <2>2. CASE id < from
    <3>1. id - from + m \in 0 .. m - 1 /\ from - 1 + (id - from + m) = id - 1 + m
      BY <1>0, <2>2
    <3>2. (id - 1 + m) % m = id - 1
      BY <1>0
    <3> QED BY <3>1, <3>2
  <2> QED BY <1>0, <2>1, <2>2
<1> QED BY <1>0, <1>2, <1>3 DEF Nth, m

LEMMA NewIdFree ==
  ASSUME NEW from \in Ids, NEW inUse, IsFiniteSet(inUse), Cardinality(inUse) < MaxInt - 1
  PROVE  NewId(from, inUse) \in Ids \ inUse
<1> DEFINE T == {k \in 0 .. MaxInt - 2 : Nth(from, k) \notin inUse}
<1>1. MaxInt \in Nat /\ MaxInt >= 2
  BY GameAssumption
<1>2. PICK id \in Ids : id \notin inUse
  <2>1. IsFiniteSet(Ids) /\ Cardinality(Ids) = MaxInt - 1
    BY <1>1, FS_Interval DEF Ids
  <2>2. Ids \subseteq inUse => Cardinality(Ids) <= Cardinality(inUse)
    BY FS_Subset
  <2>3. Cardinality(inUse) \in Nat
    BY FS_CardinalityType
  <2> QED BY <1>1, <2>1, <2>2, <2>3
<1>3. T \in SUBSET Nat /\ T # {}
  <2>1. PICK k \in 0 .. MaxInt - 2 : Nth(from, k) = id
    BY NthIsId
  <2>2. T \subseteq Nat
    BY <1>1
  <2> QED BY <1>2, <2>1, <2>2
<1>4. PICK k \in T : \A n \in T : k <= n
  BY <1>3, Least
<1>5. \A j \in 0 .. k - 1 : Nth(from, j) \in inUse
  BY <1>1, <1>4
<1>6. \E l \in 0 .. MaxInt - 2 : /\ Nth(from, l) \notin inUse
                                 /\ \A j \in 0 .. l - 1 : Nth(from, j) \in inUse
  BY <1>4, <1>5
<1> DEFINE l == CHOOSE l \in 0 .. MaxInt - 2 :
                  /\ Nth(from, l) \notin inUse
                  /\ \A j \in 0 .. l - 1 : Nth(from, j) \in inUse
<1>7. l \in 0 .. MaxInt - 2 /\ Nth(from, l) \notin inUse
  BY <1>6
<1>8. NewId(from, inUse) = Nth(from, l)
  BY DEF NewId
<1> HIDE DEF l
<1> QED BY <1>7, <1>8, NthIsId

(* A list that misses a node of S leaves an id free.                        *)
LEMMA IdLeft ==
  ASSUME NEW S, IsFiniteSet(S), Cardinality(S) < MaxInt, NEW N \in SUBSET S,
         NEW n \in S, n \notin N, NEW id, NEW inUse,
         \A i \in inUse : \E x \in N : i = id[x]
  PROVE  IsFiniteSet(inUse) /\ Cardinality(inUse) < MaxInt - 1
<1>1. /\ IsFiniteSet(S \ {n}) /\ Cardinality(S \ {n}) = Cardinality(S) - 1
      /\ Cardinality(S) \in Nat /\ MaxInt \in Nat
  BY FS_RemoveElement, FS_CardinalityType, GameAssumption
<1>2. IsFiniteSet(N) /\ Cardinality(N) <= Cardinality(S \ {n}) /\ Cardinality(N) \in Nat
  BY <1>1, FS_Subset, FS_CardinalityType
<1>3. IsFiniteSet(inUse) /\ Cardinality(inUse) <= Cardinality(N)
  <2> DEFINE all == {id[x] : x \in N}
             f == [x \in N |-> id[x]]
  <2>1. f \in Surjection(N, all)
    BY DEF Surjection
  <2>2. IsFiniteSet(all) /\ Cardinality(all) <= Cardinality(N)
    <3> HIDE DEF f, all
    <3> QED BY <1>2, <2>1, FS_Surjection
  <2>3. inUse \subseteq all
    OBVIOUS
  <2>4. IsFiniteSet(inUse) /\ Cardinality(inUse) <= Cardinality(all)
    <3> HIDE DEF all
    <3> QED BY <2>2, <2>3, FS_Subset
  <2>5. Cardinality(all) \in Nat /\ Cardinality(inUse) \in Nat
    BY <2>2, <2>4, FS_CardinalityType
  <2> HIDE DEF all
  <2> QED BY <1>2, <2>2, <2>4, <2>5
<1>4. Cardinality(inUse) \in Nat
  BY <1>3, FS_CardinalityType
<1> QED BY <1>1, <1>2, <1>3, <1>4

----------------------------------------------------------------------------
(* What a step leaves alone.                                               *)

LEMMA Frame ==
  /\ TypesPlay /\ UNCHANGED <<inside, coin, shots, kills, paid>> => TypesPlay'
  /\ TypesFish /\ UNCHANGED <<fishs, fishId, fishNext, locked, killed>> => TypesFish'
  /\ TypesBullet /\ UNCHANGED <<bullets, bulletId, bulletNext, owner, spent>> => TypesBullet'
  /\ TypesWalk /\ UNCHANGED <<fishAt, fishP, bulletAt, bulletP>> => TypesWalk'
  /\ Hands /\ UNCHANGED <<at, who, bullet, fish>> => Hands'
  /\ FishOnce /\ UNCHANGED fishs => FishOnce'
  /\ BulletsOnce /\ UNCHANGED bullets => BulletsOnce'
  /\ FishIdsOnce /\ UNCHANGED <<fishs, fishId>> => FishIdsOnce'
  /\ BulletIdsOnce /\ UNCHANGED <<bullets, bulletId>> => BulletIdsOnce'
  /\ PaidIsMarked /\ UNCHANGED <<paid, at, fish, fishs, killed>> => PaidIsMarked'
  /\ RoomToGrow /\ UNCHANGED <<fishs, fishAt>> => RoomToGrow'
<1>1. TypesPlay /\ UNCHANGED <<inside, coin, shots, kills, paid>> => TypesPlay'
  BY DEF TypesPlay
<1>2. TypesFish /\ UNCHANGED <<fishs, fishId, fishNext, locked, killed>> => TypesFish'
  BY DEF TypesFish
<1>3. TypesBullet /\ UNCHANGED <<bullets, bulletId, bulletNext, owner, spent>> => TypesBullet'
  BY DEF TypesBullet
<1>4. TypesWalk /\ UNCHANGED <<fishAt, fishP, bulletAt, bulletP>> => TypesWalk'
  BY DEF TypesWalk
<1>5. Hands /\ UNCHANGED <<at, who, bullet, fish>> => Hands'
  BY DEF Hands
<1>6. FishOnce /\ UNCHANGED fishs => FishOnce'
  BY DEF FishOnce
<1>7. BulletsOnce /\ UNCHANGED bullets => BulletsOnce'
  BY DEF BulletsOnce
<1>8. FishIdsOnce /\ UNCHANGED <<fishs, fishId>> => FishIdsOnce'
  BY DEF FishIdsOnce
<1>9. BulletIdsOnce /\ UNCHANGED <<bullets, bulletId>> => BulletIdsOnce'
  BY DEF BulletIdsOnce
<1>10. PaidIsMarked /\ UNCHANGED <<paid, at, fish, fishs, killed>> => PaidIsMarked'
  BY DEF PaidIsMarked
<1>11. RoomToGrow /\ UNCHANGED <<fishs, fishAt>> => RoomToGrow'
  BY DEF RoomToGrow
<1> QED BY <1>1, <1>2, <1>3, <1>4, <1>5, <1>6, <1>7, <1>8, <1>9, <1>10, <1>11

(* Nobody is paid more often while he may be paid for fewer bullets.        *)
LEMMA CoverShrinks ==
  ASSUME TypesPlay, BulletsCoverKills, UNCHANGED <<kills, shots>>,
         \A p \in Player : Cover(p)' \subseteq Cover(p)
  PROVE  BulletsCoverKills'
<1> SUFFICES ASSUME NEW p \in Player
             PROVE  kills[p] + Cardinality(Cover(p)') <= shots[p]
  BY DEF BulletsCoverKills
<1>1. IsFiniteSet(Cover(p))
  BY GameAssumption, FS_Subset DEF Cover
<1>2. IsFiniteSet(Cover(p)') /\ Cardinality(Cover(p)') <= Cardinality(Cover(p))
  BY <1>1, FS_Subset
<1>3. Cardinality(Cover(p)) \in Nat /\ Cardinality(Cover(p)') \in Nat
  BY <1>1, <1>2, FS_CardinalityType
<1>4. kills[p] + Cardinality(Cover(p)) <= shots[p]
  BY DEF BulletsCoverKills
<1> QED BY <1>2, <1>3, <1>4 DEF TypesPlay

LEMMA CoverKept ==
  ASSUME TypesPlay, BulletsCoverKills,
         UNCHANGED <<kills, shots, at, who, bullet, bullets, spent, owner>>
  PROVE  BulletsCoverKills'
<1>1. \A p \in Player : Cover(p)' = Cover(p)
  BY DEF Cover, Paying
<1> QED BY <1>1, CoverShrinks

LEMMA GameInit == Init => GameInv
<1> SUFFICES ASSUME Init PROVE GameInv
  OBVIOUS
<1> USE GameAssumption DEF Init
<1>1. TypesPlay
  BY DEF TypesPlay
<1>2. TypesFish
  BY DEF TypesFish, Ids
<1>3. TypesBullet
  BY DEF TypesBullet, Ids
<1>4. TypesWalk
  BY DEF TypesWalk
<1>5. Hands
  BY DEF Hands, Aiming, Aimed, Emptying
<1>6. /\ FishOnce /\ BulletsOnce /\ FishIdsOnce /\ BulletIdsOnce
      /\ RoomToGrow /\ PaidIsMarked
  BY SmallLists DEF FishOnce, BulletsOnce, FishIdsOnce, BulletIdsOnce, RoomToGrow, PaidIsMarked
<1>7. BulletsCoverKills
  <2> SUFFICES ASSUME NEW p \in Player
               PROVE  kills[p] + Cardinality(Cover(p)) <= shots[p]
    BY DEF BulletsCoverKills
  <2>1. Cover(p) = {}
    BY SmallLists DEF Cover, Paying
  <2> QED BY <2>1, FS_EmptySet
<1>8. BeforeClear
  BY DEF BeforeClear
<1> QED BY <1>1, <1>2, <1>3, <1>4, <1>5, <1>6, <1>7, <1>8 DEF GameInv, TypeOK

----------------------------------------------------------------------------
(* The threads that walk.                                                  *)

LEMMA FishWalkKeeps ==
  ASSUME GameInv, FishWake \/ FishGrow \/ FishHead \/ FishLock \/ FishIsdel
  PROVE  GameInv'
<1> USE GameAssumption
<1>1. UNCHANGED <<player, fishList, bulletList, select, bulletThread, fault>>
  BY DEF FishWake, FishGrow, FishHead, FishLock, FishIsdel, FishIdle, FishListKept
<1>2. /\ First(fishs) # None => First(fishs) \in Nodes(fishs)
      /\ fishP \in Nodes(fishs) /\ After(fishs, fishP) # None =>
           After(fishs, fishP) \in Nodes(fishs)
      /\ Nodes(fishs) \subseteq FishNode
  BY FirstNode, AfterNode, NodesInside DEF GameInv, TypeOK, TypesFish, FishOnce
<1>3. \A p \in Nodes(fishs) \cup {None} :
        FishGoTo(p) => /\ fishAt' \in {"sleep", "lock"} /\ fishP' = p
                       /\ fishAt' = "lock" => fishP' \in Nodes(fishs)
  BY DEF FishGoTo
<1>4. /\ fishAt' \in {"sleep", "grow", "create", "head", "lock", "isdel", "destroy"}
      /\ fishP' \in FishNode \cup {None}
      /\ fishAt' = "create" => Len(fishs) < MaxFish
      /\ fishAt' \in {"lock", "isdel", "destroy"} => fishP' \in Nodes(fishs)
      /\ fishAt' = "destroy" => fishP' \in killed
  <2>1. CASE FishWake
    BY <2>1 DEF FishWake, GameInv, TypeOK, TypesWalk
  <2>2. CASE FishGrow
    BY <2>2 DEF FishGrow, Sparse, GameInv, TypeOK, TypesWalk
  <2>3. CASE FishHead
    BY <1>2, <1>3, <2>3 DEF FishHead
  <2>4. CASE FishLock
    BY <1>2, <1>3, <2>4 DEF FishLock, GameInv, TypeOK, TypesWalk
  <2>5. CASE FishIsdel
    BY <1>2, <1>3, <2>5 DEF FishIsdel, Condemned, GameInv, TypeOK, TypesWalk
  <2> QED BY <2>1, <2>2, <2>3, <2>4, <2>5
<1>5. ~fishsGone \/ fishAt = "isdel"
  BY DEF FishWake, FishGrow, FishHead, FishLock, FishIsdel
<1>6. BeforeClear'
  BY <1>1, <1>4, <1>5
     DEF GameInv, BeforeClear, player, fishList, bulletList, select, bulletThread
<1>7. TypesWalk'
  BY <1>1, <1>4 DEF GameInv, TypeOK, TypesWalk, bulletThread
<1>8. RoomToGrow'
  BY <1>1, <1>4 DEF GameInv, RoomToGrow, fishList
<1> QED BY <1>1, <1>6, <1>7, <1>8, Frame, CoverKept
        DEF GameInv, TypeOK, player, fishList, bulletList, select

LEMMA FishCreateKeeps ==
  ASSUME GameInv, FishCreate
  PROVE  GameInv'
<1> USE GameAssumption
<1>1. PICK f \in FishNode : CreateFish(f)
  BY DEF FishCreate
<1>2. /\ UNCHANGED <<inside, coin, shots, kills, emptied, fishsGone, fishClearing,
                     bulletList, select, fishP, bulletThread, fault>>
      /\ fishAt = "create" /\ fishAt' = "head" /\ ~fishsGone
      /\ f \notin Nodes(fishs)
      /\ fishs' = Append(fishs, f)
      /\ fishNext' = NewId(fishNext, FishIds)
      /\ fishId' = [fishId EXCEPT ![f] = fishNext']
      /\ locked' = locked \ {f} /\ killed' = killed \ {f}
      /\ paid' = [paid EXCEPT ![f] = 0]
  BY <1>1 DEF FishCreate, CreateFish
<1>3. /\ fishs' \in Seq(FishNode) /\ Distinct(fishs')
      /\ Nodes(fishs') = Nodes(fishs) \cup {f} /\ Len(fishs') = Len(fishs) + 1
      /\ Nodes(fishs) \subseteq FishNode
  BY <1>2, AppendNodes, NodesInside DEF GameInv, TypeOK, TypesFish, FishOnce
<1>4. fishNext' \in Ids \ FishIds
  <2>1. \A i \in FishIds : \E x \in Nodes(fishs) : i = fishId[x]
    BY DEF FishIds
  <2>2. IsFiniteSet(FishIds) /\ Cardinality(FishIds) < MaxInt - 1
    <3>1. /\ IsFiniteSet(FishNode) /\ Cardinality(FishNode) < MaxInt
          /\ Nodes(fishs) \in SUBSET FishNode /\ f \notin Nodes(fishs)
      BY <1>2, <1>3
    <3> HIDE GameAssumption
    <3> QED BY <2>1, <3>1, IdLeft
  <2> QED BY <1>2, <2>2, NewIdFree DEF GameInv, TypeOK, TypesFish
<1>5. /\ fishId'[f] = fishNext' /\ paid'[f] = 0
      /\ \A g \in FishNode \ {f} : fishId'[g] = fishId[g] /\ paid'[g] = paid[g]
  BY <1>2 DEF GameInv, TypeOK, TypesFish, TypesPlay
<1>6. TypesPlay'
  BY <1>2 DEF GameInv, TypeOK, TypesPlay
<1>7. TypesFish'
  BY <1>2, <1>3, <1>4 DEF GameInv, TypeOK, TypesFish
<1>8. TypesWalk'
  BY <1>2 DEF GameInv, TypeOK, TypesWalk, bulletThread
<1>9. FishOnce'
  BY <1>3 DEF FishOnce
<1>10. FishIdsOnce'
  <2>1. \A g \in Nodes(fishs) : g # f /\ fishId'[g] = fishId[g] /\ fishId[g] # fishNext'
    BY <1>2, <1>3, <1>4, <1>5 DEF FishIds
  <2> QED BY <1>3, <1>5, <2>1 DEF GameInv, FishIdsOnce
<1>11. PaidIsMarked'
  <2>1. \A g \in FishNode : paid'[g] <= 1
    <3> TAKE g \in FishNode
    <3>1. CASE g = f
      BY <1>5, <3>1
    <3>2. CASE g # f
      BY <1>5, <3>2 DEF GameInv, PaidIsMarked
    <3> QED BY <3>1, <3>2
  <2>2. at' = "took-fish" => paid'[fish'] = 0
    BY <1>2, <1>5 DEF GameInv, PaidIsMarked, Hands, Aimed, select
  <2>3. \A g \in Nodes(fishs') : \/ paid'[g] = 0
                                 \/ g \in killed'
                                 \/ at = "mark-fish" /\ fish = g
    BY <1>2, <1>3, <1>5 DEF GameInv, PaidIsMarked
  <2> QED BY <1>2, <2>1, <2>2, <2>3 DEF PaidIsMarked, select
<1>12. RoomToGrow'
  <2>1. Len(fishs) \in Nat /\ Len(fishs) < MaxFish
    BY <1>2 DEF GameInv, RoomToGrow, TypeOK, TypesFish
  <2> QED BY <1>2, <1>3, <2>1 DEF RoomToGrow
<1>13. BeforeClear'
  BY <1>2, <1>3, <1>5 DEF GameInv, BeforeClear, bulletList, select, bulletThread
<1> QED BY <1>2, <1>6, <1>7, <1>8, <1>9, <1>10, <1>11, <1>12, <1>13, Frame, CoverKept
        DEF GameInv, TypeOK, bulletList, select

LEMMA FishDestroyKeeps ==
  ASSUME GameInv, FishDestroy
  PROVE  GameInv'
<1> USE GameAssumption
<1>1. /\ UNCHANGED <<player, fishsGone, fishClearing, fishNext, bulletList, select,
                     bulletThread, fault>>
      /\ fishAt = "destroy" /\ ~fishsGone
      /\ fishP \in Nodes(fishs)
      /\ fishs' = Without(fishs, fishP)
      /\ FishGoTo(After(fishs, fishP))
      /\ fishId' = [f \in FishNode |-> IF f \in {fishP} THEN 0 ELSE fishId[f]]
      /\ locked' = locked \ {fishP} /\ killed' = killed \ {fishP}
  BY DEF FishDestroy, FishIdle, FreeFish
<1>2. /\ fishs' \in Seq(FishNode) /\ Distinct(fishs')
      /\ Nodes(fishs') = Nodes(fishs) \ {fishP} /\ Len(fishs') = Len(fishs) - 1
      /\ Nodes(fishs) \subseteq FishNode
      /\ After(fishs, fishP) # None => After(fishs, fishP) \in Nodes(fishs')
  BY <1>1, WithoutNodes, AfterNode, NodesInside DEF GameInv, TypeOK, TypesFish, FishOnce
<1>3. /\ fishAt' \in {"sleep", "lock"}
      /\ fishP' \in Nodes(fishs') \cup {None}
      /\ fishAt' = "lock" => fishP' \in Nodes(fishs')
  BY <1>1, <1>2 DEF FishGoTo
<1>4. \A f \in FishNode \ {fishP} : fishId'[f] = fishId[f]
  BY <1>1
<1>5. TypesFish'
  BY <1>1, <1>2 DEF GameInv, TypeOK, TypesFish
<1>6. TypesWalk'
  BY <1>1, <1>2, <1>3 DEF GameInv, TypeOK, TypesWalk, bulletThread
<1>7. FishOnce'
  BY <1>2 DEF FishOnce
<1>8. FishIdsOnce'
  BY <1>2, <1>4 DEF GameInv, FishIdsOnce
<1>9. PaidIsMarked'
  BY <1>1, <1>2 DEF GameInv, PaidIsMarked, player, select
<1>10. RoomToGrow'
  <2>1. Len(fishs) \in Nat
    BY DEF GameInv, TypeOK, TypesFish
  <2> QED BY <1>2, <1>3, <2>1 DEF GameInv, RoomToGrow
<1>11. BeforeClear'
  <2>1. ~emptied /\ at \in {"took-fish", "mark-fish"} => fish # fishP
    BY <1>1 DEF GameInv, BeforeClear
  <2> QED BY <1>1, <1>2, <1>3, <2>1
          DEF GameInv, BeforeClear, player, bulletList, select, bulletThread
<1> QED BY <1>1, <1>5, <1>6, <1>7, <1>8, <1>9, <1>10, <1>11, Frame, CoverKept
        DEF GameInv, TypeOK, player, bulletList, select

LEMMA BulletWalkKeeps ==
  ASSUME GameInv, BulletWake \/ BulletHead \/ BulletLook
  PROVE  GameInv'
<1> USE GameAssumption
<1>1. /\ UNCHANGED <<player, fishList, bulletList, select, fishThread, fault>>
      /\ ~bulletsGone
  BY DEF BulletWake, BulletHead, BulletLook, BulletIdle
<1>2. /\ First(bullets) # None => First(bullets) \in Nodes(bullets)
      /\ bulletP \in Nodes(bullets) /\ After(bullets, bulletP) # None =>
           After(bullets, bulletP) \in Nodes(bullets)
      /\ Nodes(bullets) \subseteq BulletNode
  BY FirstNode, AfterNode, NodesInside DEF GameInv, TypeOK, TypesBullet, BulletsOnce
<1>3. \A p \in Nodes(bullets) \cup {None} :
        BulletGoTo(p) => /\ bulletAt' \in {"sleep", "look"} /\ bulletP' = p
                         /\ bulletAt' = "look" => bulletP' \in Nodes(bullets)
  BY DEF BulletGoTo
<1>4. /\ bulletAt' \in {"sleep", "head", "look", "destroy"}
      /\ bulletP' \in BulletNode \cup {None}
      /\ bulletAt' \in {"look", "destroy"} => bulletP' \in Nodes(bullets)
  <2>1. CASE BulletWake
    BY <2>1 DEF BulletWake, GameInv, TypeOK, TypesWalk
  <2>2. CASE BulletHead
    BY <1>2, <1>3, <2>2 DEF BulletHead
  <2>3. CASE BulletLook
    BY <1>2, <1>3, <2>3 DEF BulletLook, GameInv, TypeOK, TypesWalk
  <2> QED BY <2>1, <2>2, <2>3
<1>5. BeforeClear'
  BY <1>1, <1>4 DEF GameInv, BeforeClear, player, fishList, bulletList, select, fishThread
<1>6. TypesWalk'
  BY <1>1, <1>4 DEF GameInv, TypeOK, TypesWalk, fishThread
<1> QED BY <1>1, <1>5, <1>6, Frame, CoverKept
        DEF GameInv, TypeOK, player, fishList, bulletList, select, fishThread

LEMMA BulletDestroyKeeps ==
  ASSUME GameInv, BulletDestroy
  PROVE  GameInv'
<1> USE GameAssumption
<1>1. /\ UNCHANGED <<player, fishList, bulletsGone, bulletClearing, bulletNext, select,
                     fishThread, fault>>
      /\ ~bulletsGone
      /\ bulletP \in Nodes(bullets)
      /\ bullets' = Without(bullets, bulletP)
      /\ BulletGoTo(After(bullets, bulletP))
      /\ bulletId' = [b \in BulletNode |-> IF b \in {bulletP} THEN 0 ELSE bulletId[b]]
      /\ owner' = [b \in BulletNode |-> IF b \in {bulletP} THEN None ELSE owner[b]]
      /\ spent' = spent \ {bulletP}
  BY DEF BulletDestroy, BulletIdle, FreeBullets
<1>2. /\ bullets' \in Seq(BulletNode) /\ Distinct(bullets')
      /\ Nodes(bullets') = Nodes(bullets) \ {bulletP}
      /\ Nodes(bullets) \subseteq BulletNode
      /\ After(bullets, bulletP) # None => After(bullets, bulletP) \in Nodes(bullets')
  BY <1>1, WithoutNodes, AfterNode, NodesInside DEF GameInv, TypeOK, TypesBullet, BulletsOnce
<1>3. /\ bulletAt' \in {"sleep", "look"}
      /\ bulletP' \in Nodes(bullets') \cup {None}
      /\ bulletAt' = "look" => bulletP' \in Nodes(bullets')
  BY <1>1, <1>2 DEF BulletGoTo
<1>4. \A b \in BulletNode \ {bulletP} : bulletId'[b] = bulletId[b] /\ owner'[b] = owner[b]
  BY <1>1
<1>5. TypesBullet'
  BY <1>1, <1>2 DEF GameInv, TypeOK, TypesBullet
<1>6. TypesWalk'
  BY <1>1, <1>2, <1>3 DEF GameInv, TypeOK, TypesWalk, fishThread
<1>7. BulletsOnce'
  BY <1>2 DEF BulletsOnce
<1>8. BulletIdsOnce'
  BY <1>2, <1>4 DEF GameInv, BulletIdsOnce
<1>9. BulletsCoverKills'
  <2>1. \A p \in Player : Cover(p)' \subseteq Cover(p)
    BY <1>1, <1>2, <1>4 DEF Cover, Paying, select
  <2> QED BY <1>1, <2>1, CoverShrinks DEF GameInv, TypeOK, player
<1>10. BeforeClear'
  BY <1>1, <1>2, <1>3 DEF GameInv, BeforeClear, player, fishList, select, fishThread
<1> QED BY <1>1, <1>5, <1>6, <1>7, <1>8, <1>9, <1>10, Frame
        DEF GameInv, TypeOK, player, fishList, select, fishThread

(* A thread that goes on with memory that is gone.                          *)
LEMMA WalkFaultKeeps ==
  ASSUME GameInv, FishFault \/ BulletFault
  PROVE  GameInv'
<1>1. UNCHANGED <<player, fishList, bulletList, select, fishThread, bulletThread>>
  BY DEF FishFault, BulletFault
<1>2. emptied
  BY DEF GameInv, BeforeClear, FishFault, BulletFault, TypeOK, TypesWalk
<1>3. BeforeClear'
  BY <1>1, <1>2 DEF BeforeClear, player
<1> QED BY <1>1, <1>3, Frame, CoverKept
        DEF GameInv, TypeOK, player, fishList, bulletList, select, fishThread, bulletThread

----------------------------------------------------------------------------
(* The select thread.                                                      *)

LEMMA EnterKeeps ==
  ASSUME GameInv, NEW p \in Player, Enter(p)
  PROVE  GameInv'
<1> USE GameAssumption
<1>1. /\ UNCHANGED <<coin, shots, kills, emptied, select, fishThread, bulletThread, fault>>
      /\ at = "idle"
      /\ inside' = inside \cup {p}
      /\ UNCHANGED <<fishClearing, bulletClearing, bulletId, owner, spent>>
  BY DEF Enter, fishList, bulletList
<1>2. CASE UNCHANGED <<fishList, bulletList, paid>>
  <2>1. TypesPlay'
    BY <1>1, <1>2 DEF GameInv, TypeOK, TypesPlay
  <2>2. BeforeClear'
    <3>1. UNCHANGED <<emptied, fishs, fishsGone, fishClearing, killed, bullets, bulletsGone,
                      bulletClearing, at, fish, fishAt, fishP, bulletAt, bulletP, fault>>
      BY <1>1, <1>2 DEF fishList, bulletList, select, fishThread, bulletThread
    <3> QED BY <3>1 DEF GameInv, BeforeClear
  <2> QED BY <1>1, <1>2, <2>1, <2>2, Frame, CoverKept
          DEF GameInv, TypeOK, fishList, bulletList, select, fishThread, bulletThread
<1>3. ASSUME fishsGone,
             NEW f \in FishNode,
             /\ fishs' = <<f>> /\ fishNext' = 1
             /\ fishId' = [fishId EXCEPT ![f] = 1]
             /\ locked' = locked \ {f} /\ killed' = killed \ {f}
             /\ paid' = [paid EXCEPT ![f] = 0]
             /\ fishsGone' = FALSE
             /\ bullets' = <<>> /\ bulletsGone' = FALSE /\ bulletNext' = 1
      PROVE  GameInv'
  <2>1. /\ fishs' \in Seq(FishNode) /\ Distinct(fishs')
        /\ Nodes(fishs') = {f} /\ Len(fishs') = 1
        /\ bullets' \in Seq(BulletNode) /\ Distinct(bullets') /\ Nodes(bullets') = {}
        /\ 1 \in Ids
    BY <1>3, SmallLists DEF Ids
  <2>2. /\ paid'[f] = 0
        /\ \A g \in FishNode \ {f} : paid'[g] = paid[g]
    BY <1>3 DEF GameInv, TypeOK, TypesPlay
  <2>3. TypesPlay'
    BY <1>1, <1>3 DEF GameInv, TypeOK, TypesPlay
  <2>4. TypesFish'
    BY <1>3, <2>1 DEF GameInv, TypeOK, TypesFish
  <2>5. TypesBullet'
    BY <1>1, <1>3, <2>1 DEF GameInv, TypeOK, TypesBullet
  <2>6. FishOnce' /\ BulletsOnce' /\ FishIdsOnce' /\ BulletIdsOnce'
    BY <2>1 DEF FishOnce, BulletsOnce, FishIdsOnce, BulletIdsOnce
  <2>7. PaidIsMarked'
    <3>1. \A g \in FishNode : paid'[g] <= 1
      <4> TAKE g \in FishNode
      <4>1. CASE g = f
        BY <2>2, <4>1
      <4>2. CASE g # f
        BY <2>2, <4>2 DEF GameInv, PaidIsMarked
      <4> QED BY <4>1, <4>2
    <3> QED BY <1>1, <2>1, <2>2, <3>1 DEF PaidIsMarked, select
  <2>8. RoomToGrow'
    BY <1>1, <2>1 DEF RoomToGrow, fishThread
  <2>9. BulletsCoverKills'
    <3>1. \A q \in Player : Cover(q)' \subseteq Cover(q)
      BY <1>1, <2>1 DEF Cover, Paying, select
    <3> QED BY <1>1, <3>1, CoverShrinks DEF GameInv, TypeOK
  <2>10. BeforeClear'
    BY <1>1, <1>3, <2>1 DEF GameInv, BeforeClear, select, fishThread, bulletThread
  <2> QED BY <1>1, <2>3, <2>4, <2>5, <2>6, <2>7, <2>8, <2>9, <2>10, Frame
          DEF GameInv, TypeOK, select, fishThread, bulletThread
<1> QED BY <1>2, <1>3 DEF Enter

LEMMA ShootKeeps ==
  ASSUME GameInv, NEW p \in Player, Shoot(p)
  PROVE  GameInv'
<1> USE GameAssumption
<1>1. PICK b \in BulletNode : CreateBullet(b, p)
  BY DEF Shoot
<1>2. /\ UNCHANGED <<inside, kills, paid, emptied, fishList, bulletsGone, bulletClearing,
                     select, fishThread, bulletThread, fault>>
      /\ at = "idle" /\ coin[p] > 0
      /\ coin' = [coin EXCEPT ![p] = @ - 1]
      /\ shots' = [shots EXCEPT ![p] = @ + 1]
      /\ b \notin Nodes(bullets)
      /\ bullets' = Append(bullets, b)
      /\ bulletNext' = NewId(bulletNext, BulletIds)
      /\ bulletId' = [bulletId EXCEPT ![b] = bulletNext']
      /\ owner' = [owner EXCEPT ![b] = p]
      /\ spent' = spent \ {b}
  BY <1>1 DEF Shoot, CreateBullet
<1>3. /\ bullets' \in Seq(BulletNode) /\ Distinct(bullets')
      /\ Nodes(bullets') = Nodes(bullets) \cup {b}
      /\ Nodes(bullets) \subseteq BulletNode
  BY <1>2, AppendNodes, NodesInside DEF GameInv, TypeOK, TypesBullet, BulletsOnce
<1>4. bulletNext' \in Ids \ BulletIds
  <2>1. \A i \in BulletIds : \E x \in Nodes(bullets) : i = bulletId[x]
    BY DEF BulletIds
  <2>2. IsFiniteSet(BulletIds) /\ Cardinality(BulletIds) < MaxInt - 1
    <3>1. /\ IsFiniteSet(BulletNode) /\ Cardinality(BulletNode) < MaxInt
          /\ Nodes(bullets) \in SUBSET BulletNode /\ b \notin Nodes(bullets)
      BY <1>2, <1>3
    <3> HIDE GameAssumption
    <3> QED BY <2>1, <3>1, IdLeft
  <2> QED BY <1>2, <2>2, NewIdFree DEF GameInv, TypeOK, TypesBullet
<1>5. /\ bulletId'[b] = bulletNext' /\ owner'[b] = p
      /\ \A c \in BulletNode \ {b} : bulletId'[c] = bulletId[c] /\ owner'[c] = owner[c]
  BY <1>2 DEF GameInv, TypeOK, TypesBullet
<1>6. TypesPlay'
  <2>1. coin[p] \in Nat /\ coin[p] - 1 \in Nat /\ shots[p] + 1 \in Nat
    BY <1>2 DEF GameInv, TypeOK, TypesPlay
  <2> QED BY <1>2, <2>1 DEF GameInv, TypeOK, TypesPlay
<1>7. TypesBullet'
  BY <1>2, <1>3, <1>4 DEF GameInv, TypeOK, TypesBullet
<1>8. BulletsOnce'
  BY <1>3 DEF BulletsOnce
<1>9. BulletIdsOnce'
  <2>1. \A c \in Nodes(bullets) :
          c # b /\ bulletId'[c] = bulletId[c] /\ bulletId[c] # bulletNext'
    BY <1>2, <1>3, <1>4, <1>5 DEF BulletIds
  <2> QED BY <1>3, <1>5, <2>1 DEF GameInv, BulletIdsOnce
<1>10. BulletsCoverKills'
  <2> SUFFICES ASSUME NEW q \in Player
               PROVE  kills[q] + Cardinality(Cover(q)') <= shots'[q]
    BY <1>2 DEF BulletsCoverKills
  <2>1. /\ IsFiniteSet(Cover(q)) /\ IsFiniteSet(Cover(q)')
        /\ Cardinality(Cover(q)) \in Nat /\ Cardinality(Cover(q)') \in Nat
        /\ kills[q] \in Nat /\ shots[q] \in Nat
    <3>1. Cover(q) \in SUBSET BulletNode /\ Cover(q)' \in SUBSET BulletNode
      BY DEF Cover
    <3>2. IsFiniteSet(Cover(q)) /\ IsFiniteSet(Cover(q)')
      BY <3>1, FS_Subset
    <3> QED BY <3>2, FS_CardinalityType DEF GameInv, TypeOK, TypesPlay
  <2>2. kills[q] + Cardinality(Cover(q)) <= shots[q]
    BY DEF GameInv, BulletsCoverKills
  <2>3. CASE q = p
    <3>1. Cover(q)' \subseteq Cover(q) \cup {b}
      BY <1>2, <1>3, <1>5 DEF Cover, Paying, select
    <3>2. /\ IsFiniteSet(Cover(q) \cup {b})
          /\ Cardinality(Cover(q) \cup {b}) <= Cardinality(Cover(q)) + 1
          /\ Cardinality(Cover(q) \cup {b}) \in Nat
      <4>1. /\ IsFiniteSet(Cover(q) \cup {b})
            /\ Cardinality(Cover(q) \cup {b}) =
                 IF b \in Cover(q) THEN Cardinality(Cover(q)) ELSE Cardinality(Cover(q)) + 1
        BY <2>1, FS_AddElement
      <4> QED BY <2>1, <4>1
    <3>3. Cardinality(Cover(q)') <= Cardinality(Cover(q) \cup {b})
      BY <3>1, <3>2, FS_Subset
    <3>4. shots'[q] = shots[q] + 1
      BY <1>2, <2>3 DEF GameInv, TypeOK, TypesPlay
    <3> QED BY <2>1, <2>2, <3>2, <3>3, <3>4
  <2>4. CASE q # p
    <3>1. Cover(q)' \subseteq Cover(q)
      BY <1>2, <1>3, <1>5, <2>4 DEF Cover, Paying, select
    <3>2. Cardinality(Cover(q)') <= Cardinality(Cover(q))
      BY <2>1, <3>1, FS_Subset
    <3>3. shots'[q] = shots[q]
      BY <1>2, <2>4 DEF GameInv, TypeOK, TypesPlay
    <3> QED BY <2>1, <2>2, <3>2, <3>3
  <2> QED BY <2>3, <2>4
<1>11. BeforeClear'
  BY <1>2, <1>3 DEF GameInv, BeforeClear, fishList, select, fishThread, bulletThread
<1> QED BY <1>2, <1>6, <1>7, <1>8, <1>9, <1>10, <1>11, Frame
        DEF GameInv, TypeOK, fishList, select, fishThread, bulletThread

LEMMA TakeBulletKeeps ==
  ASSUME GameInv, NEW p \in Player, NEW id, TakeBullet(p, id)
  PROVE  GameInv'
<1> USE GameAssumption
<1>1. /\ UNCHANGED <<player, fishList, bulletList, fish, fishThread, bulletThread, fault>>
      /\ at = "idle" /\ at' = "took-bullet" /\ who' = p
      /\ bullet' \in BulletNode
      /\ bullet' \in Nodes(bullets) /\ owner[bullet'] = p /\ bullet' \notin spent
  BY DEF TakeBullet, Usable
<1>2. Hands'
  BY <1>1 DEF Hands, Aiming, Aimed
<1>3. PaidIsMarked'
  BY <1>1 DEF GameInv, PaidIsMarked, player, fishList
<1>4. BulletsCoverKills'
  <2>1. bullet = None
    BY <1>1 DEF GameInv, Hands, Aiming
  <2>2. \A q \in Player : Cover(q)' \subseteq Cover(q)
    BY <1>1, <2>1 DEF Cover, Paying, bulletList
  <2> QED BY <1>1, <2>2, CoverShrinks DEF GameInv, TypeOK, player
<1>5. BeforeClear'
  BY <1>1 DEF GameInv, BeforeClear, Aiming, player, fishList, bulletList, fishThread,
              bulletThread
<1> QED BY <1>1, <1>2, <1>3, <1>4, <1>5, Frame
        DEF GameInv, TypeOK, player, fishList, bulletList, fishThread, bulletThread

LEMMA TakeFishKeeps ==
  ASSUME GameInv, NEW id, TakeFish(id)
  PROVE  GameInv'
<1> USE GameAssumption
<1>1. /\ UNCHANGED <<player, fishs, fishsGone, fishClearing, fishId, fishNext, killed,
                     bulletList, who, bullet, fishThread, bulletThread, fault>>
      /\ at = "took-bullet" /\ at' \in {"took-fish", "spend-bullet"}
      /\ locked' \subseteq locked \cup FishNode
      /\ at' = "took-fish" => fish' \in FishNode /\ fish' \in Nodes(fishs) \ killed
  BY DEF TakeFish, Hittable
<1>2. TypesFish'
  BY <1>1 DEF GameInv, TypeOK, TypesFish
<1>3. Hands'
  BY <1>1 DEF GameInv, Hands, Aiming, Aimed
<1>4. PaidIsMarked'
  BY <1>1 DEF GameInv, PaidIsMarked, player
<1>5. BulletsCoverKills'
  <2>1. \A q \in Player : Cover(q)' \subseteq Cover(q)
    BY <1>1 DEF Cover, Paying, bulletList
  <2> QED BY <1>1, <2>1, CoverShrinks DEF GameInv, TypeOK, player
<1>6. BeforeClear'
  BY <1>1 DEF GameInv, BeforeClear, Aiming, player, bulletList, fishThread, bulletThread
<1> QED BY <1>1, <1>2, <1>3, <1>4, <1>5, <1>6, Frame
        DEF GameInv, TypeOK, player, bulletList, fishThread, bulletThread

LEMMA PayKeeps ==
  ASSUME GameInv, Pay
  PROVE  GameInv'
<1> USE GameAssumption
<1>1. /\ UNCHANGED <<inside, shots, emptied, fishList, bulletList, who, bullet, fish,
                     fishThread, bulletThread>>
      /\ at = "took-fish" /\ at' = "mark-fish"
      /\ coin' = [coin EXCEPT ![who] = @ + Reward]
      /\ kills' = [kills EXCEPT ![who] = @ + 1]
      /\ paid' = [paid EXCEPT ![fish] = paid[fish] + 1]
      /\ who \in Player /\ bullet \in BulletNode /\ fish \in FishNode
      /\ fault' = "select-fish" \/ fault' = fault
  BY DEF Pay, Touch, GameInv, Hands, Aiming, Aimed
<1>2. paid[fish] = 0
  BY DEF Pay, GameInv, PaidIsMarked
<1>3. /\ paid'[fish] = 1
      /\ \A f \in FishNode \ {fish} : paid'[f] = paid[f]
  <2>1. paid[fish] + 1 = 1
    BY <1>2
  <2> QED BY <1>1, <2>1 DEF GameInv, TypeOK, TypesPlay
<1>4. TypesPlay'
  <2>1. /\ coin[who] \in Nat /\ kills[who] \in Nat /\ Reward \in Nat
        /\ paid[fish] \in Nat
    BY <1>1 DEF GameInv, TypeOK, TypesPlay
  <2>2. coin[who] + Reward \in Nat /\ kills[who] + 1 \in Nat /\ paid[fish] + 1 \in Nat
    BY <2>1
  <2> QED BY <1>1, <2>1, <2>2 DEF GameInv, TypeOK, TypesPlay
<1>5. Hands'
  BY <1>1 DEF Hands, Aiming, Aimed
<1>6. PaidIsMarked'
  <2>1. \A f \in FishNode : paid'[f] <= 1
    <3> TAKE f \in FishNode
    <3>1. CASE f = fish
      BY <1>3, <3>1
    <3>2. CASE f # fish
      BY <1>3, <3>2 DEF GameInv, PaidIsMarked
    <3> QED BY <3>1, <3>2
  <2>2. Nodes(fishs) \subseteq FishNode
    BY NodesInside DEF GameInv, TypeOK, TypesFish
  <2>3. \A f \in Nodes(fishs) : paid'[f] = 0 \/ f \in killed \/ fish = f
    BY <1>1, <1>3, <2>2 DEF GameInv, PaidIsMarked
  <2> QED BY <1>1, <2>1, <2>3 DEF PaidIsMarked, fishList
<1>7. BulletsCoverKills'
  <2> SUFFICES ASSUME NEW q \in Player
               PROVE  kills'[q] + Cardinality(Cover(q)') <= shots[q]
    BY <1>1 DEF BulletsCoverKills
  <2>1. /\ IsFiniteSet(Cover(q)) /\ Cardinality(Cover(q)) \in Nat
        /\ kills[q] \in Nat /\ shots[q] \in Nat
    <3>1. Cover(q) \in SUBSET BulletNode
      BY DEF Cover
    <3>2. IsFiniteSet(Cover(q))
      BY <3>1, FS_Subset
    <3> QED BY <3>2, FS_CardinalityType DEF GameInv, TypeOK, TypesPlay
  <2>2. kills[q] + Cardinality(Cover(q)) <= shots[q]
    BY DEF GameInv, BulletsCoverKills
  <2>3. Cover(q)' \subseteq Cover(q) \ {bullet}
    BY <1>1 DEF Cover, Paying, bulletList
  <2>4. /\ IsFiniteSet(Cover(q) \ {bullet})
        /\ Cardinality(Cover(q) \ {bullet}) =
             IF bullet \in Cover(q) THEN Cardinality(Cover(q)) - 1 ELSE Cardinality(Cover(q))
    BY <2>1, FS_RemoveElement
  <2>5. /\ Cardinality(Cover(q)') <= Cardinality(Cover(q) \ {bullet})
        /\ Cardinality(Cover(q)') \in Nat
    <3>1. /\ IsFiniteSet(Cover(q)')
          /\ Cardinality(Cover(q)') <= Cardinality(Cover(q) \ {bullet})
      BY <2>3, <2>4, FS_Subset
    <3> QED BY <3>1, FS_CardinalityType
  <2>6. CASE q = who
    <3>1. bullet \in Cover(q)
      BY <1>1, <2>6 DEF Cover, Paying
    <3>2. kills'[q] = kills[q] + 1
      BY <1>1, <2>6 DEF GameInv, TypeOK, TypesPlay
    <3> QED BY <2>1, <2>2, <2>4, <2>5, <3>1, <3>2
  <2>7. CASE q # who
    <3>1. kills'[q] = kills[q]
      BY <1>1, <2>7 DEF GameInv, TypeOK, TypesPlay
    <3> QED BY <2>1, <2>2, <2>4, <2>5, <3>1
  <2> QED BY <2>6, <2>7
<1>8. BeforeClear'
  BY <1>1 DEF GameInv, BeforeClear, Aiming, fishList, bulletList, fishThread, bulletThread
<1> QED BY <1>1, <1>4, <1>5, <1>6, <1>7, <1>8, Frame
        DEF GameInv, TypeOK, fishList, bulletList, fishThread, bulletThread

LEMMA MarkFishKeeps ==
  ASSUME GameInv, MarkFish
  PROVE  GameInv'
<1> USE GameAssumption
<1>1. /\ UNCHANGED <<player, fishs, fishsGone, fishClearing, fishId, fishNext, locked,
                     bulletList, who, bullet, fish, fishThread, bulletThread>>
      /\ at = "mark-fish" /\ at' = "unlock-fish"
      /\ killed' = killed \cup {fish}
      /\ who \in Player /\ bullet \in BulletNode /\ fish \in FishNode
      /\ fault' = "select-fish" \/ fault' = fault
  BY DEF MarkFish, Touch, GameInv, Hands, Aiming, Aimed
<1>2. TypesFish'
  BY <1>1 DEF GameInv, TypeOK, TypesFish
<1>3. Hands'
  BY <1>1 DEF Hands, Aiming, Aimed
<1>4. PaidIsMarked'
  BY <1>1 DEF GameInv, PaidIsMarked, player
<1>5. BulletsCoverKills'
  <2>1. \A q \in Player : Cover(q)' \subseteq Cover(q)
    BY <1>1 DEF Cover, Paying, bulletList
  <2> QED BY <1>1, <2>1, CoverShrinks DEF GameInv, TypeOK, player
<1>6. BeforeClear'
  BY <1>1 DEF GameInv, BeforeClear, Aiming, player, bulletList, fishThread, bulletThread
<1> QED BY <1>1, <1>2, <1>3, <1>4, <1>5, <1>6, Frame
        DEF GameInv, TypeOK, player, bulletList, fishThread, bulletThread

LEMMA UnlockFishKeeps ==
  ASSUME GameInv, UnlockFish
  PROVE  GameInv'
<1> USE GameAssumption
<1>1. /\ UNCHANGED <<player, fishs, fishsGone, fishClearing, fishId, fishNext, killed,
                     bulletList, who, bullet, fishThread, bulletThread>>
      /\ at = "unlock-fish" /\ at' = "spend-bullet"
      /\ locked' = locked \ {fish}
      /\ who \in Player /\ bullet \in BulletNode
      /\ fault' = "select-fish" \/ fault' = fault
  BY DEF UnlockFish, Touch, GameInv, Hands, Aiming
<1>2. TypesFish'
  BY <1>1 DEF GameInv, TypeOK, TypesFish
<1>3. Hands'
  BY <1>1 DEF Hands, Aiming, Aimed
<1>4. PaidIsMarked'
  BY <1>1 DEF GameInv, PaidIsMarked, player
<1>5. BulletsCoverKills'
  <2>1. \A q \in Player : Cover(q)' \subseteq Cover(q)
    BY <1>1 DEF Cover, Paying, bulletList
  <2> QED BY <1>1, <2>1, CoverShrinks DEF GameInv, TypeOK, player
<1>6. BeforeClear'
  BY <1>1 DEF GameInv, BeforeClear, Aiming, player, bulletList, fishThread, bulletThread
<1> QED BY <1>1, <1>2, <1>3, <1>4, <1>5, <1>6, Frame
        DEF GameInv, TypeOK, player, bulletList, fishThread, bulletThread

LEMMA SpendBulletKeeps ==
  ASSUME GameInv, SpendBullet
  PROVE  GameInv'
<1> USE GameAssumption
<1>1. /\ UNCHANGED <<player, fishList, bullets, bulletsGone, bulletClearing, bulletId,
                     bulletNext, owner, fish, fishThread, bulletThread>>
      /\ at = "spend-bullet" /\ at' = "idle" /\ who' = None /\ bullet' = None
      /\ spent' = spent \cup {bullet}
      /\ bullet \in BulletNode
      /\ fault' = "select-bullet" \/ fault' = fault
  BY DEF SpendBullet, Touch, GameInv, Hands, Aiming
<1>2. TypesBullet'
  BY <1>1 DEF GameInv, TypeOK, TypesBullet
<1>3. Hands'
  BY <1>1 DEF Hands, Aiming, Aimed
<1>4. PaidIsMarked'
  BY <1>1 DEF GameInv, PaidIsMarked, player, fishList
<1>5. BulletsCoverKills'
  <2>1. \A q \in Player : Cover(q)' \subseteq Cover(q)
    BY <1>1 DEF Cover, Paying
  <2> QED BY <1>1, <2>1, CoverShrinks DEF GameInv, TypeOK, player
<1>6. BeforeClear'
  BY <1>1 DEF GameInv, BeforeClear, Aiming, player, fishList, fishThread, bulletThread
<1> QED BY <1>1, <1>2, <1>3, <1>4, <1>5, <1>6, Frame
        DEF GameInv, TypeOK, player, fishList, fishThread, bulletThread

(* The last one out: the steps that change neither list.                    *)
LEMMA LeaveKeeps ==
  ASSUME GameInv,
         \/ \E p \in Player : Leave(p)
         \/ ClearFishBegin \/ ClearBulletsBegin \/ DropBullets
  PROVE  GameInv'
<1> USE GameAssumption
<1>1. /\ UNCHANGED <<coin, shots, kills, paid, fishs, fishsGone, fishId, fishNext, locked,
                     killed, bullets, bulletId, owner, spent, who, bullet, fish, fishThread,
                     bulletThread, fault>>
      /\ inside' \subseteq inside
      /\ bulletNext' \in {bulletNext, 1}
      /\ at \in Emptying \cup {"idle"} /\ at' \in Emptying \cup {"idle"}
  BY DEF Leave, ClearFishBegin, ClearBulletsBegin, DropBullets, player, fishList, bulletList,
         Emptying
<1>2. TypesPlay'
  BY <1>1 DEF GameInv, TypeOK, TypesPlay
<1>3. TypesBullet'
  BY <1>1 DEF GameInv, TypeOK, TypesBullet, Ids
<1>4. Hands'
  BY <1>1 DEF GameInv, Hands, Aiming, Aimed, Emptying
<1>5. PaidIsMarked'
  BY <1>1 DEF GameInv, PaidIsMarked, Emptying
<1>6. BulletsCoverKills'
  <2>1. \A q \in Player : Cover(q)' \subseteq Cover(q)
    BY <1>1 DEF Cover, Paying, Emptying
  <2> QED BY <1>1, <2>1, CoverShrinks DEF GameInv, TypeOK
<1>7. BeforeClear'
  <2>1. CASE emptied'
    BY <2>1 DEF BeforeClear
  <2>2. CASE ~emptied'
    <3>1. PICK p \in Player : Leave(p)
      BY <2>2 DEF ClearFishBegin, ClearBulletsBegin, DropBullets, GameInv, BeforeClear,
                  Aiming, player
    <3>2. /\ UNCHANGED <<emptied, fishs, fishsGone, fishClearing, killed, bullets,
                         bulletsGone, bulletClearing, fish, fishAt, fishP, bulletAt, bulletP,
                         fault>>
          /\ at' \in {"clear-fish", "idle"}
      BY <3>1 DEF Leave, fishList, bulletList, fishThread, bulletThread
    <3> QED BY <3>2 DEF GameInv, BeforeClear
  <2> QED BY <2>1, <2>2
<1> QED BY <1>1, <1>2, <1>3, <1>4, <1>5, <1>6, <1>7, Frame
        DEF GameInv, TypeOK, fishThread, bulletThread

LEMMA FreeFishKeeps ==
  ASSUME GameInv, ClearFishEnd \/ DropFishs
  PROVE  GameInv'
<1> USE GameAssumption
<1>1. /\ UNCHANGED <<player, bulletList, who, bullet, fish, fishThread, bulletThread, fault>>
      /\ at \in {"free-fish", "drop-fishs"} /\ at' \in {"drop-fishs", "clear-bullets"}
      /\ fishs' = <<>> /\ fishNext' \in {fishNext, 1}
      /\ fishId' = [f \in FishNode |-> IF f \in Nodes(fishs) THEN 0 ELSE fishId[f]]
      /\ locked' \subseteq locked /\ killed' \subseteq killed
  BY DEF ClearFishEnd, DropFishs, FreeFish
<1>2. /\ fishs' \in Seq(FishNode) /\ Distinct(fishs') /\ Nodes(fishs') = {}
      /\ Len(fishs') = 0
  BY <1>1, SmallLists
<1>3. TypesFish'
  <2>1. fishNext' \in Ids
    <3>1. 1 \in Ids
      BY DEF Ids
    <3> QED BY <1>1, <3>1 DEF GameInv, TypeOK, TypesFish
  <2>2. fishId' \in [FishNode -> Ids \cup {0}]
    BY <1>1 DEF GameInv, TypeOK, TypesFish
  <2> QED BY <1>1, <1>2, <2>1, <2>2 DEF GameInv, TypeOK, TypesFish
<1>4. Hands'
  BY <1>1 DEF GameInv, Hands, Aiming, Aimed, Emptying
<1>5. FishOnce' /\ FishIdsOnce' /\ RoomToGrow'
  BY <1>2 DEF FishOnce, FishIdsOnce, RoomToGrow
<1>6. PaidIsMarked'
  BY <1>1, <1>2 DEF GameInv, PaidIsMarked, player
<1>7. BulletsCoverKills'
  <2>1. \A q \in Player : Cover(q)' \subseteq Cover(q)
    BY <1>1 DEF Cover, Paying, bulletList
  <2> QED BY <1>1, <2>1, CoverShrinks DEF GameInv, TypeOK, player
<1>8. BeforeClear'
  <2>1. emptied
    BY <1>1 DEF GameInv, BeforeClear, Aiming
  <2> QED BY <1>1, <2>1 DEF BeforeClear, player
<1> QED BY <1>1, <1>3, <1>4, <1>5, <1>6, <1>7, <1>8, Frame
        DEF GameInv, TypeOK, player, bulletList, fishThread, bulletThread

LEMMA FreeBulletsKeeps ==
  ASSUME GameInv, ClearBulletsEnd
  PROVE  GameInv'
<1> USE GameAssumption
<1>1. /\ UNCHANGED <<player, fishList, bulletNext, who, bullet, fish, fishThread, bulletThread,
                     fault>>
      /\ at = "free-bullets" /\ at' = "drop-bullets"
      /\ bullets' = <<>>
      /\ bulletId' = [b \in BulletNode |-> IF b \in Nodes(bullets) THEN 0 ELSE bulletId[b]]
      /\ owner' = [b \in BulletNode |-> IF b \in Nodes(bullets) THEN None ELSE owner[b]]
      /\ spent' \subseteq spent
  BY DEF ClearBulletsEnd, FreeBullets
<1>2. bullets' \in Seq(BulletNode) /\ Distinct(bullets') /\ Nodes(bullets') = {}
  BY <1>1, SmallLists
<1>3. TypesBullet'
  BY <1>1, <1>2 DEF GameInv, TypeOK, TypesBullet
<1>4. Hands'
  BY <1>1 DEF GameInv, Hands, Aiming, Aimed, Emptying
<1>5. BulletsOnce' /\ BulletIdsOnce'
  BY <1>2 DEF BulletsOnce, BulletIdsOnce
<1>6. PaidIsMarked'
  BY <1>1 DEF GameInv, PaidIsMarked, player, fishList
<1>7. BulletsCoverKills'
  <2>1. \A q \in Player : Cover(q)' \subseteq Cover(q)
    BY <1>1, <1>2 DEF Cover, Paying
  <2> QED BY <1>1, <2>1, CoverShrinks DEF GameInv, TypeOK, player
<1>8. BeforeClear'
  <2>1. emptied
    BY <1>1 DEF GameInv, BeforeClear, Aiming
  <2> QED BY <1>1, <2>1 DEF BeforeClear, player
<1> QED BY <1>1, <1>3, <1>4, <1>5, <1>6, <1>7, <1>8, Frame
        DEF GameInv, TypeOK, player, fishList, fishThread, bulletThread

----------------------------------------------------------------------------
LEMMA GameStep == GameInv /\ [Next]_vars => GameInv'
<1> SUFFICES ASSUME GameInv, [Next]_vars
             PROVE  GameInv'
  OBVIOUS
<1>1. CASE Select
  BY <1>1, EnterKeeps, ShootKeeps, LeaveKeeps, TakeBulletKeeps, TakeFishKeeps, PayKeeps,
     MarkFishKeeps, UnlockFishKeeps, SpendBulletKeeps, FreeFishKeeps, FreeBulletsKeeps
     DEF Select
<1>2. CASE FishThread
  BY <1>2, FishWalkKeeps, FishCreateKeeps, FishDestroyKeeps, WalkFaultKeeps DEF FishThread
<1>3. CASE BulletThread
  BY <1>3, BulletWalkKeeps, BulletDestroyKeeps, WalkFaultKeeps DEF BulletThread
<1>4. CASE UNCHANGED vars
  <2>1. BeforeClear'
    BY <1>4 DEF GameInv, BeforeClear, vars, player, fishList, bulletList, select, fishThread,
                bulletThread
  <2> QED BY <1>4, <2>1, Frame, CoverKept
          DEF GameInv, TypeOK, vars, player, fishList, bulletList, select, fishThread,
              bulletThread
<1> QED BY <1>1, <1>2, <1>3, <1>4 DEF Next

(* The inductive invariant holds.                                          *)
THEOREM GameSafe == Spec => []GameInv
BY GameInit, GameStep, PTL DEF Spec

(* hitFish, entry.hpp: a fish pays once, in a room of any size, with any     *)
(* players, and whatever Thread::fish frees and adds in between.            *)
THEOREM EveryFishPaysOnce == Spec => []FishPaysOnce
<1>1. GameInv => FishPaysOnce
  BY DEF GameInv, PaidIsMarked, FishPaysOnce
<1> QED BY <1>1, GameSafe, PTL

(* Nobody is paid for more fish than bullets he has bought, for any number   *)
(* of shots, although Thread::bullet frees bullets that hitFish is using.   *)
THEOREM ShotsCoverKills == Spec => []BulletsCoverKills
<1>1. GameInv => BulletsCoverKills
  BY DEF GameInv
<1> QED BY <1>1, GameSafe, PTL

(* getID gives no id twice, as long as there are no more nodes than ids.    *)
THEOREM EveryIdUnique == Spec => []IdsUnique
<1>1. GameInv => IdsUnique
  BY DEF GameInv, FishIdsOnce, BulletIdsOnce, IdsUnique
<1> QED BY <1>1, GameSafe, PTL

(* A room never has more fish than Thread::fish would let it have, although  *)
(* it looks before it takes the lock and inRoom adds one.                   *)
THEOREM RoomBounded == Spec => []FishBounded
<1>1. GameInv => FishBounded
  BY DEF GameInv, RoomToGrow, FishBounded
<1> QED BY <1>1, GameSafe, PTL

(* Until a room is cleared for the first time no thread's pointer outlives   *)
(* its node.                                                               *)
THEOREM SafeInFirstUse == Spec => []SafeUntilCleared
<1>1. GameInv => SafeUntilCleared
  BY DEF GameInv, BeforeClear, SafeUntilCleared, HeldFishAlive, WalkersSafe
<1> QED BY <1>1, GameSafe, PTL

----------------------------------------------------------------------------
(* The lists as NodeSeq has them.                                          *)

(* What Without takes out, RemoveAt takes out.                             *)
LEMMA WithoutIsRemoval ==
  ASSUME NEW S, NEW list \in Seq(S), NEW n \in Nodes(list)
  PROVE  LET k == Position(list, n)
         IN  /\ k \in DOMAIN list /\ list[k] = n
             /\ Without(list, n) = SubSeq(list, 1, k - 1) \o SubSeq(list, k + 1, Len(list))
<1> DEFINE k == Position(list, n)
           s == SubSeq(list, 1, k - 1)
           u == SubSeq(list, k + 1, Len(list))
           new == Without(list, n)
<1>1. /\ k \in DOMAIN list /\ list[k] = n
      /\ k \in 1 .. Len(list) /\ Len(list) \in Nat
      /\ \A i \in 1 .. Len(list) : list[i] \in S
  BY PositionFound
<1>2. new = [i \in 1 .. Len(list) - 1 |-> IF i < k THEN list[i] ELSE list[i + 1]]
  BY DEF Without
<1> HIDE DEF k
<1>3. s \in Seq(S) /\ Len(s) = k - 1 /\ \A i \in 1 .. k - 1 : s[i] = list[i]
  BY <1>1, SubSeqProperties
<1>4. /\ u \in Seq(S) /\ Len(u) = Len(list) - k
      /\ \A i \in 1 .. Len(list) - k : u[i] = list[i + k]
  BY <1>1, SubSeqProperties
<1> HIDE DEF s, u, new
<1>5. /\ s \o u \in Seq(S) /\ Len(s \o u) = Len(s) + Len(u)
      /\ \A i \in 1 .. Len(s) + Len(u) :
           (s \o u)[i] = IF i <= Len(s) THEN s[i] ELSE u[i - Len(s)]
  BY <1>3, <1>4, ConcatProperties
<1>6. PICK m \in Nat : m = Len(list)
  BY <1>1
<1>7. \A i \in 1 .. m - 1 :
        IF i < k THEN i <= k - 1 /\ i \in 1 .. k - 1
                 ELSE ~(i <= k - 1) /\ i - (k - 1) \in 1 .. m - k
                      /\ i - (k - 1) + k = i + 1
  <2>1. k \in 1 .. m
    BY <1>1, <1>6
  <2> QED BY <1>6, <2>1
<1>8. Len(s) + Len(u) = m - 1
  <2>1. Len(s) = k - 1 /\ Len(u) = m - k /\ k \in 1 .. m
    BY <1>1, <1>3, <1>4, <1>6
  <2> QED BY <2>1
<1>9. ASSUME NEW i \in 1 .. m - 1
      PROVE  (s \o u)[i] = IF i < k THEN list[i] ELSE list[i + 1]
  <2>1. (s \o u)[i] = IF i <= k - 1 THEN s[i] ELSE u[i - (k - 1)]
    BY <1>3, <1>5, <1>8
  <2>2. CASE i < k
    BY <1>3, <1>7, <2>1, <2>2
  <2>3. CASE ~(i < k)
    <3>1. ~(i <= k - 1) /\ i - (k - 1) \in 1 .. Len(list) - k /\ i - (k - 1) + k = i + 1
      BY <1>6, <1>7, <2>3
    <3>2. u[i - (k - 1)] = list[i - (k - 1) + k]
      BY <1>4, <3>1
    <3> QED BY <2>1, <2>3, <3>1, <3>2
  <2> QED BY <2>2, <2>3
<1>10. s \o u = [i \in 1 .. m - 1 |-> (s \o u)[i]]
  <2> DEFINE v == s \o u
  <2>1. v \in Seq(S) /\ Len(v) = m - 1
    BY <1>5, <1>8
  <2> HIDE DEF v
  <2>2. v = [i \in 1 .. m - 1 |-> v[i]]
    BY <2>1, LenProperties
  <2> QED BY <2>2 DEF v
<1>11. s \o u = new
  BY <1>2, <1>6, <1>9, <1>10
<1> QED BY <1>1, <1>11 DEF k, s, u, new

(* A room that has dropped its fish list has no fish.                      *)
GoneIsEmpty == fishsGone => fishs = <<>>

LEMMA GoneStaysEmpty == GoneIsEmpty /\ [Next]_vars => GoneIsEmpty'
<1> SUFFICES ASSUME GoneIsEmpty, [Next]_vars
             PROVE  GoneIsEmpty'
  OBVIOUS
<1>1. CASE Select
  BY <1>1 DEF GoneIsEmpty, Select, Enter, Shoot, Leave, TakeBullet, TakeFish, Pay, MarkFish,
     UnlockFish, SpendBullet, ClearFishBegin, ClearFishEnd, DropFishs, ClearBulletsBegin,
     ClearBulletsEnd, DropBullets, fishList
<1>2. CASE FishThread
  BY <1>2 DEF GoneIsEmpty, FishThread, FishWake, FishGrow, FishCreate, FishHead, FishLock,
     FishIsdel, FishDestroy, FishFault, FishListKept, fishList
<1>3. CASE BulletThread
  BY <1>3 DEF GoneIsEmpty, BulletThread, BulletWake, BulletHead, BulletLook, BulletDestroy,
     BulletFault, BulletIdle, fishList
<1>4. CASE UNCHANGED vars
  BY <1>4 DEF GoneIsEmpty, vars, fishList
<1> QED BY <1>1, <1>2, <1>3, <1>4 DEF Next

LEMMA FishStep ==
  ASSUME TypesFish, GoneIsEmpty, [Next]_vars
  PROVE  [FishList!Next]_fishs
<1>1. CASE Select
  <2>1. CASE \E p \in Player : Enter(p)
    <3>1. CASE UNCHANGED fishs
      BY <3>1
    <3>2. CASE ~ UNCHANGED fishs
      <4>1. PICK f \in FishNode : fishsGone /\ fishs' = <<f>>
        BY <2>1, <3>2 DEF Enter, fishList
      <4>2. fishs = <<>> /\ fishs' = Append(fishs, f) /\ f \notin FishList!ToSet(fishs)
        BY <4>1 DEF GoneIsEmpty, FishList!ToSet
      <4> QED BY <4>2 DEF FishList!Next, FishList!Create
    <3> QED BY <3>1, <3>2
  <2>2. CASE ClearFishEnd \/ DropFishs
    BY <2>2 DEF ClearFishEnd, DropFishs, FishList!Next, FishList!Clear
  <2>3. CASE ~ (\E p \in Player : Enter(p)) /\ ~ (ClearFishEnd \/ DropFishs)
    BY <1>1, <2>3 DEF Select, Shoot, Leave, TakeBullet, TakeFish, Pay, MarkFish, UnlockFish,
       SpendBullet, ClearFishBegin, ClearBulletsBegin, ClearBulletsEnd, DropBullets, fishList
  <2> QED BY <2>1, <2>2, <2>3
<1>2. CASE FishThread
  <2>1. CASE FishCreate
    <3>1. PICK f \in FishNode : f \notin Nodes(fishs) /\ fishs' = Append(fishs, f)
      BY <2>1 DEF FishCreate, CreateFish
    <3> QED BY <3>1 DEF Nodes, FishList!ToSet, FishList!Next, FishList!Create
  <2>2. CASE FishDestroy
    <3>1. fishP \in Nodes(fishs) /\ fishs' = Without(fishs, fishP)
      BY <2>2 DEF FishDestroy
    <3>2. fishs \in Seq(FishNode) /\ fishP \in FishNode
      BY <3>1, NodesInside DEF TypesFish
    <3>3. FishList!Destroy(fishP)
      BY <3>1, <3>2, WithoutIsRemoval DEF FishList!Destroy, FishList!RemoveAt
    <3> QED BY <3>2, <3>3 DEF FishList!Next
  <2>3. CASE ~ (FishCreate \/ FishDestroy)
    BY <1>2, <2>3 DEF FishThread, FishWake, FishGrow, FishHead, FishLock, FishIsdel, FishFault,
       FishListKept, fishList
  <2> QED BY <2>1, <2>2, <2>3
<1>3. CASE BulletThread
  BY <1>3 DEF BulletThread, BulletWake, BulletHead, BulletLook, BulletDestroy, BulletFault,
     BulletIdle, fishList
<1>4. CASE UNCHANGED vars
  BY <1>4 DEF vars, fishList
<1> QED BY <1>1, <1>2, <1>3, <1>4 DEF Next

LEMMA BulletStep ==
  ASSUME TypesBullet, [Next]_vars
  PROVE  [BulletList!Next]_bullets
<1>1. CASE Select
  <2>1. CASE \E p \in Player : Enter(p)
    BY <2>1 DEF Enter, bulletList, BulletList!Next, BulletList!Clear
  <2>2. CASE ClearBulletsEnd
    BY <2>2 DEF ClearBulletsEnd, BulletList!Next, BulletList!Clear
  <2>3. CASE \E p \in Player : Shoot(p)
    <3>1. PICK b \in BulletNode : b \notin Nodes(bullets) /\ bullets' = Append(bullets, b)
      BY <2>3 DEF Shoot, CreateBullet
    <3> QED BY <3>1 DEF Nodes, BulletList!ToSet, BulletList!Next, BulletList!Create
  <2>4. CASE ~ (\E p \in Player : Enter(p) \/ Shoot(p)) /\ ~ ClearBulletsEnd
    BY <1>1, <2>4 DEF Select, Leave, TakeBullet, TakeFish, Pay, MarkFish, UnlockFish,
       SpendBullet, ClearFishBegin, ClearFishEnd, DropFishs, ClearBulletsBegin, DropBullets,
       bulletList
  <2> QED BY <2>1, <2>2, <2>3, <2>4
<1>2. CASE FishThread
  BY <1>2 DEF FishThread, FishWake, FishGrow, FishCreate, FishHead, FishLock, FishIsdel,
     FishDestroy, FishFault, FishIdle, bulletList
<1>3. CASE BulletThread
  <2>1. CASE BulletDestroy
    <3>1. bulletP \in Nodes(bullets) /\ bullets' = Without(bullets, bulletP)
      BY <2>1 DEF BulletDestroy
    <3>2. bullets \in Seq(BulletNode) /\ bulletP \in BulletNode
      BY <3>1, NodesInside DEF TypesBullet
    <3>3. BulletList!Destroy(bulletP)
      BY <3>1, <3>2, WithoutIsRemoval DEF BulletList!Destroy, BulletList!RemoveAt
    <3> QED BY <3>2, <3>3 DEF BulletList!Next
  <2>2. CASE ~ BulletDestroy
    BY <1>3, <2>2 DEF BulletThread, BulletWake, BulletHead, BulletLook, BulletFault, bulletList
  <2> QED BY <2>1, <2>2
<1>4. CASE UNCHANGED vars
  BY <1>4 DEF vars, bulletList
<1> QED BY <1>1, <1>2, <1>3, <1>4 DEF Next

(* The select thread and Thread::fish and Thread::bullet together use each   *)
(* list as NodeSeq, which LinkedList's code implements, promises it: every   *)
(* step of the game is one create, destroy or clear of a list, or none.     *)
THEOREM GameUsesLists == Spec => FishList!Spec /\ BulletList!Spec
<1>1. Init => GoneIsEmpty /\ FishList!Init /\ BulletList!Init
  BY DEF Init, GoneIsEmpty, FishList!Init, BulletList!Init
<1>2. GameInv => TypesFish /\ TypesBullet
  BY DEF GameInv, TypeOK
<1>3. TypesFish /\ GoneIsEmpty /\ [Next]_vars => [FishList!Next]_fishs
  BY FishStep
<1>4. TypesBullet /\ [Next]_vars => [BulletList!Next]_bullets
  BY BulletStep
<1> QED BY <1>1, <1>2, <1>3, <1>4, GameSafe, GoneStaysEmpty, PTL
        DEF Spec, FishList!Spec, BulletList!Spec
=============================================================================
