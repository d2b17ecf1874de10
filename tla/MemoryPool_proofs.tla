-------------------------- MODULE MemoryPool_proofs --------------------------
(***************************************************************************)
(* The allocator hands out disjoint memory, for every size of the region,   *)
(* every set of callers and every set of request sizes (MemoryPool); and      *)
(* overlapping calls that do not meet do what they would do one at a time     *)
(* (PoolRace).                                                             *)
(***************************************************************************)
EXTENDS PoolRace, FiniteSetTheorems, TLAPS

----------------------------------------------------------------------------
(* The layout memory_init computes.                                        *)

LEMMA BlocksNat == \A c \in Class : Blocks(c) \in Nat
<1> SUFFICES ASSUME NEW c \in Class PROVE Blocks(c) \in Nat
  OBVIOUS
<1>1. c \in {1, 2, 3}
  BY DEF Class
<1>2. Granted * Share(c) \in Nat
  BY <1>1, PoolAssumption DEF Granted, Share
<1>3. (Granted * Share(c)) % UInt \in Nat
  BY <1>2, PoolAssumption
<1>4. GrantedTo(c) \in Nat
  BY <1>3 DEF GrantedTo
<1>5. BlockSize(c) \in Nat \ {0}
  BY <1>1 DEF BlockSize
<1> HIDE DEF GrantedTo, BlockSize
<1>6. CASE c = 1
  BY <1>4, <1>6 DEF Blocks, BlockSize
<1>7. CASE c = 2
  BY <1>4, <1>7 DEF Blocks, BlockSize
<1>8. CASE c = 3
  BY <1>4, <1>8 DEF Blocks, BlockSize
<1> QED BY <1>1, <1>6, <1>7, <1>8

(* The layout written out, for the arithmetic below.                       *)
LEMMA Layout ==
  /\ Class = {1, 2, 3}
  /\ Blocks(1) \in Nat /\ Blocks(2) \in Nat /\ Blocks(3) \in Nat
  /\ BlockSize(1) = 50 /\ BlockSize(2) = 200 /\ BlockSize(3) = 1000
  /\ BitStart(1) = 0
  /\ BitStart(2) = Blocks(1)
  /\ BitStart(3) = Blocks(1) + Blocks(2)
  /\ Start(1) = 0
  /\ Start(2) = Blocks(1) * 50
  /\ Start(3) = Blocks(1) * 50 + Blocks(2) * 200
  /\ Bits(1) = 0 .. Blocks(1) - 1
  /\ Bits(2) = Blocks(1) .. Blocks(1) + Blocks(2) - 1
  /\ Bits(3) = Blocks(1) + Blocks(2) .. Blocks(1) + Blocks(2) + Blocks(3) - 1
  /\ End(1) = Blocks(1) * 50
  /\ End(2) = Blocks(1) * 50 + Blocks(2) * 200
  /\ End(3) = Blocks(1) * 50 + Blocks(2) * 200 + Blocks(3) * 1000
<1>1. Class = {1, 2, 3}
  BY DEF Class
<1>2. Blocks(1) \in Nat /\ Blocks(2) \in Nat /\ Blocks(3) \in Nat
  BY BlocksNat, <1>1
<1>3. BlockSize(1) = 50 /\ BlockSize(2) = 200 /\ BlockSize(3) = 1000
  BY DEF BlockSize
<1>4. /\ BitStart(1) = 0
      /\ BitStart(2) = Blocks(1)
      /\ BitStart(3) = Blocks(1) + Blocks(2)
  BY DEF BitStart
<1>5. /\ Start(1) = 0
      /\ Start(2) = Blocks(1) * 50
      /\ Start(3) = Blocks(1) * 50 + Blocks(2) * 200
  BY DEF Start
<1>6. /\ Bits(1) = 0 .. Blocks(1) - 1
      /\ Bits(2) = Blocks(1) .. Blocks(1) + Blocks(2) - 1
      /\ Bits(3) = Blocks(1) + Blocks(2) .. Blocks(1) + Blocks(2) + Blocks(3) - 1
  BY <1>2, <1>4 DEF BitEnd, Bits
<1>7. /\ End(1) = Start(1) + Blocks(1) * BlockSize(1)
      /\ End(2) = Start(2) + Blocks(2) * BlockSize(2)
      /\ End(3) = Start(3) + Blocks(3) * BlockSize(3)
  BY DEF End
<1>8. /\ End(1) = Blocks(1) * 50
      /\ End(2) = Blocks(1) * 50 + Blocks(2) * 200
      /\ End(3) = Blocks(1) * 50 + Blocks(2) * 200 + Blocks(3) * 1000
  BY <1>2, <1>3, <1>5, <1>7
<1> QED BY <1>1, <1>2, <1>3, <1>4, <1>5, <1>6, <1>8

LEMMA ClassFacts ==
  ASSUME NEW c \in Class
  PROVE  /\ Blocks(c) \in Nat
         /\ BlockSize(c) \in {50, 200, 1000}
         /\ BlockSize(c) \in Nat \ {0}
         /\ Start(c) \in Nat /\ BitStart(c) \in Nat
         /\ End(c) = Start(c) + Blocks(c) * BlockSize(c)
         /\ End(c) \in Nat
         /\ Bits(c) = BitStart(c) .. BitStart(c) + Blocks(c) - 1
         /\ End(c) <= End(3)
<1> USE Layout
<1>1. CASE c = 1 BY <1>1, SMTT(60)
<1>2. CASE c = 2 BY <1>2, SMTT(60)
<1>3. CASE c = 3 BY <1>3, SMTT(60)
<1> QED BY <1>1, <1>2, <1>3

LEMMA ClassesInOrder ==
  ASSUME NEW c \in Class, NEW d \in Class, c < d
  PROVE  End(c) <= Start(d) /\ BitStart(c) + Blocks(c) <= BitStart(d)
<1> USE Layout
<1>1. CASE c = 1 /\ d = 2 BY <1>1, SMTT(60)
<1>2. CASE c = 1 /\ d = 3 BY <1>2, SMTT(60)
<1>3. CASE c = 2 /\ d = 3 BY <1>3, SMTT(60)
<1> QED BY <1>1, <1>2, <1>3, SMTT(60)

(* Whole blocks of one size, laid end to end.                              *)
LEMMA WholeBlocks ==
  ASSUME NEW n \in Nat, NEW z \in {50, 200, 1000}, NEW k \in 0 .. n - 1
  PROVE  /\ k * z \in Nat
         /\ k * z + z <= n * z
         /\ (k * z) \div z = k
         /\ \A j \in 0 .. n - 1 : j # k => k * z + z <= j * z \/ j * z + z <= k * z
<1>1. CASE z = 50 BY <1>1
<1>2. CASE z = 200 BY <1>2
<1>3. CASE z = 1000 BY <1>3
<1> QED BY <1>1, <1>2, <1>3

(* The address of a block lies in its class, and the block ends in it.     *)
LEMMA AddressBounds ==
  ASSUME NEW c \in Class, NEW i \in Bits(c)
  PROVE  /\ i - BitStart(c) \in 0 .. Blocks(c) - 1
         /\ AddressOf(c, i) \in Nat
         /\ Start(c) <= AddressOf(c, i)
         /\ AddressOf(c, i) + BlockSize(c) <= End(c)
<1>1. i - BitStart(c) \in 0 .. Blocks(c) - 1
  BY ClassFacts
<1> DEFINE off == (i - BitStart(c)) * BlockSize(c)
<1>2. off \in Nat /\ off + BlockSize(c) <= Blocks(c) * BlockSize(c)
  <2>1. Blocks(c) \in Nat /\ BlockSize(c) \in {50, 200, 1000}
    BY ClassFacts
  <2> QED BY <1>1, <2>1, WholeBlocks
<1>3. AddressOf(c, i) = Start(c) + off
  BY DEF AddressOf
<1>4. BlockSize(c) \in Nat /\ Blocks(c) * BlockSize(c) \in Nat
  BY ClassFacts
<1> HIDE DEF off
<1> DEFINE all == Blocks(c) * BlockSize(c)
<1>5. Start(c) \in Nat /\ End(c) = Start(c) + all
  BY ClassFacts
<1> HIDE DEF all
<1>6. off + BlockSize(c) <= all /\ all \in Nat
  BY <1>2, <1>4 DEF all
<1> QED BY <1>1, <1>2, <1>3, <1>4, <1>5, <1>6

(* Two blocks do not overlap.                                              *)
LEMMA BlocksApart ==
  ASSUME NEW c \in Class, NEW i \in Bits(c), NEW d \in Class, NEW j \in Bits(d)
  PROVE  \/ c = d /\ i = j
         \/ AddressOf(c, i) + BlockSize(c) <= AddressOf(d, j)
         \/ AddressOf(d, j) + BlockSize(d) <= AddressOf(c, i)
<1>1. /\ AddressOf(c, i) \in Nat /\ Start(c) <= AddressOf(c, i)
      /\ AddressOf(c, i) + BlockSize(c) <= End(c)
      /\ AddressOf(d, j) \in Nat /\ Start(d) <= AddressOf(d, j)
      /\ AddressOf(d, j) + BlockSize(d) <= End(d)
  BY AddressBounds
<1>2. /\ Start(c) \in Nat /\ End(c) \in Nat /\ BlockSize(c) \in Nat
      /\ Start(d) \in Nat /\ End(d) \in Nat /\ BlockSize(d) \in Nat
  BY ClassFacts
<1>3. CASE c = d /\ i # j
  <2> DEFINE k == i - BitStart(c)
             l == j - BitStart(c)
             z == BlockSize(c)
  <2>1. k \in 0 .. Blocks(c) - 1 /\ l \in 0 .. Blocks(c) - 1
    BY <1>3, AddressBounds
  <2>2. k # l
    BY <1>3, ClassFacts
  <2>3. AddressOf(c, i) = Start(c) + k * z /\ AddressOf(d, j) = Start(c) + l * z
    BY <1>3 DEF AddressOf
  <2>4. k * z \in Nat /\ l * z \in Nat /\ (k * z + z <= l * z \/ l * z + z <= k * z)
    <3>1. Blocks(c) \in Nat /\ z \in {50, 200, 1000}
      BY ClassFacts
    <3> HIDE DEF k, l, z
    <3> QED BY <2>1, <2>2, <3>1, WholeBlocks
  <2> DEFINE kz == k * z
             lz == l * z
  <2>5. /\ AddressOf(c, i) = Start(c) + kz /\ AddressOf(d, j) = Start(c) + lz
        /\ kz \in Nat /\ lz \in Nat /\ (kz + z <= lz \/ lz + z <= kz)
    BY <2>3, <2>4
  <2> HIDE DEF kz, lz
  <2> QED BY <1>2, <1>3, <2>5
<1>4. CASE c < d
  BY <1>1, <1>2, <1>4, ClassesInOrder
<1>5. CASE d < c
  BY <1>1, <1>2, <1>5, ClassesInOrder
<1>6. c \in Int /\ d \in Int
  BY DEF Class
<1> QED BY <1>3, <1>4, <1>5, <1>6

(* A bit belongs to one class.                                             *)
LEMMA BitsApart ==
  ASSUME NEW c \in Class, NEW d \in Class, NEW i \in Bits(c), i \in Bits(d)
  PROVE  c = d
<1>1. c \in Int /\ d \in Int
  BY DEF Class
<1>2. /\ i \in Int /\ BitStart(c) <= i /\ i < BitStart(c) + Blocks(c)
      /\ BitStart(d) <= i /\ i < BitStart(d) + Blocks(d)
      /\ BitStart(c) \in Nat /\ BitStart(d) \in Nat
      /\ Blocks(c) \in Nat /\ Blocks(d) \in Nat
  <2>1. /\ BitStart(c) \in Nat /\ Blocks(c) \in Nat
        /\ Bits(c) = BitStart(c) .. BitStart(c) + Blocks(c) - 1
    BY ClassFacts
  <2>2. /\ BitStart(d) \in Nat /\ Blocks(d) \in Nat
        /\ Bits(d) = BitStart(d) .. BitStart(d) + Blocks(d) - 1
    BY ClassFacts
  <2> QED BY <2>1, <2>2
<1>3. ~(c < d)
  <2> SUFFICES ASSUME c < d PROVE FALSE
    OBVIOUS
  <2>1. BitStart(c) + Blocks(c) <= BitStart(d)
    BY ClassesInOrder
  <2> QED BY <1>2, <2>1
<1>4. ~(d < c)
  <2> SUFFICES ASSUME d < c PROVE FALSE
    OBVIOUS
  <2>1. BitStart(d) + Blocks(d) <= BitStart(c)
    BY ClassesInOrder
  <2> QED BY <1>2, <2>1
<1> QED BY <1>1, <1>3, <1>4

(* memory_free finds the class and the bit memory_alloc took.              *)
LEMMA RoundTrip ==
  ASSUME NEW c \in Class, NEW i \in Bits(c)
  PROVE  /\ HoldsAddress(c, AddressOf(c, i))
         /\ \A d \in Class : HoldsAddress(d, AddressOf(c, i)) => d = c
         /\ BitAt(c, AddressOf(c, i)) = i
         /\ InPool(AddressOf(c, i))
<1>1. /\ AddressOf(c, i) \in Nat /\ Start(c) <= AddressOf(c, i)
      /\ AddressOf(c, i) + BlockSize(c) <= End(c)
      /\ End(c) <= End(3)
  BY AddressBounds, ClassFacts
<1>2. BlockSize(c) \in Nat \ {0} /\ End(c) \in Nat /\ End(3) \in Nat /\ Start(c) \in Nat
  <2>1. 3 \in Class
    BY DEF Class
  <2> QED BY <2>1, ClassFacts
<1>3. HoldsAddress(c, AddressOf(c, i)) /\ InPool(AddressOf(c, i))
  BY <1>1, <1>2 DEF HoldsAddress, InPool
<1>4. ASSUME NEW d \in Class, HoldsAddress(d, AddressOf(c, i)), d # c
      PROVE  FALSE
  <2>1. c < d \/ d < c
    BY <1>4 DEF Class
  <2>2. End(c) <= Start(d) \/ End(d) <= Start(c)
    BY <2>1, ClassesInOrder
  <2>3. Start(d) \in Nat /\ End(d) \in Nat
    BY ClassFacts
  <2> QED BY <1>1, <1>2, <1>4, <2>2, <2>3 DEF HoldsAddress
<1>5. BitAt(c, AddressOf(c, i)) = i
  <2> DEFINE k == i - BitStart(c)
             kz == k * BlockSize(c)
  <2>1. k \in 0 .. Blocks(c) - 1
    BY AddressBounds
  <2>2. kz \in Nat /\ kz \div BlockSize(c) = k
    <3>1. Blocks(c) \in Nat /\ BlockSize(c) \in {50, 200, 1000}
      BY ClassFacts
    <3> HIDE DEF k
    <3> QED BY <2>1, <3>1, WholeBlocks
  <2>3. AddressOf(c, i) = Start(c) + kz
    BY DEF AddressOf
  <2> HIDE DEF kz
  <2>4. AddressOf(c, i) - Start(c) = kz
    BY <1>2, <2>2, <2>3
  <2>5. BitAt(c, AddressOf(c, i)) = k + BitStart(c)
    BY <2>2, <2>4 DEF BitAt
  <2>6. i \in Int /\ BitStart(c) \in Int
    BY ClassFacts
  <2> QED BY <2>5, <2>6
<1> QED BY <1>3, <1>4, <1>5

----------------------------------------------------------------------------
(* The invariant.                                                          *)

LEMMA PoolInit == ASSUME Init PROVE PoolInv
<1> USE DEF Init
<1>1. TypeOK
  <2>1. End(3) \in Nat
    BY Layout, SMTT(60)
  <2>2. ptr \in [Handle -> Outside .. End(3) - 1]
    BY <2>1 DEF Outside
  <2> QED BY <2>2 DEF TypeOK
<1>2. OnePerBlock /\ BitsAreLive /\ FreshBeyondCursor
  BY DEF OnePerBlock, BitsAreLive, FreshBeyondCursor
<1>3. CountsExplained
  <2>1. \A c \in Class : used \cap Bits(c) = {}
    OBVIOUS
  <2>2. \A c \in Class : Cardinality(used \cap Bits(c)) = 0
    BY <2>1, FS_EmptySet
  <2> QED BY <2>2 DEF CountsExplained, Class
<1> QED BY <1>1, <1>2, <1>3 DEF PoolInv

(* A search finds a free block no further than row 6 points.               *)
LEMMA PickIsFree ==
  ASSUME PoolInv, NEW c \in Class, NEW i \in Bits(c), Picks(c, i)
  PROVE  i \notin used /\ i <= BitStart(c) + cursor[c]
<1>1. i \notin used
  BY DEF Picks, Above, Below
<1>2. /\ BitStart(c) \in Nat /\ Blocks(c) \in Nat /\ cursor[c] \in Nat
      /\ Bits(c) = BitStart(c) .. BitStart(c) + Blocks(c) - 1
  BY ClassFacts DEF PoolInv, TypeOK
<1>3. CASE cursor[c] >= Blocks(c)
  BY <1>1, <1>2, <1>3
<1>4. CASE cursor[c] < Blocks(c)
  <2>1. From(c) = BitStart(c) + cursor[c]
    BY <1>2, <1>4 DEF From
  <2>2. From(c) \in Bits(c)
    BY <1>2, <1>4, <2>1
  <2>3. From(c) \notin used
    <3>1. \A j \in Bits(c) : j >= BitStart(c) + cursor[c] => j \notin used
      BY DEF PoolInv, FreshBeyondCursor
    <3>2. From(c) >= BitStart(c) + cursor[c]
      BY <1>2, <2>1
    <3> QED BY <2>2, <3>1, <3>2
  <2>4. From(c) \in Above(c)
    BY <1>2, <2>1, <2>2, <2>3 DEF Above
  <2> QED BY <1>1, <2>1, <2>4 DEF Picks
<1> QED BY <1>2, <1>3, <1>4

(* Adding or removing one bit changes the number of bits of its class.     *)
LEMMA CountBits ==
  ASSUME NEW c \in Class, NEW i \in Bits(c), NEW S
  PROVE  /\ Cardinality(S \cap Bits(c)) \in Nat
         /\ i \notin S => Cardinality((S \cup {i}) \cap Bits(c))
                           = Cardinality(S \cap Bits(c)) + 1
         /\ i \in S => Cardinality((S \ {i}) \cap Bits(c))
                       = Cardinality(S \cap Bits(c)) - 1
         /\ \A d \in Class \ {c} :
              /\ (S \cup {i}) \cap Bits(d) = S \cap Bits(d)
              /\ (S \ {i}) \cap Bits(d) = S \cap Bits(d)
<1> DEFINE T == S \cap Bits(c)
<1>1. IsFiniteSet(Bits(c))
  <2>1. /\ BitStart(c) \in Int /\ BitStart(c) + Blocks(c) - 1 \in Int
        /\ Bits(c) = BitStart(c) .. BitStart(c) + Blocks(c) - 1
    <3>1. /\ BitStart(c) \in Nat /\ Blocks(c) \in Nat
          /\ Bits(c) = BitStart(c) .. BitStart(c) + Blocks(c) - 1
      BY ClassFacts
    <3> QED BY <3>1
  <2> QED BY <2>1, FS_Interval
<1>2. IsFiniteSet(T)
  BY <1>1, FS_Subset
<1>3. (S \cup {i}) \cap Bits(c) = T \cup {i} /\ (S \ {i}) \cap Bits(c) = T \ {i}
  OBVIOUS
<1>4. i \in T <=> i \in S
  OBVIOUS
<1>5. \A d \in Class \ {c} : i \notin Bits(d)
  BY BitsApart
<1> HIDE DEF T
<1>6. /\ Cardinality(T) \in Nat
      /\ Cardinality(T \cup {i}) = IF i \in T THEN Cardinality(T) ELSE Cardinality(T) + 1
      /\ Cardinality(T \ {i}) = IF i \in T THEN Cardinality(T) - 1 ELSE Cardinality(T)
  BY <1>2, FS_CardinalityType, FS_AddElement, FS_RemoveElement
<1>7. \A d \in Class \ {c} : /\ (S \cup {i}) \cap Bits(d) = S \cap Bits(d)
                            /\ (S \ {i}) \cap Bits(d) = S \cap Bits(d)
  BY <1>5
<1> QED BY <1>3, <1>4, <1>6, <1>7 DEF T

(* The bytes row 7 stands for, and one more block of them.                 *)
Counted(f) == 50 * f[1] + 200 * f[2] + 1000 * f[3]

LEMMA OneMoreBlock ==
  ASSUME NEW f \in [Class -> Nat], NEW g \in [Class -> Nat], NEW c \in Class,
         \A d \in Class : g[d] = IF d = c THEN f[d] + 1 ELSE f[d]
  PROVE  Counted(g) = Counted(f) + BlockSize(c) /\ Counted(f) \in Nat
<1>1. f[1] \in Nat /\ f[2] \in Nat /\ f[3] \in Nat
  BY DEF Class
<1> DEFINE a == 50 * f[1]
           b == 200 * f[2]
           e == 1000 * f[3]
<1>2. a \in Nat /\ b \in Nat /\ e \in Nat
  BY <1>1
<1>3. CASE c = 1
  <2>1. g[1] = f[1] + 1 /\ g[2] = f[2] /\ g[3] = f[3]
    BY <1>3 DEF Class
  <2>2. 50 * g[1] = a + 50
    BY <1>1, <2>1
  <2>3. Counted(g) = (a + 50) + b + e /\ Counted(f) = a + b + e
    BY <2>1, <2>2 DEF Counted
  <2> HIDE DEF a, b, e
  <2> QED BY <1>2, <1>3, <2>3, Layout
<1>4. CASE c = 2
  <2>1. g[2] = f[2] + 1 /\ g[1] = f[1] /\ g[3] = f[3]
    BY <1>4 DEF Class
  <2>2. 200 * g[2] = b + 200
    BY <1>1, <2>1
  <2>3. Counted(g) = a + (b + 200) + e /\ Counted(f) = a + b + e
    BY <2>1, <2>2 DEF Counted
  <2> HIDE DEF a, b, e
  <2> QED BY <1>2, <1>4, <2>3, Layout
<1>5. CASE c = 3
  <2>1. g[3] = f[3] + 1 /\ g[1] = f[1] /\ g[2] = f[2]
    BY <1>5 DEF Class
  <2>2. 1000 * g[3] = e + 1000
    BY <1>1, <2>1
  <2>3. Counted(g) = a + b + (e + 1000) /\ Counted(f) = a + b + e
    BY <2>1, <2>2 DEF Counted
  <2> HIDE DEF a, b, e
  <2> QED BY <1>2, <1>5, <2>3, Layout
<1> QED BY <1>3, <1>4, <1>5 DEF Class

LEMMA AllocBlockStep ==
  ASSUME PoolInv, NEW h \in Handle, NEW n \in Request, AllocBlock(h, n)
  PROVE  PoolInv'
<1>0. PICK c \in Class : \E i \in Bits(c) :
        /\ Serves(c, n)
        /\ Picks(c, i)
        /\ Count(c)
        /\ used' = used \cup {i}
        /\ cursor' = [cursor EXCEPT ![c] = @ + 1]
        /\ HandOut(h, AddressOf(c, i), n)
  BY DEF AllocBlock
<1>1. PICK i \in Bits(c) :
        /\ Serves(c, n)
        /\ Picks(c, i)
        /\ use' = use + BlockSize(c)
        /\ count' = [count EXCEPT ![c] = @ + 1]
        /\ used' = used \cup {i}
        /\ cursor' = [cursor EXCEPT ![c] = @ + 1]
        /\ live' = live \cup {h}
        /\ ptr' = [ptr EXCEPT ![h] = AddressOf(c, i)]
        /\ size' = [size EXCEPT ![h] = n]
        /\ mallocCount' = mallocCount + 1
  BY <1>0 DEF HandOut, Count
<1>2. h \notin live /\ systemUse' = systemUse /\ fallen' = fallen
  BY DEF AllocBlock
<1>3. TypeOK /\ OnePerBlock /\ BitsAreLive /\ FreshBeyondCursor /\ CountsExplained
  BY DEF PoolInv
<1>4. i \notin used /\ i <= BitStart(c) + cursor[c]
  BY <1>1, PickIsFree
<1>5. n \in Nat /\ n <= BlockSize(c)
  BY <1>1, PoolAssumption DEF Serves
<1>6. /\ AddressOf(c, i) \in Nat /\ AddressOf(c, i) <= End(3) - 1
      /\ BlockSize(c) \in Nat
  <2>1. /\ AddressOf(c, i) \in Nat
        /\ AddressOf(c, i) + BlockSize(c) <= End(c)
    BY AddressBounds
  <2>2. /\ BlockSize(c) \in Nat \ {0} /\ End(c) \in Nat /\ End(c) <= End(3)
    BY ClassFacts
  <2>3. End(3) \in Nat
    BY ClassFacts DEF Class
  <2> QED BY <2>1, <2>2, <2>3
<1>7. \A g \in live : ptr[g] # AddressOf(c, i)
  BY <1>3, <1>4 DEF BitsAreLive
<1>8. \A g \in Handle :
        /\ ptr'[g] = (IF g = h THEN AddressOf(c, i) ELSE ptr[g])
        /\ size'[g] = (IF g = h THEN n ELSE size[g])
  BY <1>1, <1>3 DEF TypeOK
<1>9. TypeOK'
  <2>1. used' \subseteq UNION {Bits(d) : d \in Class}
    BY <1>1, <1>3 DEF TypeOK
  <2>2. ptr' \in [Handle -> Outside .. End(3) - 1]
    <3>1. End(3) \in Nat
      BY ClassFacts DEF Class
    <3>2. AddressOf(c, i) \in Outside .. End(3) - 1
      BY <1>6, <3>1 DEF Outside
    <3> QED BY <1>1, <1>3, <3>2 DEF TypeOK
  <2>3. size' \in [Handle -> Nat] /\ live' \subseteq Handle
    BY <1>1, <1>3, <1>5 DEF TypeOK
  <2>4. cursor' \in [Class -> Nat] /\ count' \in [Class -> Nat]
    BY <1>1, <1>3 DEF TypeOK
  <2>5. use' \in Nat /\ mallocCount' \in Nat
    BY <1>1, <1>3, <1>6 DEF TypeOK
  <2> QED BY <1>2, <1>3, <2>1, <2>2, <2>3, <2>4, <2>5 DEF TypeOK
<1>10. OnePerBlock'
  <2> SUFFICES ASSUME NEW g \in live', InPool(ptr'[g])
               PROVE  /\ \E d \in Class : \E j \in Bits(d) :
                           ptr'[g] = AddressOf(d, j) /\ size'[g] <= BlockSize(d)
                      /\ \A f \in live' : ptr'[f] = ptr'[g] => f = g
    BY DEF OnePerBlock, InPool
  <2>1. live \subseteq Handle /\ live' = live \cup {h}
    BY <1>1, <1>3 DEF TypeOK
  <2>2. CASE g = h
    BY <1>5, <1>7, <1>8, <2>1, <2>2
  <2>3. CASE g # h
    <3>1. g \in live /\ ptr'[g] = ptr[g] /\ size'[g] = size[g]
      BY <1>8, <2>1, <2>3
    <3>2. /\ \E d \in Class : \E j \in Bits(d) :
               ptr[g] = AddressOf(d, j) /\ size[g] <= BlockSize(d)
          /\ \A f \in live : ptr[f] = ptr[g] => f = g
      BY <1>3, <3>1 DEF OnePerBlock
    <3> QED BY <1>7, <1>8, <2>1, <3>1, <3>2
  <2> QED BY <2>2, <2>3
<1>11. BitsAreLive'
  <2> SUFFICES ASSUME NEW d \in Class, NEW j \in Bits(d)
               PROVE  j \in used' <=> \E g \in live' : ptr'[g] = AddressOf(d, j)
    BY DEF BitsAreLive
  <2>1. live \subseteq Handle /\ live' = live \cup {h} /\ used' = used \cup {i}
    BY <1>1, <1>3 DEF TypeOK
  <2>2. j \in used <=> \E g \in live : ptr[g] = AddressOf(d, j)
    BY <1>3 DEF BitsAreLive
  <2>3. CASE j = i
    <3>1. d = c
      BY <2>3, BitsApart
    <3> QED BY <1>8, <2>1, <2>3, <3>1
  <2>4. CASE j # i
    <3>1. AddressOf(d, j) # AddressOf(c, i)
      <4>1. \/ AddressOf(c, i) + BlockSize(c) <= AddressOf(d, j)
            \/ AddressOf(d, j) + BlockSize(d) <= AddressOf(c, i)
        BY <2>4, BlocksApart
      <4>2. BlockSize(c) \in Nat \ {0} /\ BlockSize(d) \in Nat \ {0}
        BY ClassFacts
      <4>3. AddressOf(c, i) \in Nat /\ AddressOf(d, j) \in Nat
        BY AddressBounds
      <4> QED BY <4>1, <4>2, <4>3
    <3> QED BY <1>2, <1>8, <2>1, <2>2, <2>4, <3>1
  <2> QED BY <2>3, <2>4
<1>12. FreshBeyondCursor'
  <2> SUFFICES ASSUME NEW d \in Class, NEW j \in Bits(d), j >= BitStart(d) + cursor'[d]
               PROVE  j \notin used'
    BY DEF FreshBeyondCursor
  <2>1. /\ BitStart(d) \in Nat /\ j \in Int /\ cursor[d] \in Nat
    <3>1. /\ BitStart(d) \in Nat /\ Blocks(d) \in Nat
          /\ Bits(d) = BitStart(d) .. BitStart(d) + Blocks(d) - 1
      BY ClassFacts
    <3> QED BY <1>3, <3>1 DEF TypeOK
  <2>2. cursor'[d] = IF d = c THEN cursor[d] + 1 ELSE cursor[d]
    BY <1>1, <1>3 DEF TypeOK
  <2>3. j \notin used
    BY <1>3, <2>1, <2>2 DEF FreshBeyondCursor
  <2>4. j # i
    <3>1. CASE d = c
      BY <1>4, <2>1, <2>2, <3>1
    <3>2. CASE d # c
      BY <3>2, BitsApart
    <3> QED BY <3>1, <3>2
  <2> QED BY <1>1, <2>3, <2>4
<1>13. CountsExplained'
  <2>1. ASSUME NEW d \in Class
        PROVE  count'[d] = Cardinality(used' \cap Bits(d)) + fallen'[d]
    <3>1. count[d] = Cardinality(used \cap Bits(d)) + fallen[d]
      BY <1>3 DEF CountsExplained
    <3>2. count[d] \in Nat /\ fallen[d] \in Nat
      BY <1>3 DEF TypeOK
    <3>3. CASE d = c
      <4>1. Cardinality(used' \cap Bits(c)) = Cardinality(used \cap Bits(c)) + 1
            /\ Cardinality(used \cap Bits(c)) \in Nat
        BY <1>1, <1>4, CountBits
      <4>2. count'[c] = count[c] + 1
        BY <1>1, <1>3 DEF TypeOK
      <4> QED BY <1>2, <3>1, <3>2, <3>3, <4>1, <4>2
    <3>4. CASE d # c
      <4>1. used' \cap Bits(d) = used \cap Bits(d)
        <5>1. i \notin Bits(d)
          BY <3>4, BitsApart
        <5> QED BY <1>1, <5>1
      <4>2. count'[d] = count[d]
        BY <1>1, <1>3, <3>4 DEF TypeOK
      <4> QED BY <1>2, <3>1, <4>1, <4>2
    <3> QED BY <3>3, <3>4
  <2>2. use' = 50 * count'[1] + 200 * count'[2] + 1000 * count'[3]
    <3>1. \A d \in Class : count'[d] = IF d = c THEN count[d] + 1 ELSE count[d]
      BY <1>1, <1>3 DEF TypeOK
    <3>2. count \in [Class -> Nat] /\ count' \in [Class -> Nat]
      BY <1>3, <1>9 DEF TypeOK
    <3>3. use' = Counted(count) + BlockSize(c)
      BY <1>1, <1>3 DEF CountsExplained, Counted
    <3>4. use' = Counted(count')
      BY <3>1, <3>2, <3>3, OneMoreBlock
    <3> QED BY <3>4 DEF Counted
  <2> QED BY <2>1, <2>2 DEF CountsExplained
<1> QED BY <1>9, <1>10, <1>11, <1>12, <1>13 DEF PoolInv

(* A step that leaves the bitmap alone and gives or takes a pointer to the *)
(* system heap.                                                            *)
LEMMA OutsideStep ==
  ASSUME PoolInv, NEW h \in Handle,
         UNCHANGED <<used, cursor>>,
         live' \subseteq Handle,
         live \ {h} = live' \ {h},
         h \in live => ~InPool(ptr[h]),
         ptr' = [ptr EXCEPT ![h] = Outside],
         \A g \in Handle \ {h} : size'[g] = size[g]
  PROVE  OnePerBlock' /\ BitsAreLive' /\ FreshBeyondCursor'
         /\ ptr' \in [Handle -> Outside .. End(3) - 1]
<1>1. TypeOK /\ OnePerBlock /\ BitsAreLive /\ FreshBeyondCursor
  BY DEF PoolInv
<1>2. ~InPool(Outside) /\ End(3) \in Nat
  <2>1. End(3) \in Nat
    BY ClassFacts DEF Class
  <2> QED BY <2>1 DEF InPool, Outside
<1>3. \A g \in Handle : ptr'[g] = IF g = h THEN Outside ELSE ptr[g]
  BY <1>1 DEF TypeOK
<1>4. live \subseteq Handle
  BY <1>1 DEF TypeOK
<1>5. OnePerBlock'
  <2> SUFFICES ASSUME NEW g \in live', InPool(ptr'[g])
               PROVE  /\ \E d \in Class : \E j \in Bits(d) :
                           ptr'[g] = AddressOf(d, j) /\ size'[g] <= BlockSize(d)
                      /\ \A f \in live' : ptr'[f] = ptr'[g] => f = g
    BY DEF OnePerBlock, InPool
  <2>1. g # h
    BY <1>2, <1>3
  <2>2. g \in live /\ g \in Handle /\ ptr'[g] = ptr[g] /\ size'[g] = size[g]
    BY <1>3, <1>4, <2>1
  <2>3. /\ \E d \in Class : \E j \in Bits(d) :
             ptr[g] = AddressOf(d, j) /\ size[g] <= BlockSize(d)
        /\ \A f \in live : ptr[f] = ptr[g] => f = g
    BY <1>1, <2>2 DEF OnePerBlock
  <2>4. ASSUME NEW f \in live', ptr'[f] = ptr'[g] PROVE f = g
    <3>1. f # h
      BY <1>2, <1>3, <2>4
    <3> QED BY <1>3, <2>2, <2>3, <2>4, <3>1
  <2> QED BY <2>2, <2>3, <2>4
<1>6. BitsAreLive'
  <2> SUFFICES ASSUME NEW d \in Class, NEW j \in Bits(d)
               PROVE  j \in used <=> \E g \in live' : ptr'[g] = AddressOf(d, j)
    BY DEF BitsAreLive
  <2>1. j \in used <=> \E g \in live : ptr[g] = AddressOf(d, j)
    BY <1>1 DEF BitsAreLive
  <2>2. InPool(AddressOf(d, j))
    BY RoundTrip
  <2>3. \A g \in live : ptr[g] = AddressOf(d, j) => g # h
    BY <2>2
  <2>4. \A g \in live' : ptr'[g] = AddressOf(d, j) => g # h
    BY <1>2, <1>3, <2>2
  <2> QED BY <1>3, <1>4, <2>1, <2>3, <2>4
<1>7. FreshBeyondCursor'
  BY <1>1 DEF FreshBeyondCursor
<1>8. ptr' \in [Handle -> Outside .. End(3) - 1]
  BY <1>1, <1>2 DEF TypeOK, Outside
<1> QED BY <1>5, <1>6, <1>7, <1>8

LEMMA AllocFallbackStep ==
  ASSUME PoolInv, NEW h \in Handle, NEW n \in Request, AllocFallback(h, n)
  PROVE  PoolInv'
<1>1. PICK c \in Class :
        /\ use' = use + BlockSize(c)
        /\ count' = [count EXCEPT ![c] = @ + 1]
        /\ fallen' = [fallen EXCEPT ![c] = @ + 1]
  BY DEF AllocFallback, Count
<1>2. /\ h \notin live
      /\ UNCHANGED <<used, cursor, systemUse>>
      /\ live' = live \cup {h}
      /\ ptr' = [ptr EXCEPT ![h] = Outside]
      /\ size' = [size EXCEPT ![h] = n]
      /\ mallocCount' = mallocCount + 1
  BY DEF AllocFallback, HandOut
<1>3. TypeOK /\ CountsExplained
  BY DEF PoolInv
<1>4. n \in Nat
  BY PoolAssumption
<1>5. \A g \in Handle \ {h} : size'[g] = size[g]
  BY <1>2, <1>3 DEF TypeOK
<1>6. /\ OnePerBlock' /\ BitsAreLive' /\ FreshBeyondCursor'
      /\ ptr' \in [Handle -> Outside .. End(3) - 1]
  <2>1. live' \subseteq Handle /\ live \ {h} = live' \ {h}
    BY <1>2, <1>3 DEF TypeOK
  <2> QED BY <1>2, <1>5, <2>1, OutsideStep
<1>7. \A d \in Class :
        /\ count'[d] = (IF d = c THEN count[d] + 1 ELSE count[d])
        /\ fallen'[d] = (IF d = c THEN fallen[d] + 1 ELSE fallen[d])
        /\ count[d] \in Nat /\ fallen[d] \in Nat
  <2>1. count \in [Class -> Nat] /\ fallen \in [Class -> Nat]
    BY <1>3 DEF TypeOK
  <2> QED BY <1>1, <2>1
<1>8. TypeOK'
  <2>1. BlockSize(c) \in Nat
    BY ClassFacts
  <2>2. size' \in [Handle -> Nat] /\ live' \subseteq Handle
    BY <1>2, <1>3, <1>4 DEF TypeOK
  <2>3. fallen' \in [Class -> Nat] /\ count' \in [Class -> Nat]
    BY <1>1, <1>3 DEF TypeOK
  <2>4. use' \in Nat /\ mallocCount' \in Nat
    BY <1>1, <1>2, <1>3, <2>1 DEF TypeOK
  <2> QED BY <1>2, <1>3, <1>6, <2>2, <2>3, <2>4 DEF TypeOK
<1>9. CountsExplained'
  <2>1. \A d \in Class : count'[d] = Cardinality(used \cap Bits(d)) + fallen'[d]
    <3> SUFFICES ASSUME NEW d \in Class
                 PROVE  count'[d] = Cardinality(used \cap Bits(d)) + fallen'[d]
      OBVIOUS
    <3>1. count[d] = Cardinality(used \cap Bits(d)) + fallen[d]
      BY <1>3 DEF CountsExplained
    <3>2. Cardinality(used \cap Bits(d)) \in Nat
      <4>1. IsFiniteSet(Bits(d))
        <5>1. /\ BitStart(d) \in Nat /\ Blocks(d) \in Nat
              /\ Bits(d) = BitStart(d) .. BitStart(d) + Blocks(d) - 1
          BY ClassFacts
        <5> QED BY <5>1, FS_Interval
      <4>2. IsFiniteSet(used \cap Bits(d))
        BY <4>1, FS_Subset
      <4> QED BY <4>2, FS_CardinalityType
    <3> QED BY <1>7, <3>1, <3>2
  <2>2. use' = 50 * count'[1] + 200 * count'[2] + 1000 * count'[3]
    <3>1. count \in [Class -> Nat] /\ count' \in [Class -> Nat]
      BY <1>3, <1>8 DEF TypeOK
    <3>2. use' = Counted(count) + BlockSize(c)
      BY <1>1, <1>3 DEF CountsExplained, Counted
    <3>3. use' = Counted(count')
      BY <1>7, <3>1, <3>2, OneMoreBlock
    <3> QED BY <3>3 DEF Counted
  <2> QED BY <1>2, <2>1, <2>2 DEF CountsExplained
<1> QED BY <1>6, <1>8, <1>9 DEF PoolInv

LEMMA AllocSystemStep ==
  ASSUME PoolInv, NEW h \in Handle, NEW n \in Request, AllocSystem(h, n)
  PROVE  PoolInv'
<1>1. /\ h \notin live
      /\ UNCHANGED <<used, cursor, count, use, fallen>>
      /\ systemUse' = systemUse + n
      /\ live' = live \cup {h}
      /\ ptr' = [ptr EXCEPT ![h] = Outside]
      /\ size' = [size EXCEPT ![h] = n]
      /\ mallocCount' = mallocCount + 1
  BY DEF AllocSystem, HandOut
<1>2. TypeOK /\ CountsExplained
  BY DEF PoolInv
<1>3. n \in Nat
  BY PoolAssumption
<1>4. /\ OnePerBlock' /\ BitsAreLive' /\ FreshBeyondCursor'
      /\ ptr' \in [Handle -> Outside .. End(3) - 1]
  <2>1. live' \subseteq Handle /\ live \ {h} = live' \ {h}
    BY <1>1, <1>2 DEF TypeOK
  <2>2. \A g \in Handle \ {h} : size'[g] = size[g]
    BY <1>1, <1>2 DEF TypeOK
  <2> QED BY <1>1, <2>1, <2>2, OutsideStep
<1>5. TypeOK'
  <2>1. size' \in [Handle -> Nat] /\ live' \subseteq Handle
    BY <1>1, <1>2, <1>3 DEF TypeOK
  <2>2. systemUse' \in Nat /\ mallocCount' \in Nat
    BY <1>1, <1>2, <1>3 DEF TypeOK
  <2> QED BY <1>1, <1>2, <1>4, <2>1, <2>2 DEF TypeOK
<1>6. CountsExplained'
  BY <1>1, <1>2 DEF CountsExplained
<1> QED BY <1>4, <1>5, <1>6 DEF PoolInv

LEMMA FreeSystemStep ==
  ASSUME PoolInv, NEW h \in Handle, FreeSystem(h)
  PROVE  PoolInv'
<1>1. /\ h \in live /\ ~InPool(ptr[h])
      /\ UNCHANGED <<used, cursor, count, use, systemUse, mallocCount, fallen>>
      /\ live' = live \ {h}
      /\ ptr' = [ptr EXCEPT ![h] = Outside]
      /\ size' = [size EXCEPT ![h] = 0]
  BY DEF FreeSystem, Forget
<1>2. TypeOK /\ CountsExplained
  BY DEF PoolInv
<1>3. /\ OnePerBlock' /\ BitsAreLive' /\ FreshBeyondCursor'
      /\ ptr' \in [Handle -> Outside .. End(3) - 1]
  <2>1. live' \subseteq Handle /\ live \ {h} = live' \ {h}
    BY <1>1, <1>2 DEF TypeOK
  <2>2. \A g \in Handle \ {h} : size'[g] = size[g]
    BY <1>1, <1>2 DEF TypeOK
  <2> QED BY <1>1, <2>1, <2>2, OutsideStep
<1>4. TypeOK'
  <2>1. size' \in [Handle -> Nat] /\ live' \subseteq Handle
    BY <1>1, <1>2 DEF TypeOK
  <2> QED BY <1>1, <1>2, <1>3, <2>1 DEF TypeOK
<1>5. CountsExplained'
  BY <1>1, <1>2 DEF CountsExplained
<1> QED BY <1>3, <1>4, <1>5 DEF PoolInv

LEMMA FreeBlockStep ==
  ASSUME PoolInv, NEW h \in Handle, FreeBlock(h)
  PROVE  PoolInv'
<1>1. TypeOK /\ OnePerBlock /\ BitsAreLive /\ FreshBeyondCursor /\ CountsExplained
  BY DEF PoolInv
<1>2. /\ h \in live /\ InPool(ptr[h])
      /\ UNCHANGED <<cursor, systemUse, mallocCount, fallen>>
      /\ live' = live \ {h}
      /\ ptr' = [ptr EXCEPT ![h] = Outside]
      /\ size' = [size EXCEPT ![h] = 0]
  BY DEF FreeBlock, Forget
<1>3. PICK c \in Class : \E i \in Bits(c) : ptr[h] = AddressOf(c, i)
  BY <1>1, <1>2 DEF OnePerBlock
<1>4. PICK i \in Bits(c) : ptr[h] = AddressOf(c, i)
  BY <1>3
<1>5. /\ use' = use - BlockSize(c)
      /\ count' = [count EXCEPT ![c] = @ - 1]
      /\ used' = used \ {i}
  <2>1. PICK d \in Class :
          /\ HoldsAddress(d, ptr[h])
          /\ use' = use - BlockSize(d)
          /\ count' = [count EXCEPT ![d] = @ - 1]
          /\ used' = used \ {BitAt(d, ptr[h])}
    BY DEF FreeBlock
  <2>2. d = c /\ BitAt(c, ptr[h]) = i
    BY <1>4, <2>1, RoundTrip
  <2> QED BY <2>1, <2>2
<1>6. i \in used
  BY <1>1, <1>2, <1>4 DEF BitsAreLive
<1>7. \A g \in live : ptr[g] = AddressOf(c, i) => g = h
  BY <1>1, <1>2, <1>4 DEF OnePerBlock
<1>8. /\ ~InPool(Outside) /\ End(3) \in Nat /\ live \subseteq Handle
      /\ \A g \in Handle : ptr'[g] = IF g = h THEN Outside ELSE ptr[g]
  <2>1. End(3) \in Nat
    BY ClassFacts DEF Class
  <2>2. ptr \in [Handle -> Outside .. End(3) - 1] /\ live \subseteq Handle
    BY <1>1 DEF TypeOK
  <2>3. ~InPool(Outside)
    BY <2>1 DEF InPool, Outside
  <2> QED BY <1>2, <2>1, <2>2, <2>3
<1>9. OnePerBlock'
  <2> SUFFICES ASSUME NEW g \in live', InPool(ptr'[g])
               PROVE  /\ \E d \in Class : \E j \in Bits(d) :
                           ptr'[g] = AddressOf(d, j) /\ size'[g] <= BlockSize(d)
                      /\ \A f \in live' : ptr'[f] = ptr'[g] => f = g
    BY DEF OnePerBlock, InPool
  <2>1. g \in live /\ g # h /\ ptr'[g] = ptr[g]
    BY <1>2, <1>8
  <2>2. size'[g] = size[g]
    BY <1>1, <1>2, <1>8, <2>1 DEF TypeOK
  <2>3. /\ \E d \in Class : \E j \in Bits(d) :
             ptr[g] = AddressOf(d, j) /\ size[g] <= BlockSize(d)
        /\ \A f \in live : ptr[f] = ptr[g] => f = g
    BY <1>1, <2>1 DEF OnePerBlock
  <2> QED BY <1>2, <1>8, <2>1, <2>2, <2>3
<1>10. BitsAreLive'
  <2> SUFFICES ASSUME NEW d \in Class, NEW j \in Bits(d)
               PROVE  j \in used' <=> \E g \in live' : ptr'[g] = AddressOf(d, j)
    BY DEF BitsAreLive
  <2>1. j \in used <=> \E g \in live : ptr[g] = AddressOf(d, j)
    BY <1>1 DEF BitsAreLive
  <2>2. \A g \in live' : g \in live /\ g # h /\ ptr'[g] = ptr[g]
    BY <1>2, <1>8
  <2>3. CASE j = i
    <3>1. d = c
      BY <2>3, BitsApart
    <3>2. \A g \in live' : ptr'[g] # AddressOf(d, j)
      BY <1>7, <2>2, <2>3, <3>1
    <3> QED BY <1>5, <2>3, <3>2
  <2>4. CASE j # i
    <3>1. AddressOf(d, j) # AddressOf(c, i)
      <4>1. \/ AddressOf(c, i) + BlockSize(c) <= AddressOf(d, j)
            \/ AddressOf(d, j) + BlockSize(d) <= AddressOf(c, i)
        BY <2>4, BlocksApart
      <4>2. BlockSize(c) \in Nat \ {0} /\ BlockSize(d) \in Nat \ {0}
        BY ClassFacts
      <4>3. AddressOf(c, i) \in Nat /\ AddressOf(d, j) \in Nat
        BY AddressBounds
      <4> QED BY <4>1, <4>2, <4>3
    <3>2. \A g \in live : ptr[g] = AddressOf(d, j) => g # h
      BY <1>4, <3>1
    <3>3. (\E g \in live : ptr[g] = AddressOf(d, j))
            <=> \E g \in live' : ptr'[g] = AddressOf(d, j)
      BY <1>2, <2>2, <3>2
    <3> QED BY <1>5, <2>1, <2>4, <3>3
  <2> QED BY <2>3, <2>4
<1>11. FreshBeyondCursor'
  BY <1>1, <1>2, <1>5 DEF FreshBeyondCursor
<1>12. /\ Cardinality(used' \cap Bits(c)) = Cardinality(used \cap Bits(c)) - 1
       /\ Cardinality(used' \cap Bits(c)) \in Nat
       /\ Cardinality(used \cap Bits(c)) \in Nat
  <2>1. /\ Cardinality((used \ {i}) \cap Bits(c)) = Cardinality(used \cap Bits(c)) - 1
        /\ Cardinality(used \cap Bits(c)) \in Nat
    BY <1>6, CountBits
  <2>2. Cardinality((used \ {i}) \cap Bits(c)) \in Nat
    BY CountBits
  <2> QED BY <1>5, <2>1, <2>2
<1>13. /\ count \in [Class -> Nat] /\ fallen \in [Class -> Nat]
       /\ \A d \in Class : count[d] = Cardinality(used \cap Bits(d)) + fallen[d]
  BY <1>1 DEF TypeOK, CountsExplained
<1>14. \A d \in Class : count'[d] = Cardinality(used' \cap Bits(d)) + fallen'[d]
  <2> SUFFICES ASSUME NEW d \in Class
               PROVE  count'[d] = Cardinality(used' \cap Bits(d)) + fallen[d]
    BY <1>2
  <2>1. CASE d = c
    <3>1. count'[c] = count[c] - 1 /\ fallen[c] \in Nat
      BY <1>5, <1>13
    <3> QED BY <1>12, <1>13, <2>1, <3>1
  <2>2. CASE d # c
    <3>1. i \notin Bits(d)
      BY <2>2, BitsApart
    <3>2. used' \cap Bits(d) = used \cap Bits(d)
      BY <1>5, <3>1
    <3>3. count'[d] = count[d]
      BY <1>5, <1>13, <2>2
    <3> QED BY <1>13, <3>2, <3>3
  <2> QED BY <2>1, <2>2
<1>15. count' \in [Class -> Nat]
  <2>1. count'[c] \in Nat
    BY <1>2, <1>12, <1>13, <1>14
  <2>2. count'[c] = count[c] - 1
    BY <1>5, <1>13
  <2> QED BY <1>5, <1>13, <2>1, <2>2
<1>16. use = Counted(count) /\ use' = Counted(count') /\ use' \in Nat
  <2>1. \A d \in Class : count[d] = IF d = c THEN count'[d] + 1 ELSE count'[d]
    BY <1>5, <1>13
  <2>2. Counted(count) = Counted(count') + BlockSize(c) /\ Counted(count') \in Nat
    BY <1>13, <1>15, <2>1, OneMoreBlock
  <2>3. use = Counted(count)
    BY <1>1 DEF CountsExplained, Counted
  <2>4. BlockSize(c) \in Nat
    BY ClassFacts
  <2> QED BY <1>5, <2>2, <2>3, <2>4
<1>17. CountsExplained'
  BY <1>14, <1>16 DEF CountsExplained, Counted
<1>18. TypeOK'
  <2>1. used' \subseteq UNION {Bits(d) : d \in Class}
    BY <1>1, <1>5 DEF TypeOK
  <2>2. ptr' \in [Handle -> Outside .. End(3) - 1]
    BY <1>1, <1>2, <1>8 DEF TypeOK, Outside
  <2>3. size' \in [Handle -> Nat] /\ live' \subseteq Handle
    BY <1>1, <1>2 DEF TypeOK
  <2> QED BY <1>1, <1>2, <1>15, <1>16, <2>1, <2>2, <2>3 DEF TypeOK
<1> QED BY <1>9, <1>10, <1>11, <1>17, <1>18 DEF PoolInv

LEMMA PoolStep == ASSUME PoolInv, [Next]_vars PROVE PoolInv'
<1>1. ASSUME NEW h \in Handle, NEW n \in Request, AllocBlock(h, n) PROVE PoolInv'
  BY <1>1, AllocBlockStep
<1>2. ASSUME NEW h \in Handle, NEW n \in Request, AllocFallback(h, n) PROVE PoolInv'
  BY <1>2, AllocFallbackStep
<1>3. ASSUME NEW h \in Handle, NEW n \in Request, AllocSystem(h, n) PROVE PoolInv'
  BY <1>3, AllocSystemStep
<1>4. ASSUME NEW h \in Handle, FreeBlock(h) PROVE PoolInv'
  BY <1>4, FreeBlockStep
<1>5. ASSUME NEW h \in Handle, FreeSystem(h) PROVE PoolInv'
  BY <1>5, FreeSystemStep
<1>6. CASE UNCHANGED vars
  BY <1>6 DEF vars, PoolInv, TypeOK, OnePerBlock, BitsAreLive,
              FreshBeyondCursor, CountsExplained, InPool
<1> QED BY <1>1, <1>2, <1>3, <1>4, <1>5, <1>6 DEF Next

----------------------------------------------------------------------------
(* The allocator's bookkeeping, in every behaviour.                        *)
THEOREM PoolSafe == Spec => []PoolInv
BY PoolInit, PoolStep, PTL DEF Spec

(* The types, for every instance; row 7 never goes below zero.             *)
THEOREM PoolTyped == Spec => []TypeOK
<1>1. PoolInv => TypeOK BY DEF PoolInv
<1> QED BY <1>1, PoolSafe, PTL

(* memory_free clears the very bit memory_alloc set, however blocks were   *)
(* freed and handed out again.                                             *)
THEOREM BitsCovered == Spec => []BitsAreLive
<1>1. PoolInv => BitsAreLive BY DEF PoolInv
<1> QED BY <1>1, PoolSafe, PTL

(* Row 7 is off by exactly the requests that fell back.                     *)
THEOREM CountsOff == Spec => []CountsExplained
<1>1. PoolInv => CountsExplained BY DEF PoolInv
<1> QED BY <1>1, PoolSafe, PTL

(* What 'server info' shows of a class is explained, whatever was asked for.  *)
THEOREM InfoTrue == Spec => []InfoExplained
<1>1. ASSUME PoolInv, NEW c \in Class
      PROVE  /\ ServerInfo.detail[c].use - Cardinality(used \cap Bits(c)) = fallen[c]
             /\ fallen[c] >= 0
             /\ ServerInfo.detail[c].total = Cardinality(Bits(c))
  <2>1. ServerInfo.detail[c].use = count[c]
    BY DEF ServerInfo
  <2>2. ServerInfo.detail[c].total = BitEnd(c) - BitStart(c)
    BY DEF ServerInfo
  <2>3. /\ BitStart(c) \in Nat /\ Blocks(c) \in Nat
        /\ BitEnd(c) = BitStart(c) + Blocks(c)
    BY <1>1, ClassFacts DEF BitEnd
  <2>4. Cardinality(Bits(c)) = Blocks(c)
    BY <2>3, FS_Interval DEF Bits
  <2>5. /\ fallen[c] \in Nat
        /\ count[c] = Cardinality(used \cap Bits(c)) + fallen[c]
    BY <1>1 DEF PoolInv, TypeOK, CountsExplained
  <2>6. Cardinality(used \cap Bits(c)) \in Nat
    <3>1. IsFiniteSet(Bits(c))
      BY <2>3, FS_Interval DEF Bits
    <3> QED BY <3>1, FS_Subset, FS_CardinalityType
  <2> QED BY <2>1, <2>2, <2>3, <2>4, <2>5, <2>6
<1>2. PoolInv => InfoExplained
  BY <1>1 DEF InfoExplained
<1> QED BY <1>2, PoolSafe, PTL

(* Two holders of pool memory never share a byte, and none can write past  *)
(* the region, whatever was freed and handed out again before.             *)
THEOREM NoOverlap == Spec => []BlocksDisjoint
<1>1. ASSUME PoolInv PROVE BlocksDisjoint
  <2> SUFFICES ASSUME NEW h \in live, InPool(ptr[h])
               PROVE  /\ ptr[h] + size[h] <= End(3)
                      /\ \A g \in live \ {h} : InPool(ptr[g]) =>
                           \/ ptr[g] + size[g] <= ptr[h]
                           \/ ptr[h] + size[h] <= ptr[g]
    BY DEF BlocksDisjoint
  <2>1. size \in [Handle -> Nat] /\ live \subseteq Handle
    BY <1>1 DEF PoolInv, TypeOK
  <2>2. PICK c \in Class : \E i \in Bits(c) :
          ptr[h] = AddressOf(c, i) /\ size[h] <= BlockSize(c)
    BY <1>1 DEF PoolInv, OnePerBlock
  <2>3. PICK i \in Bits(c) : ptr[h] = AddressOf(c, i) /\ size[h] <= BlockSize(c)
    BY <2>2
  <2>4. /\ AddressOf(c, i) \in Nat /\ AddressOf(c, i) + BlockSize(c) <= End(c)
        /\ BlockSize(c) \in Nat /\ End(c) \in Nat /\ End(c) <= End(3)
    BY AddressBounds, ClassFacts
  <2>5. End(3) \in Nat
    BY ClassFacts DEF Class
  <2>6. ptr[h] + size[h] <= End(3)
    BY <2>1, <2>3, <2>4, <2>5
  <2>7. ASSUME NEW g \in live \ {h}, InPool(ptr[g])
        PROVE  ptr[g] + size[g] <= ptr[h] \/ ptr[h] + size[h] <= ptr[g]
    <3>1. PICK d \in Class : \E j \in Bits(d) :
            ptr[g] = AddressOf(d, j) /\ size[g] <= BlockSize(d)
      BY <1>1, <2>7 DEF PoolInv, OnePerBlock
    <3>2. PICK j \in Bits(d) : ptr[g] = AddressOf(d, j) /\ size[g] <= BlockSize(d)
      BY <3>1
    <3>3. ptr[g] # ptr[h]
      BY <1>1, <2>7 DEF PoolInv, OnePerBlock
    <3>4. AddressOf(d, j) \in Nat /\ BlockSize(d) \in Nat
      BY AddressBounds, ClassFacts
    <3>5. \/ AddressOf(c, i) + BlockSize(c) <= AddressOf(d, j)
          \/ AddressOf(d, j) + BlockSize(d) <= AddressOf(c, i)
      BY <2>3, <3>2, <3>3, BlocksApart
    <3>6. size[g] \in Nat /\ size[h] \in Nat
      BY <2>1
    <3> QED BY <2>3, <2>4, <3>2, <3>4, <3>5, <3>6
  <2> QED BY <2>6, <2>7
<1> QED BY <1>1, PoolSafe, PTL

(* The upward search finds a free block whenever the class has one.        *)
LEMMA SearchMissesNothing ==
  ASSUME PoolInv, NEW d \in Class, Above(d) = {}
  PROVE  Bits(d) \subseteq used
<1> SUFFICES ASSUME NEW i \in Bits(d), i \notin used PROVE FALSE
  OBVIOUS
<1>1. /\ BitStart(d) \in Nat /\ Blocks(d) \in Nat
      /\ Bits(d) = BitStart(d) .. BitStart(d) + Blocks(d) - 1
  BY ClassFacts
<1>2. cursor[d] \in Nat
  BY DEF PoolInv, TypeOK
<1>3. ~(i >= From(d))
  BY DEF Above
<1>4. CASE cursor[d] >= Blocks(d)
  BY <1>1, <1>2, <1>3, <1>4 DEF From
<1>5. CASE cursor[d] < Blocks(d)
  <2>1. From(d) = BitStart(d) + cursor[d]
    BY <1>1, <1>2, <1>5 DEF From
  <2>2. /\ From(d) \in Bits(d) /\ From(d) >= BitStart(d) + cursor[d]
        /\ From(d) >= From(d)
    BY <1>1, <1>2, <1>5, <2>1
  <2>3. From(d) \notin used
    BY <2>2 DEF PoolInv, FreshBeyondCursor
  <2> QED BY <2>2, <2>3 DEF Above
<1> QED BY <1>1, <1>2, <1>4, <1>5

(* The downward search of memory_alloc is dead code.                       *)
THEOREM SecondSearchDead == Spec => []SecondSearchFindsNothing
<1>1. PoolInv => SecondSearchFindsNothing
  BY SearchMissesNothing DEF SecondSearchFindsNothing, Below
<1> QED BY <1>1, PoolSafe, PTL

(* memory_alloc never goes to the system heap while a block is free: its   *)
(* search, which skips the first bit on its way down, misses nothing.      *)
THEOREM FallbackIsFull == Spec => FallbackOnlyWhenFull
<1>1. ASSUME PoolInv, [Next]_vars
      PROVE  [\A c \in Class : fallen'[c] # fallen[c] => Bits(c) \subseteq used]_vars
  <2> SUFFICES ASSUME Next, NEW d \in Class, fallen'[d] # fallen[d]
               PROVE  Bits(d) \subseteq used
    BY <1>1
  <2>1. ASSUME NEW h \in Handle, NEW n \in Request, AllocFallback(h, n)
        PROVE  Bits(d) \subseteq used
    <3>1. PICK c \in Class : /\ Above(c) \cup Below(c) = {}
                            /\ fallen' = [fallen EXCEPT ![c] = @ + 1]
      BY <2>1 DEF AllocFallback
    <3>2. d = c
      BY <1>1, <3>1 DEF PoolInv, TypeOK
    <3> QED BY <1>1, <3>1, <3>2, SearchMissesNothing
  <2>2. ASSUME NEW h \in Handle PROVE ~FreeBlock(h) /\ ~FreeSystem(h)
    <3>1. fallen' # fallen
      OBVIOUS
    <3>2. ~FreeBlock(h)
      BY <3>1 DEF FreeBlock
    <3>3. ~FreeSystem(h)
      BY <3>1 DEF FreeSystem
    <3> QED BY <3>2, <3>3
  <2>3. ASSUME NEW h \in Handle, NEW n \in Request
        PROVE  ~AllocBlock(h, n) /\ ~AllocSystem(h, n)
    <3>1. fallen' # fallen
      OBVIOUS
    <3>2. ~AllocBlock(h, n)
      BY <3>1 DEF AllocBlock
    <3>3. ~AllocSystem(h, n)
      BY <3>1 DEF AllocSystem
    <3> QED BY <3>2, <3>3
  <2> QED BY <2>1, <2>2, <2>3 DEF Next
<1> QED BY <1>1, PoolSafe, PTL DEF Spec, FallbackOnlyWhenFull

----------------------------------------------------------------------------
(* Overlapping calls.                                                      *)

LEMMA MeetBothWays ==
  ASSUME NEW a, NEW b, Meet(a, b)
  PROVE  Meet(b, a)
BY DEF Meet

----------------------------------------------------------------------------
(* What a call's write is, when nobody meets it.                            *)

LEMMA WriteAllocIs ==
  ASSUME RaceInv, NEW h \in Handle, WriteAlloc(h)
  PROVE  AllocBlock(h, calls[h].n) /\ used' = used \cup {calls[h].bit}
<1> DEFINE i == calls[h].bit
           c == calls[h].class
<1>1. calls[h].kind = "alloc" /\ calls[h] # NoCall /\ Alone(h)
  BY DEF WriteAlloc, Write, NoCall
<1>2. /\ h \notin live /\ c \in Class /\ i \in Bits(c) /\ Serves(c, calls[h].n)
      /\ Picks(c, i) /\ calls[h].seen = InByte(i)
  BY <1>1 DEF RaceInv, Fresh, StillPicked, StillSeen
<1>3. used' = (used \ InByte(i)) \cup (calls[h].seen \cup {i})
  BY DEF WriteAlloc, Write
<1>4. used' = used \cup {i}
  BY <1>2, <1>3 DEF InByte
<1>5. /\ mallocCount < MaxMallocs
      /\ Count(c)
      /\ cursor' = [cursor EXCEPT ![c] = @ + 1]
      /\ HandOut(h, AddressOf(c, i), calls[h].n)
      /\ UNCHANGED <<systemUse, fallen>>
  BY DEF WriteAlloc, Write
<1> HIDE DEF i, c
<1>6. AllocBlock(h, calls[h].n)
  BY <1>2, <1>4, <1>5 DEF AllocBlock
<1> QED BY <1>4, <1>6 DEF i

LEMMA WriteFreeIs ==
  ASSUME RaceInv, NEW h \in Handle, WriteFree(h)
  PROVE  FreeBlock(h) /\ used' = used \ {calls[h].bit}
<1> DEFINE i == calls[h].bit
           c == calls[h].class
<1>1. calls[h].kind = "free" /\ calls[h] # NoCall /\ Alone(h)
  BY DEF WriteFree, Write, NoCall
<1>2. /\ h \in live /\ c \in Class /\ InPool(ptr[h]) /\ HoldsAddress(c, ptr[h])
      /\ i = BitAt(c, ptr[h]) /\ calls[h].seen = InByte(i)
  BY <1>1 DEF RaceInv, Fresh, StillSeen
<1>3. used' = (used \ InByte(i)) \cup (calls[h].seen \ {i})
  BY DEF WriteFree, Write
<1>4. used' = used \ {i}
  BY <1>2, <1>3 DEF InByte
<1>5. /\ use' = use - BlockSize(c)
      /\ count' = [count EXCEPT ![c] = @ - 1]
      /\ Forget(h)
      /\ UNCHANGED <<cursor, systemUse, mallocCount, fallen>>
  BY DEF WriteFree, Write
<1> HIDE DEF i, c
<1>6. FreeBlock(h)
  BY <1>2, <1>4, <1>5 DEF FreeBlock
<1> QED BY <1>4, <1>6 DEF i

(* Every step is a step of the allocator one call at a time, or none.      *)
LEMMA RaceStepIs ==
  ASSUME RaceInv, [RaceNext]_raceVars
  PROVE  [Next]_vars
<1>1. ASSUME NEW h \in Handle, WriteAlloc(h) PROVE Next
  <2>1. calls[h].n \in Request
    BY <1>1 DEF WriteAlloc, Write, RaceInv, Fresh
  <2> QED BY <1>1, <2>1, WriteAllocIs DEF Next
<1>2. ASSUME NEW h \in Handle, WriteFree(h) PROVE Next
  BY <1>2, WriteFreeIs DEF Next
<1>3. ASSUME NEW h \in Handle, Apart(h) PROVE Next
  BY <1>3 DEF Apart, Next
<1>4. ASSUME NEW h \in Handle, NEW n \in Request, LookToAlloc(h, n) PROVE UNCHANGED vars
  BY <1>4 DEF LookToAlloc, Look
<1>5. ASSUME NEW h \in Handle, LookToFree(h) PROVE UNCHANGED vars
  BY <1>5 DEF LookToFree, Look
<1>6. ASSUME NEW h \in Handle, Cross(h) PROVE UNCHANGED vars
  BY <1>6 DEF Cross
<1>7. CASE UNCHANGED raceVars
  BY <1>7 DEF raceVars
<1> QED BY <1>1, <1>2, <1>3, <1>4, <1>5, <1>6, <1>7 DEF RaceNext

----------------------------------------------------------------------------
(* The invariant: what a call has found stays found.                        *)

LEMMA RaceStart == ASSUME RaceInit PROVE RaceInv
BY DEF RaceInit, RaceInv, Fresh, StillPicked, StillSeen, NoCall

(* A call that begins leaves the others as they are.                       *)
LEMMA LookKeeps ==
  ASSUME RaceInv, NEW h \in Handle, NEW kind, NEW c, NEW i, NEW n,
         Look(h, kind, c, i, n), Fresh(h)',
         kind = "alloc" => Picks(c, i)
  PROVE  RaceInv'
<1> DEFINE call == [kind |-> kind, class |-> c, bit |-> i, n |-> n, seen |-> InByte(i)]
<1>1. /\ calls[h] = NoCall
      /\ calls' = [calls EXCEPT ![h] = call]
      /\ UNCHANGED vars
      /\ DOMAIN calls = Handle
  BY DEF Look, RaceInv
<1>2. calls'[h] = call /\ DOMAIN calls' = Handle
  BY <1>1
<1>3. \A g \in Handle : g # h => calls'[g] = calls[g]
  BY <1>1
<1> HIDE DEF call
<1>4. ASSUME NEW g \in Handle, g # h PROVE Fresh(g)'
  <2>1. Fresh(g)
    BY DEF RaceInv
  <2>2. calls'[g] = calls[g] /\ live' = live /\ ptr' = ptr
    BY <1>1, <1>3, <1>4 DEF vars
  <2> QED BY <2>1, <2>2 DEF Fresh, InPool
<1>5. StillPicked(h)' /\ StillSeen(h)'
  <2>1. used' = used /\ cursor' = cursor
    BY <1>1 DEF vars
  <2> QED BY <1>2, <2>1 DEF StillPicked, StillSeen, InByte, call, Picks, Above, Below, From
<1>6. ASSUME NEW g \in Handle, g # h, Alone(g)' PROVE StillPicked(g)' /\ StillSeen(g)'
  <2>1. Alone(g)
    <3> SUFFICES ASSUME NEW k \in Handle \ {g} PROVE ~Meet(calls[k], calls[g])
      BY DEF Alone
    <3>1. CASE k = h
      BY <3>1, <1>1 DEF Meet, NoCall
    <3>2. CASE k # h
      <4>1. calls'[k] = calls[k] /\ calls'[g] = calls[g]
        BY <1>3, <1>6, <3>2
      <4>2. ~Meet(calls'[k], calls'[g])
        BY <1>6 DEF Alone
      <4> QED BY <4>1, <4>2
    <3> QED BY <3>1, <3>2
  <2>2. StillPicked(g) /\ StillSeen(g)
    BY <2>1 DEF RaceInv
  <2>3. calls'[g] = calls[g] /\ used' = used /\ cursor' = cursor
    BY <1>1, <1>3, <1>6 DEF vars
  <2> QED BY <2>2, <2>3 DEF StillPicked, StillSeen, InByte, Picks, Above, Below, From
<1> QED BY <1>2, <1>4, <1>5, <1>6 DEF RaceInv

(* A call that ends: whoever did not meet it is in another class and in    *)
(* another byte, and nobody who met it can have become alone.              *)
LEMMA WriteKeeps ==
  ASSUME RaceInv, NEW h \in Handle,
         calls[h] # NoCall, Alone(h),
         calls' = [calls EXCEPT ![h] = NoCall],
         \/ used' = used \cup {calls[h].bit}
         \/ used' = used \ {calls[h].bit},
         \A d \in Class \ {calls[h].class} : cursor'[d] = cursor[d],
         \A g \in Handle \ {h} : (g \in live' <=> g \in live) /\ ptr'[g] = ptr[g]
  PROVE  RaceInv'
<1> DEFINE i == calls[h].bit
           c == calls[h].class
<1>1. DOMAIN calls' = Handle /\ calls'[h] = NoCall
  BY DEF RaceInv
<1>2. \A g \in Handle : g # h => calls'[g] = calls[g]
  BY DEF RaceInv
<1>3. c \in Class /\ i \in Bits(c)
  BY DEF RaceInv, Fresh
<1>4. ASSUME NEW g \in Handle PROVE Fresh(g)'
  <2>1. CASE g = h
    BY <1>1, <2>1 DEF Fresh, NoCall
  <2>2. CASE g # h
    <3>1. Fresh(g) /\ calls'[g] = calls[g]
      BY <1>2, <2>2 DEF RaceInv
    <3>2. (g \in live' <=> g \in live) /\ ptr'[g] = ptr[g]
      BY <2>2
    <3> QED BY <3>1, <3>2 DEF Fresh, InPool
  <2> QED BY <2>1, <2>2
<1>5. ASSUME NEW g \in Handle, Alone(g)' PROVE StillPicked(g)' /\ StillSeen(g)'
  <2>1. CASE calls'[g] = NoCall
    BY <2>1 DEF StillPicked, StillSeen, NoCall
  <2>2. CASE calls'[g] # NoCall
    <3>0. PICK e, j : e = calls[g].class /\ j = calls[g].bit
      OBVIOUS
    <3>1. g # h /\ calls'[g] = calls[g] /\ calls[g] # NoCall
      BY <1>1, <1>2, <2>2
    <3>2. e \in Class /\ j \in Bits(e) /\ calls[g].kind # "none"
      BY <3>0, <3>1 DEF RaceInv, Fresh
    <3>3. ~Meet(calls[g], calls[h]) /\ ~Meet(calls[h], calls[g])
      BY <3>1, MeetBothWays DEF Alone
    <3>4. calls[h].kind # "none"
      BY DEF RaceInv, Fresh
    <3>5. e # c /\ Byte(i) # Byte(j)
      BY <3>0, <3>2, <3>3, <3>4 DEF Meet
    <3>6. Alone(g)
      <4> SUFFICES ASSUME NEW k \in Handle \ {g} PROVE ~Meet(calls[k], calls[g])
        BY DEF Alone
      <4>1. CASE k = h
        BY <4>1, <3>3
      <4>2. CASE k # h
        <5>1. calls'[k] = calls[k]
          BY <1>2, <4>2
        <5>2. ~Meet(calls'[k], calls'[g])
          BY <1>5 DEF Alone
        <5> QED BY <3>1, <5>1, <5>2
      <4> QED BY <4>1, <4>2
    <3>7. StillPicked(g) /\ StillSeen(g)
      BY <3>6 DEF RaceInv
    <3>8. \A b \in Bits(e) : b # i
      BY <1>3, <3>2, <3>5, BitsApart
    <3>9. \A b : b # i => (b \in used' <=> b \in used)
      OBVIOUS
    <3>10. cursor'[e] = cursor[e]
      BY <3>2, <3>5
    <3> HIDE DEF i, c
    <3>11. Above(e)' = Above(e) /\ Below(e)' = Below(e) /\ From(e)' = From(e)
      BY <3>8, <3>9, <3>10 DEF Above, Below, From
    <3>12. InByte(j)' = InByte(j)
      BY <3>5, <3>9 DEF InByte
    <3>13. StillPicked(g)'
      BY <3>0, <3>1, <3>7, <3>11 DEF StillPicked, Picks
    <3>14. StillSeen(g)'
      BY <3>0, <3>1, <3>7, <3>12 DEF StillSeen
    <3> QED BY <3>13, <3>14
  <2> QED BY <2>1, <2>2
<1> QED BY <1>1, <1>4, <1>5 DEF RaceInv

(* A call that touches no bit.                                             *)
LEMMA ApartKeeps ==
  ASSUME RaceInv, NEW h \in Handle, Apart(h)
  PROVE  RaceInv'
<1>1. calls[h] = NoCall /\ calls' = calls
  BY DEF Apart
<1> DEFINE Others ==
             /\ used' = used /\ cursor' = cursor
             /\ \A g \in Handle \ {h} : (g \in live' <=> g \in live) /\ ptr'[g] = ptr[g]
<1>2. Others
  <2>1. ASSUME NEW n \in Request, AllocFallback(h, n) PROVE Others
    BY <2>1 DEF AllocFallback, HandOut
  <2>2. ASSUME NEW n \in Request, AllocSystem(h, n) PROVE Others
    BY <2>2 DEF AllocSystem, HandOut
  <2>3. CASE FreeSystem(h)
    BY <2>3 DEF FreeSystem, Forget
  <2> QED BY <2>1, <2>2, <2>3 DEF Apart
<1>3. ASSUME NEW g \in Handle PROVE Fresh(g)'
  <2>1. CASE g = h
    BY <1>1, <2>1 DEF Fresh, NoCall
  <2>2. CASE g # h
    BY <1>1, <1>2, <2>2 DEF RaceInv, Fresh, InPool
  <2> QED BY <2>1, <2>2
<1>4. ASSUME NEW g \in Handle
      PROVE  /\ Alone(g)' <=> Alone(g)
             /\ StillPicked(g)' <=> StillPicked(g)
             /\ StillSeen(g)' <=> StillSeen(g)
  BY <1>1, <1>2 DEF Alone, StillPicked, StillSeen, InByte, Picks, Above, Below, From
<1> QED BY <1>1, <1>3, <1>4 DEF RaceInv

(* What a call finds satisfies Fresh.                                      *)
LEMMA RaceStep ==
  ASSUME PoolInv, RaceInv, [RaceNext]_raceVars
  PROVE  RaceInv'
<1>1. ASSUME NEW h \in Handle, NEW n \in Request, LookToAlloc(h, n) PROVE RaceInv'
  <2>1. PICK c \in Class : \E i \in Bits(c) :
          Serves(c, n) /\ Picks(c, i) /\ Look(h, "alloc", c, i, n)
    BY <1>1 DEF LookToAlloc
  <2>2. PICK i \in Bits(c) : Serves(c, n) /\ Picks(c, i) /\ Look(h, "alloc", c, i, n)
    BY <2>1
  <2>3. Fresh(h)'
    <3>1. calls'[h] = [kind |-> "alloc", class |-> c, bit |-> i, n |-> n, seen |-> InByte(i)]
      BY <2>2 DEF Look, RaceInv
    <3>2. h \notin live'
      BY <1>1, <2>2 DEF LookToAlloc, Look, vars
    <3> QED BY <2>2, <3>1, <3>2 DEF Fresh, Serves
  <2> QED BY <2>2, <2>3, LookKeeps
<1>2. ASSUME NEW h \in Handle, LookToFree(h) PROVE RaceInv'
  <2>1. PICK d \in Class :
          HoldsAddress(d, ptr[h]) /\ Look(h, "free", d, BitAt(d, ptr[h]), size[h])
    BY <1>2 DEF LookToFree
  <2>2. PICK c \in Class : \E i \in Bits(c) : ptr[h] = AddressOf(c, i)
    BY <1>2 DEF LookToFree, PoolInv, OnePerBlock
  <2>3. PICK i \in Bits(c) : ptr[h] = AddressOf(c, i)
    BY <2>2
  <2>4. d = c /\ BitAt(d, ptr[h]) = i
    BY <2>1, <2>3, RoundTrip
  <2>5. Fresh(h)'
    <3>1. calls'[h] = [kind |-> "free", class |-> c, bit |-> i, n |-> size[h],
                       seen |-> InByte(i)]
      BY <2>1, <2>4 DEF Look, RaceInv
    <3>2. h \in live' /\ ptr' = ptr
      BY <1>2, <2>1 DEF LookToFree, Look, vars
    <3>3. InPool(ptr[h]) /\ HoldsAddress(c, ptr[h]) /\ BitAt(c, ptr[h]) = i
      BY <1>2, <2>1, <2>4 DEF LookToFree
    <3> QED BY <3>1, <3>2, <3>3 DEF Fresh, InPool
  <2> QED BY <2>1, <2>5, LookKeeps
<1>3. ASSUME NEW h \in Handle, WriteAlloc(h) PROVE RaceInv'
  <2>1. used' = used \cup {calls[h].bit}
    BY <1>3, WriteAllocIs
  <2>2. /\ calls[h] # NoCall /\ Alone(h) /\ calls' = [calls EXCEPT ![h] = NoCall]
        /\ cursor' = [cursor EXCEPT ![calls[h].class] = @ + 1]
        /\ live' = live \cup {h}
        /\ ptr' = [ptr EXCEPT ![h] = AddressOf(calls[h].class, calls[h].bit)]
    BY <1>3 DEF WriteAlloc, Write, HandOut, NoCall
  <2>3. \A d \in Class \ {calls[h].class} : cursor'[d] = cursor[d]
    BY <2>2 DEF PoolInv, TypeOK
  <2>4. \A g \in Handle \ {h} : (g \in live' <=> g \in live) /\ ptr'[g] = ptr[g]
    BY <2>2 DEF PoolInv, TypeOK
  <2> QED BY <2>1, <2>2, <2>3, <2>4, WriteKeeps
<1>4. ASSUME NEW h \in Handle, WriteFree(h) PROVE RaceInv'
  <2>1. used' = used \ {calls[h].bit}
    BY <1>4, WriteFreeIs
  <2>2. /\ calls[h] # NoCall /\ Alone(h) /\ calls' = [calls EXCEPT ![h] = NoCall]
        /\ cursor' = cursor
        /\ live' = live \ {h} /\ ptr' = [ptr EXCEPT ![h] = Outside]
    BY <1>4 DEF WriteFree, Write, Forget, NoCall
  <2>3. \A g \in Handle \ {h} : (g \in live' <=> g \in live) /\ ptr'[g] = ptr[g]
    BY <2>2 DEF PoolInv, TypeOK
  <2> QED BY <2>1, <2>2, <2>3, WriteKeeps
<1>5. ASSUME NEW h \in Handle, Apart(h) PROVE RaceInv'
  BY <1>5, ApartKeeps
<1>6. ASSUME UNCHANGED <<vars, calls>> PROVE RaceInv'
  BY <1>6 DEF vars, RaceInv, Fresh, StillPicked, StillSeen, Alone, InPool, InByte,
              Picks, Above, Below, From
<1>7. ASSUME NEW h \in Handle, Cross(h) PROVE RaceInv'
  BY <1>6, <1>7 DEF Cross
<1>8. CASE UNCHANGED raceVars
  BY <1>6, <1>8 DEF raceVars
<1> QED BY <1>1, <1>2, <1>3, <1>4, <1>5, <1>7, <1>8 DEF RaceNext

----------------------------------------------------------------------------
(* What overlapping calls find, they still find when they write.           *)
THEOREM RaceSafe == RaceSpec => [](PoolInv /\ RaceInv)
<1>1. RaceInit => PoolInv /\ RaceInv
  BY PoolInit, RaceStart DEF RaceInit
<1>2. PoolInv /\ RaceInv /\ [RaceNext]_raceVars => (PoolInv /\ RaceInv)'
  BY RaceStepIs, RaceStep, PoolStep
<1> QED BY <1>1, <1>2, PTL DEF RaceSpec

(* memory_alloc and memory_free without a lock do what they do one at a    *)
(* time, as long as no two of them write in one class or one byte at once. *)
THEOREM RaceRefines == RaceSpec => OneAtATime
<1>1. RaceInit => Init
  BY DEF RaceInit
<1>2. PoolInv /\ RaceInv /\ [RaceNext]_raceVars => [Next]_vars
  BY RaceStepIs
<1> QED BY <1>1, <1>2, RaceSafe, PTL DEF RaceSpec, OneAtATime, Spec

(* So the memory of two holders stays disjoint under such overlapping calls. *)
THEOREM RaceNoOverlap == RaceSpec => []BlocksDisjoint
BY RaceRefines, NoOverlap, PTL DEF OneAtATime
=============================================================================
