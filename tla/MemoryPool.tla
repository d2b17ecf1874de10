----------------------------- MODULE MemoryPool -----------------------------
(***************************************************************************)
(* The server's block allocator (init/memory.hpp).  memory_init cuts one    *)
(* region into three classes of blocks, a bitmap says which blocks are      *)
(* handed out, and a request no class can serve goes to the system heap.   *)
(*                                                                         *)
(* memory_alloc and memory_free are one action each.  The code takes no     *)
(* lock: this module is what the allocator does when calls do not overlap. *)
(* Addresses are offsets from first_ptr.  A caller is a Handle: it holds    *)
(* one allocation at a time.                                                *)
(***************************************************************************)
EXTENDS Integers, FiniteSets

CONSTANTS
  Handle,      \* the variables of the program that hold an allocation
  Request,     \* the sizes asked for; memory_alloc returns NULL below 1
  Bytes,       \* the argument of memory_init
  UInt,        \* how many values a u_int has
  MaxMallocs   \* bound of the model: calls of memory_alloc

ASSUME PoolAssumption ==
  /\ Request \subseteq Nat \ {0}
  /\ Bytes \in Nat
  /\ UInt \in Nat \ {0}
  /\ MaxMallocs \in Nat

Class == 1 .. 3

\* rows 0 and 1 of _memory_con_
BlockSize(c) == CASE c = 1 -> 50 [] c = 2 -> 200 [] c = 3 -> 1000
Share(c) == c

\* what memory_init gives each class: its share, rounded up to whole blocks
Granted == IF Bytes < 1250 THEN 1250 ELSE Bytes
GrantedTo(c) == ((Granted * Share(c)) % UInt) \div 6
Blocks(c) == (GrantedTo(c) + BlockSize(c) - 1) \div BlockSize(c)

\* rows 2 to 5: where a class starts and ends, in bytes and in bits
BitStart(c) == CASE c = 1 -> 0
                 [] c = 2 -> Blocks(1)
                 [] c = 3 -> Blocks(1) + Blocks(2)
BitEnd(c) == BitStart(c) + Blocks(c)
Start(c) == CASE c = 1 -> 0
              [] c = 2 -> Blocks(1) * 50
              [] c = 3 -> Blocks(1) * 50 + Blocks(2) * 200
End(c) == Start(c) + Blocks(c) * BlockSize(c)
Bits(c) == BitStart(c) .. BitEnd(c) - 1

Outside == -1     \* an address of the system heap

VARIABLES
  used,         \* the bits set at use_ptr
  cursor,       \* row 6
  count,        \* row 7
  use,          \* m_var.use
  systemUse,    \* m_var.system_use
  mallocCount,  \* m_var.malloc_count
  live,         \* the handles that hold an allocation
  ptr,          \* what memory_alloc returned to each handle
  size,         \* what each handle asked for
  fallen        \* history: per class, requests the full bitmap sent away

vars == <<used, cursor, count, use, systemUse, mallocCount, live, ptr, size,
          fallen>>

Init ==
  /\ used = {}
  /\ cursor = [c \in Class |-> 0]
  /\ count = [c \in Class |-> 0]
  /\ use = 0
  /\ systemUse = 0
  /\ mallocCount = 0
  /\ live = {}
  /\ ptr = [h \in Handle |-> Outside]
  /\ size = [h \in Handle |-> 0]
  /\ fallen = [c \in Class |-> 0]

----------------------------------------------------------------------------
(* Slips a maintainer could make; each is swapped in to test a property.   *)

FromNeverWraps(c) == BitStart(c) + cursor[c]
AboveUntested(c) ==
  {i \in Bits(c) : i >= BitStart(c) + IF cursor[c] >= Blocks(c) THEN 0 ELSE cursor[c]}
CountLargest(c) ==
  use' = use + 1000 /\ count' = [count EXCEPT ![c] = @ + 1]
BitAtNoStart(c, p) == (p - Start(c)) \div BlockSize(c)

----------------------------------------------------------------------------
(* The smallest class whose blocks are large enough.                       *)
Serves(c, n) == n <= BlockSize(c) /\ \A d \in 1 .. c - 1 : n > BlockSize(d)

(* Where the search starts: row 6 counts every block ever handed out, so   *)
(* once it has passed the class's size the search starts at its first bit. *)
From(c) == IF cursor[c] >= Blocks(c) THEN BitStart(c) ELSE BitStart(c) + cursor[c]

(* The search goes up from there, then down to the class's second bit.     *)
Above(c) == {i \in Bits(c) : i >= From(c) /\ i \notin used}
Below(c) == {i \in Bits(c) : BitStart(c) < i /\ i <= From(c) /\ i \notin used}

Picks(c, i) ==
  \/ i \in Above(c) /\ \A j \in Above(c) : i <= j
  \/ Above(c) = {} /\ i \in Below(c) /\ \A j \in Below(c) : j <= i

AddressOf(c, i) == Start(c) + (i - BitStart(c)) * BlockSize(c)

HandOut(h, p, n) ==
  /\ live' = live \cup {h}
  /\ ptr' = [ptr EXCEPT ![h] = p]
  /\ size' = [size EXCEPT ![h] = n]
  /\ mallocCount' = mallocCount + 1

Count(c) ==
  /\ use' = use + BlockSize(c)
  /\ count' = [count EXCEPT ![c] = @ + 1]

AllocBlock(h, n) ==
  /\ h \notin live
  /\ mallocCount < MaxMallocs
  /\ \E c \in Class : \E i \in Bits(c) :
       /\ Serves(c, n)
       /\ Picks(c, i)
       /\ Count(c)
       /\ used' = used \cup {i}
       /\ cursor' = [cursor EXCEPT ![c] = @ + 1]
       /\ HandOut(h, AddressOf(c, i), n)
  /\ UNCHANGED <<systemUse, fallen>>

(* The class is known but its search found nothing: the block is counted   *)
(* as used all the same.                                                   *)
AllocFallback(h, n) ==
  /\ h \notin live
  /\ mallocCount < MaxMallocs
  /\ \E c \in Class :
       /\ Serves(c, n)
       /\ Above(c) \cup Below(c) = {}
       /\ Count(c)
       /\ fallen' = [fallen EXCEPT ![c] = @ + 1]
  /\ HandOut(h, Outside, n)
  /\ UNCHANGED <<used, cursor, systemUse>>

(* Larger than the largest block.                                          *)
AllocSystem(h, n) ==
  /\ h \notin live
  /\ mallocCount < MaxMallocs
  /\ n > BlockSize(3)
  /\ systemUse' = systemUse + n
  /\ HandOut(h, Outside, n)
  /\ UNCHANGED <<used, cursor, count, use, fallen>>

----------------------------------------------------------------------------
InPool(p) == 0 <= p /\ p < End(3)

(* memory_free finds class and bit again from the address alone.           *)
HoldsAddress(c, p) == Start(c) <= p /\ p < End(c)
BitAt(c, p) == (p - Start(c)) \div BlockSize(c) + BitStart(c)

Forget(h) ==
  /\ live' = live \ {h}
  /\ ptr' = [ptr EXCEPT ![h] = Outside]
  /\ size' = [size EXCEPT ![h] = 0]

FreeBlock(h) ==
  /\ h \in live
  /\ InPool(ptr[h])
  /\ \E c \in Class :
       /\ HoldsAddress(c, ptr[h])
       /\ use' = use - BlockSize(c)
       /\ count' = [count EXCEPT ![c] = @ - 1]
       /\ used' = used \ {BitAt(c, ptr[h])}
  /\ Forget(h)
  /\ UNCHANGED <<cursor, systemUse, mallocCount, fallen>>

FreeSystem(h) ==
  /\ h \in live
  /\ ~InPool(ptr[h])
  /\ Forget(h)
  /\ UNCHANGED <<used, cursor, count, use, systemUse, mallocCount, fallen>>

(* What 'server info' shows of it (memory_data, memory_con).               *)
ServerInfo ==
  [use |-> use, total |-> End(3), mallocCount |-> mallocCount, systemUse |-> systemUse,
   detail |-> [c \in Class |->
                 [size |-> BlockSize(c), use |-> count[c], total |-> BitEnd(c) - BitStart(c)]]]

Next ==
  \E h \in Handle :
    \/ \E n \in Request : AllocBlock(h, n) \/ AllocFallback(h, n) \/ AllocSystem(h, n)
    \/ FreeBlock(h)
    \/ FreeSystem(h)

Spec == Init /\ [][Next]_vars

----------------------------------------------------------------------------
(* The variables have their types; no counter of row 7 goes below zero.    *)
TypeOK ==
  /\ used \subseteq UNION {Bits(c) : c \in Class}
  /\ cursor \in [Class -> Nat]
  /\ count \in [Class -> Nat]
  /\ use \in Nat
  /\ systemUse \in Nat
  /\ mallocCount \in Nat
  /\ live \subseteq Handle
  /\ ptr \in [Handle -> Outside .. End(3) - 1]
  /\ size \in [Handle -> Nat]
  /\ fallen \in [Class -> Nat]

(* Two allocations from the region never share a byte, and none reaches    *)
(* past the region: every user of _malloc writes its bytes unchecked.      *)
BlocksDisjoint ==
  \A h \in live : InPool(ptr[h]) =>
    /\ ptr[h] + size[h] <= End(3)
    /\ \A g \in live \ {h} : InPool(ptr[g]) =>
         ptr[g] + size[g] <= ptr[h] \/ ptr[h] + size[h] <= ptr[g]

(* The bitmap holds exactly the blocks somebody still has: memory_free,    *)
(* which works from the address alone, clears the bit memory_alloc set.    *)
BitsAreLive ==
  \A c \in Class : \A i \in Bits(c) :
    i \in used <=> \E h \in live : ptr[h] = AddressOf(c, i)

(* m_var.use and row 7 are the blocks in use plus every request that ever  *)
(* fell back to the system heap, which nothing takes off again: row 7 is   *)
(* not the number of bits in use that memory.hpp:25 calls it.              *)
CountsExplained ==
  /\ use = 50 * count[1] + 200 * count[2] + 1000 * count[3]
  /\ \A c \in Class : count[c] = Cardinality(used \cap Bits(c)) + fallen[c]

(* What an administrator is shown: never fewer blocks of a class in use than *)
(* there are, and as many too many as ever fell back; and their true number. *)
InfoExplained ==
  \A c \in Class :
    LET shown == ServerInfo.detail[c]
    IN  /\ shown.use - Cardinality(used \cap Bits(c)) = fallen[c]
        /\ fallen[c] >= 0
        /\ shown.total = Cardinality(Bits(c))

(* Until row 6 passes the class's size the blocks from there on are        *)
(* untouched, so the first search finds whatever there is to find.         *)
FreshBeyondCursor ==
  \A c \in Class : \A i \in Bits(c) : i >= BitStart(c) + cursor[c] => i \notin used

(* A pointer into the region is the address of a whole block that is large  *)
(* enough, and no two holders have the same one.                           *)
OnePerBlock ==
  \A h \in live : InPool(ptr[h]) =>
    /\ \E c \in Class : \E i \in Bits(c) :
         ptr[h] = AddressOf(c, i) /\ size[h] <= BlockSize(c)
    /\ \A g \in live : ptr[g] = ptr[h] => g = h

(* The invariant the proofs use.                                           *)
PoolInv ==
  /\ TypeOK
  /\ OnePerBlock
  /\ BitsAreLive
  /\ FreshBeyondCursor
  /\ CountsExplained

(* The second, downward search of memory_alloc can be removed: when the    *)
(* upward one finds nothing, it finds nothing either.                      *)
SecondSearchFindsNothing ==
  \A c \in Class : Above(c) = {} => Below(c) = {}

(* memory_alloc goes to the system heap for a small request only when      *)
(* every block of the class is handed out.                                 *)
FallbackOnlyWhenFull ==
  [][\A c \in Class : fallen'[c] # fallen[c] => Bits(c) \subseteq used]_vars
=============================================================================
