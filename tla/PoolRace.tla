------------------------------ MODULE PoolRace ------------------------------
(***************************************************************************)
(* The block allocator with calls that overlap: every thread of the server   *)
(* allocates and frees, and memory_alloc and memory_free take no lock.       *)
(*                                                                         *)
(* A call is cut in two where others can spoil it: it looks for a bit, and   *)
(* reads the byte the bit is in; then it writes that byte.  The search is     *)
(* one step, and the sums that only serverInfo reports (m_var, row 7) are     *)
(* counted with the write.  The model stops where a call writes while         *)
(* another one is about to that works in the same class or the same byte:     *)
(* both may have found one bit, or one write undoes the other.              *)
(***************************************************************************)
EXTENDS MemoryPool

VARIABLES
  calls,    \* the calls that have looked and not yet written, by their handle
  crossed   \* two of them have met

raceVars == <<vars, calls, crossed>>

NoCall == [kind |-> "none"]

RaceInit ==
  /\ Init
  /\ calls = [h \in Handle |-> NoCall]
  /\ crossed = FALSE

(* Eight bits to a byte, whatever class their blocks are of.                *)
Byte(i) == i \div 8
InByte(i) == {j \in used : Byte(j) = Byte(i)}

(* A slip a maintainer could make.                                         *)
ChecksClassOnly(a, b) ==
  a.kind # "none" /\ b.kind # "none" /\ a.class = b.class

Meet(a, b) ==
  /\ a.kind # "none" /\ b.kind # "none"
  /\ a.class = b.class \/ Byte(a.bit) = Byte(b.bit)

Alone(h) == \A g \in Handle \ {h} : ~Meet(calls[g], calls[h])

----------------------------------------------------------------------------
(* A call keeps the byte it read in `seen`.                                 *)
Look(h, kind, c, i, n) ==
  /\ calls[h] = NoCall
  /\ calls' = [calls EXCEPT ![h] = [kind |-> kind, class |-> c, bit |-> i, n |-> n,
                                   seen |-> InByte(i)]]
  /\ UNCHANGED <<vars, crossed>>

LookToAlloc(h, n) ==
  /\ h \notin live
  /\ \E c \in Class : \E i \in Bits(c) :
       Serves(c, n) /\ Picks(c, i) /\ Look(h, "alloc", c, i, n)

LookToFree(h) ==
  /\ h \in live
  /\ InPool(ptr[h])
  /\ \E c \in Class :
       HoldsAddress(c, ptr[h]) /\ Look(h, "free", c, BitAt(c, ptr[h]), size[h])

(* The whole byte is written.                                              *)
Write(h, byte) ==
  /\ Alone(h)
  /\ used' = (used \ InByte(calls[h].bit)) \cup byte
  /\ calls' = [calls EXCEPT ![h] = NoCall]
  /\ UNCHANGED <<systemUse, fallen, crossed>>

WriteAlloc(h) ==
  LET c == calls[h].class
      i == calls[h].bit
  IN  /\ calls[h].kind = "alloc"
      /\ mallocCount < MaxMallocs
      /\ Count(c)
      /\ cursor' = [cursor EXCEPT ![c] = @ + 1]
      /\ HandOut(h, AddressOf(c, i), calls[h].n)
      /\ Write(h, calls[h].seen \cup {i})

WriteFree(h) ==
  LET c == calls[h].class
      i == calls[h].bit
  IN  /\ calls[h].kind = "free"
      /\ use' = use - BlockSize(c)
      /\ count' = [count EXCEPT ![c] = @ - 1]
      /\ Forget(h)
      /\ UNCHANGED <<cursor, mallocCount>>
      /\ Write(h, calls[h].seen \ {i})

Cross(h) ==
  /\ calls[h] # NoCall
  /\ ~Alone(h)
  /\ crossed' = TRUE
  /\ UNCHANGED <<vars, calls>>

(* The calls that do not touch the bitmap.                                  *)
Apart(h) ==
  /\ calls[h] = NoCall
  /\ \/ \E n \in Request : AllocFallback(h, n) \/ AllocSystem(h, n)
     \/ FreeSystem(h)
  /\ UNCHANGED <<calls, crossed>>

RaceNext ==
  /\ ~crossed
  /\ \E h \in Handle :
       \/ \E n \in Request : LookToAlloc(h, n)
       \/ LookToFree(h)
       \/ WriteAlloc(h) \/ WriteFree(h)
       \/ Cross(h)
       \/ Apart(h)

RaceSpec == RaceInit /\ [][RaceNext]_raceVars

----------------------------------------------------------------------------
(* memory.hpp:142: calls that overlap do what they would do one at a time,   *)
(* unless two of them write to the same class or the same byte at once.     *)
OneAtATime == Spec

(* A call that has looked still finds what it has found when it writes:    *)
(* nobody has been at its class, nor at the byte.                           *)
Fresh(h) ==
  LET a == calls[h]
  IN  /\ a # NoCall =>
           a.kind \in {"alloc", "free"} /\ a.class \in Class /\ a.bit \in Bits(a.class)
      /\ a.kind = "alloc" =>
           /\ h \notin live
           /\ a.n \in Request
           /\ Serves(a.class, a.n)
      /\ a.kind = "free" =>
           /\ h \in live
           /\ InPool(ptr[h])
           /\ HoldsAddress(a.class, ptr[h])
           /\ a.bit = BitAt(a.class, ptr[h])

StillPicked(h) == calls[h].kind = "alloc" => Picks(calls[h].class, calls[h].bit)
StillSeen(h) == calls[h] # NoCall => calls[h].seen = InByte(calls[h].bit)

RaceInv ==
  /\ DOMAIN calls = Handle
  /\ \A h \in Handle : Fresh(h)
  /\ \A h \in Handle : Alone(h) => StillPicked(h) /\ StillSeen(h)
=============================================================================
