-------------------------- MODULE LinkedList_proofs --------------------------
(***************************************************************************)
(* The lock of a list (SpinLock), for any number of threads, and that the    *)
(* lists use it as SpinLock says, whatever is done inside it: each step of a *)
(* thread is a step of the lock or none, so what is proved of the lock holds *)
(* of the lists.                                                           *)
(*                                                                         *)
(* Then the lists: at each statement of the thread inside, the pointers are  *)
(* those of a sequence of nodes, or of one with a node half in or half out   *)
(* (ListInv).  With it, what is found from head on is that sequence, and a   *)
(* call of create, destroy or clear is one step of NodeSeq.                 *)
(***************************************************************************)
EXTENDS LinkedList, FiniteSetTheorems, SequenceTheorems, TLAPS

(* LockInv is inductive: as long as two threads have not been between test    *)
(* and assignment together, whoever is in has the lock closed behind it, so  *)
(* the next one can pass the test only when nobody is in.                   *)
LEMMA InitLock == L!Init => L!LockInv
  BY DEF L!Init, L!LockInv, L!TypeOK, L!OneAtATime, L!LockedWhileIn, L!NeverLeftLocked

LEMMA StepLock == L!LockInv /\ [L!Next]_L!vars => L!LockInv'
<1> SUFFICES ASSUME L!LockInv, [L!Next]_L!vars
             PROVE  L!LockInv'
  OBVIOUS
<1> USE DEF L!LockInv, L!TypeOK, L!OneAtATime, L!LockedWhileIn, L!NeverLeftLocked
<1>1. ASSUME NEW t \in Thread, L!Call(t)
      PROVE  L!LockInv'
  BY <1>1 DEF L!Call
<1>2. ASSUME NEW t \in Thread, L!SeeFree(t)
      PROVE  L!LockInv'
  <2>1. raced' \in {"no", "yes"} /\ (raced = "yes" => raced' = "yes")
    BY <1>2 DEF L!SeeFree
  <2>2. raced' = "no" => \A u \in Thread : at[u] # "enter" /\ at[u] # "in"
    BY <1>2 DEF L!SeeFree, L!Free
  <2>3. \A u \in Thread : u # t => at'[u] = at[u]
    BY <1>2 DEF L!SeeFree
  <2>4. L!TypeOK'
    BY <1>2, <2>1 DEF L!SeeFree
  <2>5. L!OneAtATime'
    BY <2>1, <2>2, <2>3
  <2>6. L!LockedWhileIn' /\ L!NeverLeftLocked'
    BY <1>2, <2>1, <2>3 DEF L!SeeFree, L!Free
  <2> QED BY <2>4, <2>5, <2>6
<1>3. ASSUME NEW t \in Thread, L!Lock(t)
      PROVE  L!LockInv'
  BY <1>3 DEF L!Lock
<1>4. ASSUME NEW t \in Thread, L!Unlock(t)
      PROVE  L!LockInv'
  BY <1>4 DEF L!Unlock, L!Unlocked
<1>5. CASE UNCHANGED L!vars
  BY <1>5 DEF L!vars
<1> QED BY <1>1, <1>2, <1>3, <1>4, <1>5 DEF L!Next, L!Step

(* The invariant of the lock holds throughout, whatever the threads do with  *)
(* it.                                                                     *)
THEOREM LockSafe == L!Spec => []L!LockInv
  BY InitLock, StepLock, PTL DEF L!Spec

(* Two threads are in the lock at once only after two have tested it before  *)
(* either had set it (fishs.hpp:83-84 and the like).                       *)
THEOREM ExclusionNeedsRace == L!Spec => []L!ExclusiveUntilRace
<1>1. L!LockInv => L!ExclusiveUntilRace
  BY DEF L!LockInv, L!OneAtATime, L!ExclusiveUntilRace, L!MutualExclusion
<1> QED BY <1>1, LockSafe, PTL

(* The lock is never left closed behind the last thread out.               *)
THEOREM LockOpensAgain == L!Spec => []L!NeverLeftLocked
<1>1. L!LockInv => L!NeverLeftLocked
  BY DEF L!LockInv
<1> QED BY <1>1, LockSafe, PTL

----------------------------------------------------------------------------
LEMMA InitIsLockInit == Init => L!Init
  BY DEF Init, L!Init

LEMMA StepIsLockStep == [Next]_vars => [L!Next]_L!vars
<1> SUFFICES ASSUME [Next]_vars
             PROVE  [L!Next]_L!vars
  OBVIOUS
<1>1. ASSUME NEW t \in Thread, Enter(t)
      PROVE  L!Lock(t)
  BY <1>1 DEF Enter
<1>2. ASSUME NEW t \in Thread, Leave(t)
      PROVE  L!Unlock(t)
  BY <1>2 DEF Leave
<1>3. ASSUME NEW t \in Thread,
             \/ Create(t) \/ LinkFirst(t) \/ LinkLast(t) \/ Last(t)
             \/ RelinkNext(t) \/ RelinkPrev(t) \/ RelinkEnds(t) \/ Free(t)
             \/ Clear(t)
      PROVE  UNCHANGED L!vars
  BY <1>3 DEF Create, LinkFirst, LinkLast, Last, RelinkNext, RelinkPrev,
              RelinkEnds, Free, Clear, L!vars
<1>4. CASE UNCHANGED vars
  BY <1>4 DEF vars, L!vars
<1> QED BY <1>1, <1>2, <1>3, <1>4 DEF Next, Step, L!Next, L!Step

(* The pointer program implements the specification of its lock.           *)
THEOREM ImplementsLock == Spec => L!Spec
  BY InitIsLockInit, StepIsLockStep, PTL DEF Spec, L!Spec

(* Two threads are in a list at once only after two have tested its lock   *)
(* before either had set it (fishs.hpp:83-84 and the like).                *)
THEOREM ListExclusion == Spec => []ExclusiveUntilRace
<1>1. L!ExclusiveUntilRace => ExclusiveUntilRace
  BY DEF ExclusiveUntilRace
<1> QED BY <1>1, ImplementsLock, ExclusionNeedsRace, PTL

----------------------------------------------------------------------------
(* The lists themselves.                                                    *)

(* A sequence of nodes none of which is in it twice, and how its nodes are  *)
(* chained: what follows the i-th node, what is ahead of it, and where the  *)
(* chain starts.                                                           *)
Chain == {q \in Seq(Node) : \A i, j \in DOMAIN q : q[i] = q[j] => i = j}
After(q, i) == IF i = Len(q) THEN NULL ELSE q[i + 1]
Ahead(q, i) == IF i = 1 THEN NULL ELSE q[i - 1]
First(q) == IF q = <<>> THEN NULL ELSE q[1]

(* The pointers are those of q.                                            *)
Forward(q) == head = First(q) /\ \A i \in DOMAIN q : next[q[i]] = After(q, i)
Backward(q) == \A i \in DOMAIN q : prev[q[i]] = Ahead(q, i)
EndsAt(q) == q # <<>> => curr = q[Len(q)]
Counted(q) == allocated = Abstract!ToSet(q) /\ len = Len(q)
Whole(q) == q \in Chain /\ Forward(q) /\ Backward(q) /\ EndsAt(q) /\ Counted(q)

(* The pointers are those of q but for what destroy has made of those       *)
(* around its k-th node.                                                    *)
PassedForward(q, k) ==
  /\ head = First(q)
  /\ \A i \in DOMAIN q : next[q[i]] = After(q, IF i = k - 1 THEN k ELSE i)
PassedBackward(q, k) ==
  \A i \in DOMAIN q : prev[q[i]] = Ahead(q, IF i = k + 1 THEN k ELSE i)

(* What a finished call has made of the list q it found.                    *)
OneStep(q, r) ==
  \/ r = q \/ r = <<>>
  \/ \E n \in Node : n \notin Abstract!ToSet(q) /\ r = Append(q, n)
  \/ \E i \in DOMAIN q : r = Abstract!RemoveAt(q, i)

(* The list at each statement of the thread that is inside.                 *)
Adding(q, n) ==
  n \in Node \ Abstract!ToSet(q) /\ allocated = Abstract!ToSet(q) \cup {n} /\ len = Len(q)
AtStatement(t, q, n) ==
  /\ todo[t] \in {"create", "relink-next", "clear"} => Whole(q)
  /\ todo[t] = "create" => n \in Node \ allocated
  /\ todo[t] = "first" =>
       q = <<>> /\ head = NULL /\ next[n] = NULL /\ prev[n] = NULL /\ Adding(q, n)
  /\ todo[t] = "append" =>
       /\ q # <<>> /\ Forward(q) /\ Backward(q) /\ EndsAt(q)
       /\ next[n] = NULL /\ prev[n] = curr /\ Adding(q, n)
  /\ todo[t] = "last" =>
       Forward(Append(q, n)) /\ Backward(Append(q, n)) /\ Adding(q, n)
  /\ todo[t] = "relink-next" => n \in Abstract!ToSet(q)
  /\ todo[t] = "relink-prev" =>
       \E k \in DOMAIN q :
         /\ n = q[k] /\ Counted(q) /\ EndsAt(q)
         /\ PassedForward(q, k) /\ Backward(q)
  /\ todo[t] = "relink-ends" =>
       \E k \in DOMAIN q :
         /\ n = q[k] /\ Counted(q) /\ EndsAt(q)
         /\ PassedForward(q, k) /\ PassedBackward(q, k)
  /\ todo[t] = "free" =>
       \E k \in DOMAIN q :
         LET r == Abstract!RemoveAt(q, k)
         IN  n = q[k] /\ Counted(q) /\ Forward(r) /\ Backward(r) /\ EndsAt(r)
  /\ todo[t] = "done" => Whole(Path) /\ OneStep(q, Path)

Statement ==
  {"create", "first", "append", "last", "relink-next", "relink-prev",
   "relink-ends", "free", "clear", "done"}
ListTypes ==
  /\ head \in Node \cup {NULL} /\ curr \in Node \cup {NULL}
  /\ next \in [Node -> Node \cup {NULL}] /\ prev \in [Node -> Node \cup {NULL}]
  /\ todo \in [Thread -> Statement]
  /\ node \in [Thread -> Node \cup {NULL}]

ListInv ==
  raced = "no" =>
    /\ ListTypes
    /\ (\A t \in Thread : at[t] # "in") => Whole(Path)
    /\ \A t \in Thread : at[t] = "in" => before \in Chain /\ AtStatement(t, before, node[t])

----------------------------------------------------------------------------
(* A set of natural numbers has a least element (found among the intervals  *)
(* below its elements, ordered by inclusion).                               *)
LEMMA Least ==
  ASSUME NEW T \in SUBSET Nat, T # {}
  PROVE  \E m \in T : \A n \in T : m <= n
<1> DEFINE Below(n) == 0 .. n - 1
           Belows == {Below(n) : n \in T}
           R == StrictSubsetOrdering(Nat)
<1>1. Belows \subseteq FiniteSubsetsOf(Nat) /\ Belows # {}
  <2>1. \A n \in T : IsFiniteSet(Below(n)) /\ Below(n) \subseteq Nat
    BY FS_Interval
  <2> QED BY <2>1 DEF FiniteSubsetsOf
<1>2. PICK B \in Belows : \A C \in Belows : <<C, B>> \notin R
  <2> HIDE DEF R, Belows
  <2> QED BY <1>1, FS_StrictSubsetOrderingWellFounded, WFMin DEF R
<1>3. PICK m \in T : B = Below(m)
  OBVIOUS
<1>4. ASSUME NEW n \in T, n < m PROVE FALSE
  <2>1. Below(n) \subseteq Below(m) /\ n \in Below(m) /\ n \notin Below(n)
    BY <1>4
  <2>2. Below(n) \in SUBSET Nat /\ Below(m) \in SUBSET Nat /\ Below(n) # Below(m)
    BY <2>1
  <2>3. <<Below(n), Below(m)>> \in R
    <3> HIDE DEF Below
    <3> QED BY <2>1, <2>2 DEF StrictSubsetOrdering
  <2> QED BY <1>2, <1>3, <2>3
<1> QED BY <1>4

LEMMA Interval ==
  ASSUME NEW n \in Nat
  PROVE  Cardinality(1 .. n) = n
<1>1. Cardinality(1 .. n) = IF 1 > n THEN 0 ELSE n - 1 + 1
  BY FS_Interval
<1> QED BY <1>1

(* A chain is no longer than there are nodes, and as long as its nodes are   *)
(* many.                                                                   *)
LEMMA ChainCounts ==
  ASSUME NEW q \in Chain
  PROVE  /\ Len(q) \in Nat /\ DOMAIN q = 1 .. Len(q) /\ \A i \in DOMAIN q : q[i] \in Node
         /\ Cardinality(Node) \in Nat /\ Len(q) <= Cardinality(Node)
         /\ Cardinality(Abstract!ToSet(q)) = Len(q)
<1>1. /\ q \in [1 .. Len(q) -> Node] /\ Len(q) \in Nat /\ DOMAIN q = 1 .. Len(q)
      /\ \A i, j \in 1 .. Len(q) : q[i] = q[j] => i = j
  BY LenProperties DEF Chain
<1>2. q \in Injection(1 .. Len(q), Node)
  BY <1>1 DEF Injection, IsInjective
<1>3. Cardinality(1 .. Len(q)) = Len(q)
  BY <1>1, Interval
<1>4. Cardinality(Node) \in Nat /\ Len(q) <= Cardinality(Node)
  BY <1>2, <1>3, FS_Injection, FS_CardinalityType, LinkedListAssumption
<1>5. q \in Bijection(1 .. Len(q), Abstract!ToSet(q))
  BY <1>1 DEF Bijection, Injection, IsInjective, Surjection, Abstract!ToSet
<1>6. Cardinality(Abstract!ToSet(q)) = Len(q)
  BY <1>1, <1>5, FS_CountingElements DEF ExistsBijection
<1> QED BY <1>1, <1>4, <1>6

(* A walk along the next pointers of a chain meets it and then NULL.         *)
LEMMA MetIs ==
  ASSUME NEW q \in Chain, Forward(q)
  PROVE  Met = [i \in 1 .. Cardinality(Node) + 1 |-> IF i <= Len(q) THEN q[i] ELSE NULL]
<1> DEFINE N == Cardinality(Node) + 1
           f == [i \in 1 .. N |-> IF i <= Len(q) THEN q[i] ELSE NULL]
           Walk(g) == [i \in 1 .. N |-> IF i = 1 THEN head
                                        ELSE IF g[i - 1] = NULL THEN NULL ELSE next[g[i - 1]]]
<1>0. Len(q) \in Nat /\ N \in Nat /\ Len(q) < N
  BY ChainCounts
<1>1. /\ Len(q) \in Nat /\ DOMAIN q = 1 .. Len(q) /\ N \in Nat /\ Len(q) < N
      /\ \A i \in 1 .. Len(q) : q[i] # NULL
  BY ChainCounts, LinkedListAssumption
<1>2. head = IF Len(q) = 0 THEN NULL ELSE q[1]
  BY <1>1, EmptySeq DEF Forward, First, Chain
<1>3. \A i \in 1 .. Len(q) : next[q[i]] = IF i = Len(q) THEN NULL ELSE q[i + 1]
  BY <1>1 DEF Forward, After
<1>4. ASSUME NEW i \in 1 .. N
      PROVE  f[i] = Walk(f)[i]
  <2>1. CASE i = 1
    BY <1>1, <1>2, <2>1
  <2>2. CASE i # 1
    <3>1. i - 1 \in 1 .. N /\ Walk(f)[i] = IF f[i - 1] = NULL THEN NULL ELSE next[f[i - 1]]
      BY <1>1, <2>2
    <3>2. CASE i - 1 <= Len(q)
      <4>1. PICK j \in 1 .. Len(q) : i = j + 1 /\ j = i - 1
        BY <1>1, <2>2, <3>2
      <4>2. f[j] = q[j]
        BY <1>1, <4>1
      <4>3. f[i] = IF j = Len(q) THEN NULL ELSE q[i]
        <5>1. i <= Len(q) <=> j # Len(q)
          BY <1>0, <4>1
        <5> QED BY <5>1
      <4> HIDE DEF f
      <4> QED BY <1>1, <1>3, <3>1, <4>1, <4>2, <4>3
    <3>3. CASE ~ i - 1 <= Len(q)
      BY <1>1, <3>1, <3>3
    <3> QED BY <3>2, <3>3
  <2> QED BY <2>1, <2>2
<1>5. f = Walk(f)
  BY <1>4
<1>6. Met = Walk(Met)
  <2> HIDE DEF f
  <2>1. \E g : g = Walk(g)
    BY <1>5
  <2> QED BY <2>1 DEF Met
<1> DEFINE Bad == {i \in 1 .. N : Met[i] # f[i]}
<1>7. Bad = {}
  <2> SUFFICES ASSUME Bad # {} PROVE FALSE
    OBVIOUS
  <2>1. PICK m \in Bad : \A i \in Bad : m <= i
    <3>1. Bad \in SUBSET Nat
      BY <1>1
    <3> HIDE DEF Bad
    <3> QED BY <3>1, Least
  <2>2. m # 1
    <3>1. 1 \in 1 .. N
      BY <1>1
    <3>2. Met[1] = head
      BY <1>6, <3>1
    <3>3. f[1] = head
      BY <1>4, <3>1
    <3> QED BY <3>2, <3>3
  <2>3. m - 1 \in 1 .. N /\ Met[m - 1] = f[m - 1]
    BY <2>1, <2>2, <1>1
  <2>4. Met[m] = Walk(f)[m]
    BY <1>6, <2>2, <2>3
  <2> QED BY <1>4, <2>4
<1> QED BY <1>6, <1>7

(* and so Path is the chain the pointers make.                              *)
LEMMA PathIs ==
  ASSUME NEW q \in Chain, Forward(q)
  PROVE  Path = q
<1> DEFINE N == Cardinality(Node) + 1
<1>1. /\ Len(q) \in Nat /\ DOMAIN q = 1 .. Len(q) /\ N \in Nat /\ Len(q) < N
      /\ \A i \in 1 .. Len(q) : q[i] # NULL
  BY ChainCounts, LinkedListAssumption
<1>2. Met = [i \in 1 .. N |-> IF i <= Len(q) THEN q[i] ELSE NULL]
  BY MetIs
<1>3. {k \in DOMAIN Met : Met[k] # NULL} = 1 .. Len(q)
  BY <1>1, <1>2
<1>4. Cardinality({k \in DOMAIN Met : Met[k] # NULL}) = Len(q)
  BY <1>1, <1>3, Interval
<1>5. Path = [i \in 1 .. Len(q) |-> q[i]]
  <2>1. Path = [i \in 1 .. Len(q) |-> Met[i]]
    BY <1>4 DEF Path
  <2>2. \A i \in 1 .. Len(q) : Met[i] = q[i]
    BY <1>1, <1>2
  <2> QED BY <2>1, <2>2
<1>6. q \in [1 .. Len(q) -> Node]
  BY LenProperties DEF Chain
<1> QED BY <1>5, <1>6

(* Adding a node at the end of a chain.                                     *)
LEMMA Appended ==
  ASSUME NEW q \in Chain, NEW n \in Node \ Abstract!ToSet(q)
  PROVE  /\ Append(q, n) \in Chain /\ Len(Append(q, n)) = Len(q) + 1
         /\ Append(q, n)[Len(q) + 1] = n
         /\ \A i \in 1 .. Len(q) : Append(q, n)[i] = q[i]
         /\ Abstract!ToSet(Append(q, n)) = Abstract!ToSet(q) \cup {n}
<1>1. /\ Append(q, n) \in Seq(Node) /\ Len(Append(q, n)) = Len(q) + 1
      /\ Append(q, n)[Len(q) + 1] = n
      /\ \A i \in 1 .. Len(q) : Append(q, n)[i] = q[i]
  BY AppendProperties DEF Chain
<1>2. Len(q) \in Nat /\ DOMAIN q = 1 .. Len(q) /\ DOMAIN Append(q, n) = 1 .. Len(q) + 1
  BY <1>1, LenProperties DEF Chain
<1>3. \A i \in 1 .. Len(q) : q[i] # n
  BY <1>2 DEF Abstract!ToSet
<1>4. Append(q, n) \in Chain
  <2>1. \A i, j \in 1 .. Len(q) + 1 : Append(q, n)[i] = Append(q, n)[j] => i = j
    <3> DEFINE a == Append(q, n)
    <3> HIDE DEF a
    <3>1. /\ a[Len(q) + 1] = n /\ \A i \in 1 .. Len(q) : a[i] = q[i]
          /\ \A i, j \in 1 .. Len(q) : q[i] = q[j] => i = j
      BY <1>1, <1>2 DEF a, Chain
    <3>2. \A i, j \in 1 .. Len(q) + 1 : a[i] = a[j] => i = j
      BY <1>2, <1>3, <3>1
    <3> QED BY <3>2 DEF a
  <2> QED BY <1>1, <1>2, <2>1 DEF Chain
<1>5. Abstract!ToSet(Append(q, n)) = Abstract!ToSet(q) \cup {n}
  BY <1>1, <1>2 DEF Abstract!ToSet
<1> QED BY <1>1, <1>4, <1>5

(* Taking the k-th node out of a chain.                                     *)
LEMMA Removed ==
  ASSUME NEW q \in Chain, NEW k \in DOMAIN q
  PROVE  LET r == Abstract!RemoveAt(q, k)
         IN  /\ r \in Chain /\ Len(r) = Len(q) - 1
             /\ \A i \in 1 .. Len(q) - 1 : r[i] = q[IF i < k THEN i ELSE i + 1]
             /\ Abstract!ToSet(r) = Abstract!ToSet(q) \ {q[k]}
<1> DEFINE r == Abstract!RemoveAt(q, k)
           s == SubSeq(q, 1, k - 1)
           u == SubSeq(q, k + 1, Len(q))
<1>1. /\ q \in Seq(Node) /\ Len(q) \in Nat /\ DOMAIN q = 1 .. Len(q) /\ k \in 1 .. Len(q)
      /\ \A i, j \in 1 .. Len(q) : q[i] = q[j] => i = j
  BY ChainCounts DEF Chain
<1>2. s \in Seq(Node) /\ Len(s) = k - 1 /\ \A i \in 1 .. k - 1 : s[i] = q[i]
  BY <1>1, SubSeqProperties
<1>3. u \in Seq(Node) /\ Len(u) = Len(q) - k /\ \A i \in 1 .. Len(q) - k : u[i] = q[i + k]
  BY <1>1, SubSeqProperties
<1>4. r = s \o u
  BY DEF Abstract!RemoveAt
<1>5. /\ r \in Seq(Node) /\ Len(r) = Len(q) - 1
      /\ \A i \in 1 .. Len(q) - 1 : r[i] = IF i <= k - 1 THEN s[i] ELSE u[i - (k - 1)]
  <2>1. /\ r \in Seq(Node) /\ Len(r) = Len(s) + Len(u)
        /\ \A i \in 1 .. Len(s) + Len(u) : r[i] = IF i <= Len(s) THEN s[i] ELSE u[i - Len(s)]
    <3> HIDE DEF s, u, r
    <3> QED BY <1>2, <1>3, <1>4, ConcatProperties
  <2>2. Len(s) + Len(u) = Len(q) - 1
    BY <1>1, <1>2, <1>3
  <2> HIDE DEF s, u, r
  <2> QED BY <1>2, <2>1, <2>2
<1>6. \A i \in 1 .. Len(q) - 1 : r[i] = q[IF i < k THEN i ELSE i + 1]
  <2> TAKE i \in 1 .. Len(q) - 1
  <2> HIDE DEF s, u, r
  <2>1. CASE i < k
    BY <1>1, <1>2, <1>5, <2>1
  <2>2. CASE ~ i < k
    <3>1. i - (k - 1) \in 1 .. Len(q) - k /\ i - (k - 1) + k = i + 1
      BY <1>1, <2>2
    <3>2. r[i] = u[i - (k - 1)] /\ u[i - (k - 1)] = q[i - (k - 1) + k]
      BY <1>1, <1>3, <1>5, <2>2, <3>1
    <3> QED BY <2>2, <3>1, <3>2
  <2> QED BY <2>1, <2>2
<1>7. DOMAIN r = 1 .. Len(q) - 1
  BY <1>5, LenProperties
<1> HIDE DEF r
<1>8. r \in Chain
  BY <1>1, <1>5, <1>6, <1>7 DEF Chain
<1>9. Abstract!ToSet(r) = Abstract!ToSet(q) \ {q[k]}
  <2>1. ASSUME NEW x \in Abstract!ToSet(r)
        PROVE  x \in Abstract!ToSet(q) \ {q[k]}
    BY <1>1, <1>6, <1>7, <2>1 DEF Abstract!ToSet
  <2>2. ASSUME NEW x \in Abstract!ToSet(q), x # q[k]
        PROVE  x \in Abstract!ToSet(r)
    <3>1. PICK i \in 1 .. Len(q) : x = q[i] /\ i # k
      BY <1>1, <2>2 DEF Abstract!ToSet
    <3>2. CASE i < k
      <4>1. i \in 1 .. Len(q) - 1 /\ r[i] = x
        BY <1>1, <1>6, <3>1, <3>2
      <4> QED BY <1>7, <4>1 DEF Abstract!ToSet
    <3>3. CASE i > k
      <4>1. i - 1 \in 1 .. Len(q) - 1 /\ r[i - 1] = x
        BY <1>1, <1>6, <3>1, <3>3
      <4> QED BY <1>7, <4>1 DEF Abstract!ToSet
    <3> QED BY <1>1, <3>1, <3>2, <3>3
  <2> QED BY <2>1, <2>2
<1> QED BY <1>5, <1>6, <1>8, <1>9 DEF r

LEMMA PathIsNow == \A q \in Chain : Forward(q) => Path = q
  BY PathIs

LEMMA PathIsThen == (\A q \in Chain : Forward(q) => Path = q)'
  BY PathIsNow, PTL

(* What the pointers say of a list says as much once none has changed.      *)
LEMMA Unchanged ==
  ASSUME UNCHANGED pointers
  PROVE  /\ Path' = Path
         /\ \A q : Whole(q)' = Whole(q)
<1> QED BY DEF pointers, Path, Met, Whole, Forward, Backward, EndsAt, Counted

LEMMA InitList == Init => ListInv
<1> SUFFICES ASSUME Init PROVE ListInv
  OBVIOUS
<1> DEFINE e == <<>>
<1>1. e \in Chain /\ Len(e) = 0 /\ DOMAIN e = {}
  BY EmptySeq DEF Chain
<1>2. Abstract!ToSet(e) = {}
  BY <1>1 DEF Abstract!ToSet
<1>3. Whole(e)
  BY <1>1, <1>2 DEF Init, Whole, Forward, First, Backward, EndsAt, Counted
<1>4. Path = e
  BY <1>3, PathIsNow DEF Whole
<1>5. ListTypes
  BY DEF Init, ListTypes, Statement
<1>6. \A t \in Thread : at[t] # "in"
  BY DEF Init, L!Init
<1> QED BY <1>3, <1>4, <1>5, <1>6 DEF ListInv

(* The thread t is inside, and its statement has led to another.            *)
LEMMA Stays ==
  ASSUME NEW t \in Thread, at[t] = "in", raced = "no", L!LockInv,
         UNCHANGED <<at, raced, node, before>>,
         NEW q \in Chain, q = before, ListTypes', AtStatement(t, q, node[t])'
  PROVE  ListInv'
<1>1. \A u \in Thread : at'[u] = "in" => u = t
  BY DEF L!LockInv, L!OneAtATime
<1>2. at'[t] = "in"
  OBVIOUS
<1>3. before' = q
  OBVIOUS
<1> QED BY <1>1, <1>2, <1>3 DEF ListInv

(* What is known at a statement of the thread inside.                       *)
LEMMA Known ==
  ASSUME ListInv, NEW t \in Thread, NEW statement, Inside(t, statement)
  PROVE  /\ raced = "no" /\ at[t] = "in" /\ todo[t] = statement
         /\ ListTypes /\ before \in Chain /\ AtStatement(t, before, node[t])
  BY DEF ListInv, Inside

(* A chain by its length m: what After, Ahead and First make of it.          *)
Laid(q, m) ==
  /\ m = Len(q) /\ DOMAIN q = 1 .. m /\ (q = <<>> <=> m = 0)
  /\ \A i \in 1 .. m : q[i] \in Node /\ q[i] # NULL
  /\ \A i, j \in 1 .. m : q[i] = q[j] => i = j
  /\ First(q) = IF m = 0 THEN NULL ELSE q[1]
  /\ \A i \in 1 .. m : After(q, i) = IF i = m THEN NULL ELSE q[i + 1]
  /\ \A i \in 1 .. m : Ahead(q, i) = IF i = 1 THEN NULL ELSE q[i - 1]

LEMMA Links ==
  ASSUME NEW q \in Chain
  PROVE  \E m \in Nat : Laid(q, m)
<1>1. /\ Len(q) \in Nat /\ DOMAIN q = 1 .. Len(q) /\ (q = <<>> <=> Len(q) = 0)
      /\ \A i \in 1 .. Len(q) : q[i] \in Node /\ q[i] # NULL
      /\ \A i, j \in 1 .. Len(q) : q[i] = q[j] => i = j
  BY ChainCounts, EmptySeq, LinkedListAssumption DEF Chain
<1>2. Len(q) \in Nat
  BY <1>1
<1> USE <1>2
<1> WITNESS Len(q) \in Nat
<1> QED BY <1>1 DEF Laid, First, After, Ahead

LEMMA StepCreate ==
  ASSUME ListInv, L!LockInv, NEW t \in Thread, Create(t)
  PROVE  ListInv'
<1>1. /\ raced = "no" /\ at[t] = "in" /\ todo[t] = "create"
      /\ ListTypes /\ before \in Chain /\ AtStatement(t, before, node[t])
  BY Known DEF Create
<1> PICK q \in Chain : q = before
  BY <1>1
<1> PICK n \in Node : n = node[t] /\ n \notin allocated
  BY <1>1 DEF AtStatement
<1>2. Whole(q)
  BY <1>1 DEF AtStatement
<1>3. PICK m \in Nat : Laid(q, m)
  BY Links
<1> USE DEF Laid
<1>4. allocated = Abstract!ToSet(q) /\ n \notin Abstract!ToSet(q) /\ len = Len(q)
  BY <1>2 DEF Whole, Counted
<1>5. \A i \in 1 .. m : q[i] # n
  BY <1>3, <1>4, ZenonT(30) DEF Abstract!ToSet
<1>6. /\ UNCHANGED <<lock, at, raced, head, curr, len, node, before>>
      /\ allocated' = allocated \cup {n}
      /\ next' = [next EXCEPT ![n] = NULL]
      /\ prev' = [prev EXCEPT ![n] = IF head = NULL THEN NULL ELSE curr]
      /\ todo' = [todo EXCEPT ![t] = IF head = NULL THEN "first" ELSE "append"]
  BY DEF Create, Go
<1>7. ListTypes'
  BY <1>1, <1>6 DEF ListTypes, Statement
<1>8. Adding(q, n)'
  BY <1>4, <1>6 DEF Adding
<1>9. next'[n] = NULL /\ prev'[n] = (IF head = NULL THEN NULL ELSE curr)
  BY <1>1, <1>6 DEF ListTypes
<1>10. Forward(q)' /\ Backward(q)' /\ EndsAt(q)'
  BY <1>1, <1>2, <1>3, <1>5, <1>6 DEF Whole, Forward, Backward, EndsAt, ListTypes
<1>11. head = NULL <=> q = <<>>
  <2>1. head = First(q)
    BY <1>2 DEF Whole, Forward
  <2>2. CASE m = 0
    BY <1>3, <2>1, <2>2
  <2>3. CASE m # 0
    <3>1. 1 \in 1 .. m
      BY <2>3
    <3> QED BY <1>3, <2>1, <2>3, <3>1
  <2> QED BY <2>2, <2>3
<1>12. todo'[t] = IF head = NULL THEN "first" ELSE "append"
  BY <1>1, <1>6 DEF ListTypes
<1>13. AtStatement(t, q, n)'
  <2>1. CASE head = NULL
    BY <1>6, <1>8, <1>9, <1>11, <1>12, <2>1 DEF AtStatement
  <2>2. CASE head # NULL
    BY <1>6, <1>8, <1>9, <1>10, <1>11, <1>12, <2>2 DEF AtStatement
  <2> QED BY <2>1, <2>2
<1> QED BY <1>1, <1>6, <1>7, <1>13, Stays

LEMMA StepLinkFirst ==
  ASSUME ListInv, L!LockInv, NEW t \in Thread, LinkFirst(t)
  PROVE  ListInv'
<1>1. /\ raced = "no" /\ at[t] = "in" /\ todo[t] = "first"
      /\ ListTypes /\ before \in Chain /\ AtStatement(t, before, node[t])
  BY Known DEF LinkFirst
<1> PICK q \in Chain : q = before
  BY <1>1
<1>2. q = <<>> /\ next[node[t]] = NULL /\ prev[node[t]] = NULL /\ Adding(q, node[t])
  BY <1>1 DEF AtStatement
<1> PICK n \in Node : n = node[t] /\ n \notin Abstract!ToSet(q)
  BY <1>2 DEF Adding
<1> DEFINE r == Append(q, n)
<1>3. r \in Chain /\ Len(r) = 1 /\ r[1] = n
  <2>1. Len(q) = 0 /\ Len(q) + 1 = 1
    BY <1>2, EmptySeq
  <2>2. r \in Chain /\ Len(r) = Len(q) + 1 /\ r[Len(q) + 1] = n
    BY Appended
  <2> HIDE DEF r
  <2> QED BY <2>1, <2>2
<1> HIDE DEF r
<1>4. DOMAIN r = 1 .. 1 /\ r # <<>>
  BY <1>3, ChainCounts, EmptySeq
<1>5. /\ UNCHANGED <<lock, at, raced, curr, next, prev, len, allocated, node, before>>
      /\ head' = n /\ todo' = [todo EXCEPT ![t] = "last"]
  BY DEF LinkFirst, Go
<1>6. ListTypes'
  BY <1>1, <1>5 DEF ListTypes, Statement
<1>7. Forward(r)' /\ Backward(r)'
  BY <1>2, <1>3, <1>4, <1>5 DEF Forward, Backward, First, After, Ahead
<1>8. Adding(q, n)'
  BY <1>2, <1>5 DEF Adding
<1>9. todo'[t] = "last"
  BY <1>1, <1>5 DEF ListTypes
<1>10. AtStatement(t, q, n)'
  BY <1>7, <1>8, <1>9 DEF AtStatement, r
<1> QED BY <1>1, <1>5, <1>6, <1>10, Stays

LEMMA StepLinkLast ==
  ASSUME ListInv, L!LockInv, NEW t \in Thread, LinkLast(t)
  PROVE  ListInv'
<1>1. /\ raced = "no" /\ at[t] = "in" /\ todo[t] = "append"
      /\ ListTypes /\ before \in Chain /\ AtStatement(t, before, node[t])
  BY Known DEF LinkLast
<1> PICK q \in Chain : q = before
  BY <1>1
<1>2. /\ q # <<>> /\ Forward(q) /\ Backward(q) /\ EndsAt(q)
      /\ next[node[t]] = NULL /\ prev[node[t]] = curr /\ Adding(q, node[t])
  BY <1>1 DEF AtStatement
<1> PICK n \in Node : n = node[t] /\ n \notin Abstract!ToSet(q)
  BY <1>2 DEF Adding
<1>3. PICK m \in Nat : Laid(q, m)
  BY Links
<1> USE DEF Laid
<1>4. m # 0 /\ curr = q[m]
  BY <1>2, <1>3 DEF EndsAt
<1>5. \A i \in 1 .. m : q[i] # n
  <2>1. \A i \in DOMAIN q : q[i] \in Abstract!ToSet(q)
    BY DEF Abstract!ToSet
  <2>2. DOMAIN q = 1 .. m
    BY <1>3
  <2> QED BY <2>1, <2>2
<1> DEFINE r == Append(q, n)
<1>6. r \in Chain /\ Len(r) = m + 1 /\ r[m + 1] = n /\ \A i \in 1 .. m : r[i] = q[i]
  BY <1>3, Appended
<1> HIDE DEF r
<1>7. /\ DOMAIN r = 1 .. m + 1 /\ r # <<>>
      /\ First(r) = r[1]
      /\ \A i \in 1 .. m + 1 : After(r, i) = IF i = m + 1 THEN NULL ELSE r[i + 1]
      /\ \A i \in 1 .. m + 1 : Ahead(r, i) = IF i = 1 THEN NULL ELSE r[i - 1]
  BY <1>6, Links
<1>8. /\ UNCHANGED <<lock, at, raced, head, curr, prev, len, allocated, node, before>>
      /\ next' = [next EXCEPT ![curr] = n] /\ todo' = [todo EXCEPT ![t] = "last"]
  BY DEF LinkLast, Go
<1>9. ListTypes'
  BY <1>1, <1>8 DEF ListTypes, Statement
<1>10. Forward(r)'
  <2>1. head' = First(r)
    <3>1. 1 \in 1 .. m
      BY <1>4
    <3> QED BY <1>2, <1>3, <1>4, <1>6, <1>7, <1>8, <3>1 DEF Forward
  <2>2. ASSUME NEW i \in 1 .. m + 1
        PROVE  next'[r[i]] = After(r, i)
    <3>1. CASE i = m + 1
      BY <1>1, <1>2, <1>3, <1>4, <1>5, <1>6, <1>7, <1>8, <3>1 DEF ListTypes
    <3>2. CASE i = m
      BY <1>1, <1>3, <1>4, <1>6, <1>7, <1>8, <3>2 DEF ListTypes
    <3>3. CASE i < m
      <4>1. i \in 1 .. m /\ i + 1 \in 1 .. m /\ m \in 1 .. m /\ i # m
        BY <1>4, <3>3
      <4>2. next'[r[i]] = next[q[i]]
        BY <1>1, <1>3, <1>4, <1>6, <1>8, <4>1 DEF ListTypes
      <4>3. next[q[i]] = q[i + 1]
        BY <1>2, <1>3, <4>1 DEF Forward
      <4>4. After(r, i) = q[i + 1]
        BY <1>6, <1>7, <4>1
      <4> QED BY <4>2, <4>3, <4>4
    <3> QED BY <3>1, <3>2, <3>3
  <2> QED BY <1>7, <2>1, <2>2 DEF Forward
<1>11. Backward(r)'
  <2>1. ASSUME NEW i \in 1 .. m + 1
        PROVE  prev'[r[i]] = Ahead(r, i)
    <3>1. CASE i = m + 1
      <4>1. m \in 1 .. m /\ i # 1 /\ i - 1 = m
        BY <1>4, <3>1
      <4> QED BY <1>2, <1>4, <1>6, <1>7, <1>8, <3>1, <4>1
    <3>2. CASE i # m + 1
      <4>1. i \in 1 .. m /\ (i # 1 => i - 1 \in 1 .. m)
        BY <3>2
      <4>2. prev[q[i]] = IF i = 1 THEN NULL ELSE q[i - 1]
        BY <1>2, <1>3, <4>1 DEF Backward
      <4> QED BY <1>6, <1>7, <1>8, <4>1, <4>2
    <3> QED BY <3>1, <3>2
  <2> QED BY <1>7, <2>1 DEF Backward
<1>12. Adding(q, n)'
  BY <1>2, <1>8 DEF Adding
<1>13. todo'[t] = "last"
  BY <1>1, <1>8 DEF ListTypes
<1>14. AtStatement(t, q, n)'
  BY <1>10, <1>11, <1>12, <1>13 DEF AtStatement, r
<1> QED BY <1>1, <1>8, <1>9, <1>14, Stays

(* A thread that has finished has made a whole list r of the one it found.  *)
LEMMA Finished ==
  ASSUME NEW t \in Thread, todo'[t] = "done", NEW q \in Chain, NEW r \in Chain,
         OneStep(q, r), Whole(r)', NEW n
  PROVE  AtStatement(t, q, n)'
<1>1. Path' = r
  BY PathIsThen DEF Whole
<1> QED BY <1>1 DEF AtStatement, OneStep

LEMMA StepLast ==
  ASSUME ListInv, L!LockInv, NEW t \in Thread, Last(t)
  PROVE  ListInv'
<1>1. /\ raced = "no" /\ at[t] = "in" /\ todo[t] = "last"
      /\ ListTypes /\ before \in Chain /\ AtStatement(t, before, node[t])
  BY Known DEF Last
<1> PICK q \in Chain : q = before
  BY <1>1
<1>2. /\ Forward(Append(q, node[t])) /\ Backward(Append(q, node[t]))
      /\ Adding(q, node[t])
  BY <1>1 DEF AtStatement
<1> PICK n \in Node : n = node[t] /\ n \notin Abstract!ToSet(q)
  BY <1>2 DEF Adding
<1> DEFINE r == Append(q, n)
<1>3. /\ r \in Chain /\ Len(r) = Len(q) + 1 /\ r[Len(r)] = n
      /\ Abstract!ToSet(r) = Abstract!ToSet(q) \cup {n} /\ Len(q) \in Nat
  BY Appended, ChainCounts
<1>4. OneStep(q, r)
  BY DEF OneStep
<1> HIDE DEF r
<1>5. /\ UNCHANGED <<lock, at, raced, head, next, prev, allocated, node, before>>
      /\ curr' = n /\ len' = len + 1 /\ todo' = [todo EXCEPT ![t] = "done"]
  BY DEF Last, Go
<1>6. ListTypes' /\ todo'[t] = "done"
  BY <1>1, <1>5 DEF ListTypes, Statement
<1>7. Forward(r)' /\ Backward(r)'
  BY <1>2, <1>5 DEF Forward, Backward, r
<1>8. EndsAt(r)' /\ Counted(r)'
  BY <1>2, <1>3, <1>5 DEF Adding, Counted, EndsAt
<1>9. Whole(r)'
  BY <1>3, <1>7, <1>8 DEF Whole
<1>10. AtStatement(t, q, n)'
  BY <1>3, <1>4, <1>6, <1>9, Finished
<1> QED BY <1>1, <1>5, <1>6, <1>10, Stays

LEMMA StepRelinkNext ==
  ASSUME ListInv, L!LockInv, NEW t \in Thread, RelinkNext(t)
  PROVE  ListInv'
<1>1. /\ raced = "no" /\ at[t] = "in" /\ todo[t] = "relink-next"
      /\ ListTypes /\ before \in Chain /\ AtStatement(t, before, node[t])
  BY Known DEF RelinkNext
<1> PICK q \in Chain : q = before
  BY <1>1
<1>2. Whole(q) /\ node[t] \in Abstract!ToSet(q)
  BY <1>1 DEF AtStatement
<1>3. PICK m \in Nat : Laid(q, m)
  BY Links
<1> USE DEF Laid
<1> PICK k \in 1 .. m : node[t] = q[k]
  BY <1>2, <1>3 DEF Abstract!ToSet
<1>4. /\ \A i \in 1 .. m : next[q[i]] = After(q, i)
      /\ \A i \in 1 .. m : prev[q[i]] = Ahead(q, i)
  BY <1>2, <1>3 DEF Whole, Forward, Backward
<1>5. /\ UNCHANGED <<lock, at, raced, head, curr, prev, len, allocated, node, before>>
      /\ next' = IF prev[q[k]] = NULL THEN next ELSE [next EXCEPT ![prev[q[k]]] = next[q[k]]]
      /\ todo' = [todo EXCEPT ![t] = "relink-prev"]
  BY DEF RelinkNext, Go, NextWithout
<1>6. ListTypes' /\ todo'[t] = "relink-prev"
  BY <1>1, <1>3, <1>5 DEF ListTypes, Statement
<1>7. ASSUME NEW i \in 1 .. m
      PROVE  next'[q[i]] = After(q, IF i = k - 1 THEN k ELSE i)
  <2>1. CASE k = 1
    BY <1>3, <1>4, <1>5, <2>1
  <2>2. CASE k # 1
    <3>1. k - 1 \in 1 .. m
      BY <2>2
    <3>2. prev[q[k]] = q[k - 1] /\ q[k - 1] \in Node /\ q[k - 1] # NULL
      BY <1>3, <1>4, <2>2, <3>1
    <3>3. next' = [next EXCEPT ![q[k - 1]] = After(q, k)]
      BY <1>4, <1>5, <3>2
    <3>4. CASE i = k - 1
      BY <1>1, <3>2, <3>3, <3>4 DEF ListTypes
    <3>5. CASE i # k - 1
      <4>1. q[i] # q[k - 1]
        BY <1>3, <3>1, <3>5
      <4> QED BY <1>1, <1>4, <3>3, <3>5, <4>1 DEF ListTypes
    <3> QED BY <3>4, <3>5
  <2> QED BY <2>1, <2>2
<1>8. PassedForward(q, k)' /\ Backward(q)' /\ EndsAt(q)' /\ Counted(q)'
  BY <1>2, <1>3, <1>5, <1>7
     DEF PassedForward, Whole, Forward, Backward, EndsAt, Counted
<1>9. AtStatement(t, q, q[k])'
  BY <1>3, <1>6, <1>8 DEF AtStatement
<1> QED BY <1>1, <1>5, <1>6, <1>9, Stays

LEMMA StepRelinkPrev ==
  ASSUME ListInv, L!LockInv, NEW t \in Thread, RelinkPrev(t)
  PROVE  ListInv'
<1>1. /\ raced = "no" /\ at[t] = "in" /\ todo[t] = "relink-prev"
      /\ ListTypes /\ before \in Chain /\ AtStatement(t, before, node[t])
  BY Known DEF RelinkPrev
<1> PICK q \in Chain : q = before
  BY <1>1
<1>2. PICK k \in DOMAIN q :
        /\ node[t] = q[k] /\ Counted(q) /\ EndsAt(q)
        /\ PassedForward(q, k) /\ Backward(q)
  BY <1>1 DEF AtStatement
<1>3. PICK m \in Nat : Laid(q, m)
  BY Links
<1> USE DEF Laid
<1>4. k \in 1 .. m /\ k # k - 1
  BY <1>3
<1>5. /\ next[q[k]] = After(q, k)
      /\ \A i \in 1 .. m : prev[q[i]] = Ahead(q, i)
  BY <1>2, <1>3, <1>4 DEF PassedForward, Backward
<1>6. /\ UNCHANGED <<lock, at, raced, head, curr, next, len, allocated, node, before>>
      /\ prev' = IF next[q[k]] = NULL THEN prev ELSE [prev EXCEPT ![next[q[k]]] = prev[q[k]]]
      /\ todo' = [todo EXCEPT ![t] = "relink-ends"]
  BY <1>2 DEF RelinkPrev, Go, PrevWithout
<1>7. ListTypes' /\ todo'[t] = "relink-ends"
  BY <1>1, <1>3, <1>4, <1>6 DEF ListTypes, Statement
<1>8. ASSUME NEW i \in 1 .. m
      PROVE  prev'[q[i]] = Ahead(q, IF i = k + 1 THEN k ELSE i)
  <2>1. CASE k = m
    BY <1>3, <1>4, <1>5, <1>6, <2>1
  <2>2. CASE k # m
    <3>1. k + 1 \in 1 .. m
      BY <1>4, <2>2
    <3>2. next[q[k]] = q[k + 1] /\ q[k + 1] \in Node /\ q[k + 1] # NULL
      BY <1>3, <1>4, <1>5, <2>2, <3>1
    <3>3. prev' = [prev EXCEPT ![q[k + 1]] = Ahead(q, k)]
      BY <1>4, <1>5, <1>6, <3>2
    <3>4. CASE i = k + 1
      BY <1>1, <3>2, <3>3, <3>4 DEF ListTypes
    <3>5. CASE i # k + 1
      <4>1. q[i] # q[k + 1]
        BY <1>3, <3>1, <3>5
      <4> QED BY <1>1, <1>5, <3>3, <3>5, <4>1 DEF ListTypes
    <3> QED BY <3>4, <3>5
  <2> QED BY <2>1, <2>2
<1>9. PassedForward(q, k)' /\ PassedBackward(q, k)' /\ EndsAt(q)' /\ Counted(q)'
  BY <1>2, <1>3, <1>6, <1>8 DEF PassedForward, PassedBackward, EndsAt, Counted
<1>10. AtStatement(t, q, q[k])'
  BY <1>3, <1>4, <1>7, <1>9 DEF AtStatement
<1> QED BY <1>1, <1>2, <1>6, <1>7, <1>10, Stays

(* Where the node that is i-th once the k-th is out was before, and that     *)
(* the pointers destroy leaves are those of the chain without its k-th node. *)
Old(k, i) == IF i < k THEN i ELSE i + 1

Relinked(q, k, m, r) ==
  /\ DOMAIN r = 1 .. m - 1 /\ r \in Chain
  /\ \A i \in 1 .. m - 1 :
       Old(k, i) \in 1 .. m /\ Old(k, i) # k /\ r[i] = q[Old(k, i)]
  /\ First(r) = IF k = 1 THEN After(q, 1) ELSE First(q)
  /\ \A i \in 1 .. m - 1 :
       After(r, i) = After(q, IF Old(k, i) = k - 1 THEN k ELSE Old(k, i))
  /\ \A i \in 1 .. m - 1 :
       Ahead(r, i) = Ahead(q, IF Old(k, i) = k + 1 THEN k ELSE Old(k, i))
  /\ r # <<>> => r[Len(r)] = IF k = m THEN Ahead(q, k) ELSE q[m]

LEMMA RemovedLinks ==
  ASSUME NEW q \in Chain, NEW m \in Nat, m = Len(q), NEW k \in 1 .. m,
         NEW r, r = Abstract!RemoveAt(q, k)
  PROVE  Relinked(q, k, m, r)
<1> USE DEF Old
<1>1. /\ DOMAIN q = 1 .. m /\ (q = <<>> <=> m = 0)
      /\ First(q) = IF m = 0 THEN NULL ELSE q[1]
      /\ \A i \in 1 .. m : After(q, i) = IF i = m THEN NULL ELSE q[i + 1]
      /\ \A i \in 1 .. m : Ahead(q, i) = IF i = 1 THEN NULL ELSE q[i - 1]
  BY Links DEF Laid
<1>2. /\ r \in Chain /\ Len(r) = m - 1
      /\ \A i \in 1 .. m - 1 : r[i] = q[IF i < k THEN i ELSE i + 1]
  <2>1. k \in DOMAIN q
    BY <1>1
  <2> QED BY <2>1, Removed
<1>3. PICK l \in Nat : Laid(r, l)
  BY <1>2, Links
<1> USE DEF Laid
<1>4. l = m - 1
  BY <1>1, <1>2, <1>3
<1>5. \A i \in 1 .. l : Old(k, i) \in 1 .. m /\ Old(k, i) # k /\ r[i] = q[Old(k, i)]
  <2>1. \A i \in 1 .. l : Old(k, i) \in 1 .. m /\ Old(k, i) # k
    BY <1>4
  <2>2. \A i \in 1 .. l : r[i] = q[Old(k, i)]
    BY <1>2, <1>4
  <2> QED BY <2>1, <2>2
<1>6. First(r) = IF k = 1 THEN After(q, 1) ELSE First(q)
  <2>1. CASE l = 0
    <3>1. k = 1 /\ m = 1 /\ 1 \in 1 .. m
      BY <1>4, <2>1
    <3> QED BY <1>1, <1>3, <2>1, <3>1
  <2>2. CASE l # 0
    <3>1. 1 \in 1 .. l /\ 1 \in 1 .. m /\ 1 # m /\ m # 0
      BY <1>4, <2>2
    <3>2. r[1] = q[IF 1 < k THEN 1 ELSE 2]
      BY <1>5, <3>1
    <3>3. CASE k = 1
      <4>1. After(q, 1) = q[2]
        BY <1>1, <3>1
      <4> QED BY <1>3, <2>2, <3>2, <3>3, <4>1
    <3>4. CASE k # 1
      <4>1. 1 < k
        BY <1>4, <3>4
      <4> QED BY <1>1, <1>3, <2>2, <3>1, <3>2, <3>4, <4>1
    <3> QED BY <3>3, <3>4
  <2> QED BY <2>1, <2>2
<1>7. ASSUME NEW i \in 1 .. l
      PROVE  After(r, i) = After(q, IF Old(k, i) = k - 1 THEN k ELSE Old(k, i))
  <2>1. CASE i = l
    <3>1. (IF Old(k, i) = k - 1 THEN k ELSE Old(k, i)) = m
      BY <1>4, <2>1
    <3>2. m \in 1 .. m
      BY <1>4
    <3> QED BY <1>1, <1>3, <2>1, <3>1, <3>2
  <2>2. CASE i # l
    <3>1. i + 1 \in 1 .. l
      BY <2>2
    <3>2. After(r, i) = q[Old(k, i + 1)]
      BY <1>3, <1>5, <2>2, <3>1
    <3>3. PICK j \in 1 .. m - 1 :
            j = (IF Old(k, i) = k - 1 THEN k ELSE Old(k, i)) /\ j + 1 = Old(k, i + 1)
      <4>1. (IF Old(k, i) = k - 1 THEN k ELSE Old(k, i)) + 1 = Old(k, i + 1)
        BY <1>4
      <4>2. (IF Old(k, i) = k - 1 THEN k ELSE Old(k, i)) \in 1 .. m - 1
        BY <1>4, <2>2
      <4> QED BY <4>1, <4>2
    <3>4. j \in 1 .. m /\ j # m
      BY <1>4
    <3>5. After(q, j) = q[j + 1]
      BY <1>1, <3>4
    <3> QED BY <3>2, <3>3, <3>5
  <2> QED BY <2>1, <2>2
<1>8. ASSUME NEW i \in 1 .. l
      PROVE  Ahead(r, i) = Ahead(q, IF Old(k, i) = k + 1 THEN k ELSE Old(k, i))
  <2>1. CASE i = 1
    <3>1. (IF Old(k, i) = k + 1 THEN k ELSE Old(k, i)) = 1
      BY <1>4, <2>1
    <3>2. 1 \in 1 .. m
      BY <1>4
    <3> QED BY <1>1, <1>3, <2>1, <3>1, <3>2
  <2>2. CASE i # 1
    <3>1. i - 1 \in 1 .. l
      BY <2>2
    <3>2. Ahead(r, i) = q[Old(k, i - 1)]
      BY <1>3, <1>5, <2>2, <3>1
    <3>3. PICK j \in 2 .. m :
            j = (IF Old(k, i) = k + 1 THEN k ELSE Old(k, i)) /\ j - 1 = Old(k, i - 1)
      <4>1. (IF Old(k, i) = k + 1 THEN k ELSE Old(k, i)) - 1 = Old(k, i - 1)
        BY <1>4
      <4>2. (IF Old(k, i) = k + 1 THEN k ELSE Old(k, i)) \in 2 .. m
        BY <1>4, <2>2
      <4> QED BY <4>1, <4>2
    <3>4. j \in 1 .. m /\ j # 1
      OBVIOUS
    <3>5. Ahead(q, j) = q[j - 1]
      BY <1>1, <3>4
    <3> QED BY <3>2, <3>3, <3>5
  <2> QED BY <2>1, <2>2
<1>9. ASSUME r # <<>>
      PROVE  r[l] = IF k = m THEN Ahead(q, k) ELSE q[m]
  <2>1. l \in 1 .. l /\ l + 1 = m
    BY <1>3, <1>4, <1>9
  <2>2. r[l] = q[Old(k, l)] /\ Old(k, l) = IF k = m THEN k - 1 ELSE m
    BY <1>4, <1>5, <2>1
  <2>3. k = m => Ahead(q, k) = q[k - 1]
    BY <1>1, <1>4, <2>1
  <2> QED BY <2>2, <2>3
<1> QED BY <1>1, <1>2, <1>3, <1>4, <1>5, <1>6, <1>7, <1>8, <1>9 DEF Relinked

LEMMA StepRelinkEnds ==
  ASSUME ListInv, L!LockInv, NEW t \in Thread, RelinkEnds(t)
  PROVE  ListInv'
<1>1. /\ raced = "no" /\ at[t] = "in" /\ todo[t] = "relink-ends"
      /\ ListTypes /\ before \in Chain /\ AtStatement(t, before, node[t])
  BY Known DEF RelinkEnds
<1> PICK q \in Chain : q = before
  BY <1>1
<1>2. PICK m \in Nat : Laid(q, m)
  BY Links
<1> USE DEF Laid
<1>3. PICK k \in 1 .. m :
        /\ node[t] = q[k] /\ Counted(q) /\ EndsAt(q)
        /\ PassedForward(q, k) /\ PassedBackward(q, k)
  BY <1>1, <1>2 DEF AtStatement
<1> PICK r : r = Abstract!RemoveAt(q, k)
  OBVIOUS
<1>4. Relinked(q, k, m, r)
  BY <1>2, RemovedLinks
<1> USE DEF Relinked
<1>5. /\ head = First(q) /\ (q # <<>> => curr = q[m])
      /\ \A i \in 1 .. m : next[q[i]] = After(q, IF i = k - 1 THEN k ELSE i)
      /\ \A i \in 1 .. m : prev[q[i]] = Ahead(q, IF i = k + 1 THEN k ELSE i)
  BY <1>3, <1>2 DEF PassedForward, PassedBackward, EndsAt
<1>6. k # k - 1 /\ k # k + 1 /\ m # 0 /\ 1 \in 1 .. m /\ m \in 1 .. m
  BY <1>4
<1>7. next[q[k]] = After(q, k) /\ prev[q[k]] = Ahead(q, k)
  BY <1>4, <1>5, <1>6
<1>8. /\ UNCHANGED <<lock, at, raced, next, prev, len, allocated, node, before>>
      /\ head' = IF head = q[k] THEN next[q[k]] ELSE head
      /\ curr' = IF curr = q[k] THEN prev[q[k]] ELSE curr
      /\ todo' = [todo EXCEPT ![t] = "free"]
  BY <1>3 DEF RelinkEnds, Go, HeadWithout, CurrWithout
<1>9. ListTypes' /\ todo'[t] = "free"
  BY <1>1, <1>2, <1>4, <1>8 DEF ListTypes, Statement
<1>10. head' = First(r)
  <2>1. head = q[k] <=> k = 1
    BY <1>2, <1>4, <1>5, <1>6
  <2> QED BY <1>4, <1>5, <1>7, <1>8, <2>1
<1>11. r # <<>> => curr' = r[Len(r)]
  <2>1. curr = q[k] <=> k = m
    BY <1>2, <1>4, <1>5, <1>6
  <2> QED BY <1>2, <1>4, <1>5, <1>6, <1>7, <1>8, <2>1
<1>12. Forward(r)'
  <2>1. \A i \in 1 .. m - 1 : next'[r[i]] = After(r, i)
    BY <1>4, <1>5, <1>8
  <2> QED BY <1>4, <1>10, <2>1 DEF Forward
<1>13. Backward(r)'
  <2>1. \A i \in 1 .. m - 1 : prev'[r[i]] = Ahead(r, i)
    BY <1>4, <1>5, <1>8
  <2> QED BY <1>4, <2>1 DEF Backward
<1>14. EndsAt(r)' /\ Counted(q)'
  BY <1>3, <1>8, <1>11 DEF EndsAt, Counted
<1>15. AtStatement(t, q, q[k])'
  <2>1. k \in DOMAIN q
    BY <1>2
  <2> QED BY <1>3, <1>9, <1>12, <1>13, <1>14, <2>1 DEF AtStatement
<1> QED BY <1>1, <1>3, <1>8, <1>9, <1>15, Stays

LEMMA StepFree ==
  ASSUME ListInv, L!LockInv, NEW t \in Thread, Free(t)
  PROVE  ListInv'
<1>1. /\ raced = "no" /\ at[t] = "in" /\ todo[t] = "free"
      /\ ListTypes /\ before \in Chain /\ AtStatement(t, before, node[t])
  BY Known DEF Free
<1> PICK q \in Chain : q = before
  BY <1>1
<1>2. PICK k \in DOMAIN q :
        LET r == Abstract!RemoveAt(q, k)
        IN  node[t] = q[k] /\ Counted(q) /\ Forward(r) /\ Backward(r) /\ EndsAt(r)
  BY <1>1 DEF AtStatement
<1> DEFINE r == Abstract!RemoveAt(q, k)
<1>3. /\ r \in Chain /\ Len(r) = Len(q) - 1
      /\ Abstract!ToSet(r) = Abstract!ToSet(q) \ {q[k]}
  BY Removed
<1>4. OneStep(q, r)
  BY DEF OneStep
<1>5. Forward(r) /\ Backward(r) /\ EndsAt(r)
  BY <1>2
<1> HIDE DEF r
<1>6. /\ UNCHANGED <<lock, at, raced, head, curr, next, prev, node, before>>
      /\ allocated' = allocated \ {q[k]} /\ len' = len - 1
      /\ todo' = [todo EXCEPT ![t] = "done"]
  BY <1>2 DEF Free, Go
<1>7. ListTypes' /\ todo'[t] = "done"
  BY <1>1, <1>6 DEF ListTypes, Statement
<1>8. Forward(r)' /\ Backward(r)' /\ EndsAt(r)'
  BY <1>5, <1>6 DEF Forward, Backward, EndsAt
<1>9. Counted(r)'
  BY <1>2, <1>3, <1>6 DEF Counted
<1>10. Whole(r)'
  BY <1>3, <1>8, <1>9 DEF Whole
<1>11. AtStatement(t, q, q[k])'
  BY <1>3, <1>4, <1>7, <1>10, Finished
<1> QED BY <1>1, <1>2, <1>6, <1>7, <1>11, Stays

LEMMA StepClear ==
  ASSUME ListInv, L!LockInv, NEW t \in Thread, Clear(t)
  PROVE  ListInv'
<1>1. /\ raced = "no" /\ at[t] = "in" /\ todo[t] = "clear"
      /\ ListTypes /\ before \in Chain /\ AtStatement(t, before, node[t])
  BY Known DEF Clear
<1> PICK q \in Chain : q = before
  BY <1>1
<1> PICK n : n = node[t]
  OBVIOUS
<1>2. Whole(q)
  BY <1>1 DEF AtStatement
<1>3. Path = q
  BY <1>2, PathIsNow DEF Whole
<1>4. Reached = allocated
  BY <1>2, <1>3 DEF Reached, Whole, Counted, Abstract!ToSet
<1> DEFINE e == <<>>
<1>5. e \in Chain /\ Len(e) = 0 /\ DOMAIN e = {}
  BY EmptySeq DEF Chain
<1>6. OneStep(q, e)
  BY DEF OneStep
<1>7. /\ UNCHANGED <<lock, at, raced, curr, next, prev, node, before>>
      /\ allocated' = {} /\ head' = NULL /\ len' = 0
      /\ todo' = [todo EXCEPT ![t] = "done"]
  BY <1>4 DEF Clear, LenCleared, Go
<1>8. ListTypes' /\ todo'[t] = "done"
  BY <1>1, <1>7 DEF ListTypes, Statement
<1>9. Whole(e)'
  BY <1>5, <1>7
     DEF Whole, Forward, Backward, EndsAt, Counted, First, Abstract!ToSet
<1>10. AtStatement(t, q, n)'
  BY <1>5, <1>6, <1>8, <1>9, Finished
<1> QED BY <1>1, <1>7, <1>8, <1>10, Stays

LEMMA StepEnter ==
  ASSUME ListInv, L!LockInv, NEW t \in Thread, Enter(t)
  PROVE  ListInv'
<1> SUFFICES ASSUME raced' = "no" PROVE ListInv'
  BY DEF ListInv
<1>1. /\ raced = "no" /\ UNCHANGED <<raced, pointers>> /\ at[t] = "enter"
      /\ at' = [at EXCEPT ![t] = "in"]
  BY DEF Enter, L!Lock
<1>2. \A u \in Thread : at[u] # "in" /\ (at'[u] = "in" => u = t)
  BY <1>1 DEF L!LockInv, L!TypeOK, L!OneAtATime
<1>3. ListTypes /\ Whole(Path)
  BY <1>1, <1>2 DEF ListInv
<1> PICK q \in Chain : q = Path
  BY <1>3 DEF Whole
<1>4. /\ before' = q
      /\ \/ \E n \in Node \ allocated : Go(t, "create") /\ node' = [node EXCEPT ![t] = n]
         \/ \E n \in Reached : Go(t, "relink-next") /\ node' = [node EXCEPT ![t] = n]
         \/ Go(t, "clear") /\ UNCHANGED node
         \/ Go(t, "done") /\ UNCHANGED node
  BY <1>1 DEF Enter
<1>5. Path' = q /\ Whole(q)'
  BY <1>1, <1>3, Unchanged
<1>6. Reached = Abstract!ToSet(q) /\ Reached \subseteq Node
  <2>1. Reached = Abstract!ToSet(q)
    BY DEF Reached, Abstract!ToSet
  <2> QED BY <2>1, ChainCounts DEF Abstract!ToSet
<1>7. ListTypes'
  BY <1>1, <1>3, <1>4, <1>6 DEF ListTypes, Statement, Go, pointers
<1>8. OneStep(q, q)
  BY DEF OneStep
<1> PICK n : n = node'[t]
  OBVIOUS
<1>9. \/ todo'[t] = "create" /\ n \in Node \ allocated'
      \/ todo'[t] = "relink-next" /\ n \in Abstract!ToSet(q)
      \/ todo'[t] = "clear" \/ todo'[t] = "done"
  BY <1>1, <1>3, <1>4, <1>6 DEF ListTypes, Go, pointers
<1>10. AtStatement(t, q, n)'
  BY <1>5, <1>8, <1>9 DEF AtStatement
<1> QED BY <1>2, <1>4, <1>5, <1>7, <1>10, <1>1 DEF ListInv

LEMMA StepLeave ==
  ASSUME ListInv, L!LockInv, NEW t \in Thread, Leave(t)
  PROVE  ListInv'
<1> SUFFICES ASSUME raced' = "no" PROVE ListInv'
  BY DEF ListInv
<1>1. /\ raced = "no" /\ UNCHANGED <<raced, pointers, before>> /\ at[t] = "in"
      /\ at' = [at EXCEPT ![t] = "out"] /\ todo[t] = "done"
      /\ node' = [node EXCEPT ![t] = NULL] /\ todo' = [todo EXCEPT ![t] = "done"]
  BY DEF Leave, L!Unlock, Go
<1>2. \A u \in Thread : at'[u] # "in"
  BY <1>1 DEF L!LockInv, L!TypeOK, L!OneAtATime
<1>3. ListTypes /\ Whole(Path)
  BY <1>1 DEF ListInv, AtStatement
<1>4. Whole(Path)'
  <2> PICK q : q = Path
    OBVIOUS
  <2>1. Path' = q /\ Whole(q)'
    BY <1>1, <1>3, Unchanged
  <2> QED BY <2>1 DEF Whole, Forward, Backward, EndsAt, Counted
<1>5. ListTypes'
  BY <1>1, <1>3 DEF ListTypes, Statement, pointers
<1> QED BY <1>2, <1>4, <1>5 DEF ListInv

(* and so does what is known inside.                                       *)
LEMMA Same ==
  ASSUME UNCHANGED <<pointers, calls>>
  PROVE  /\ ListTypes' = ListTypes /\ before' = before /\ Whole(Path)' = Whole(Path)
         /\ \A t : AtStatement(t, before, node[t])' = AtStatement(t, before, node[t])
<1>1. /\ UNCHANGED <<head, curr, next, prev, len, allocated>>
      /\ UNCHANGED <<todo, node, before>>
  BY DEF pointers, calls
<1>2. Path' = Path
  BY Unchanged
<1> QED BY <1>1, <1>2
        DEF ListTypes, Whole, Forward, Backward, EndsAt, Counted, AtStatement,
            Adding, PassedForward, PassedBackward

LEMMA StepList == ListInv /\ L!LockInv /\ L!LockInv' /\ [Next]_vars => ListInv'
<1> SUFFICES ASSUME ListInv, L!LockInv, [Next]_vars
             PROVE  ListInv'
  OBVIOUS
<1>1. ASSUME NEW t \in Thread, L!Call(t) \/ L!SeeFree(t), UNCHANGED <<pointers, calls>>
      PROVE  ListInv'
  <2> SUFFICES ASSUME raced' = "no" PROVE ListInv'
    BY DEF ListInv
  <2>1. raced = "no"
    BY <1>1 DEF L!Call, L!SeeFree, L!LockInv, L!TypeOK
  <2>2. \A u \in Thread : at'[u] = "in" <=> at[u] = "in"
    BY <1>1 DEF L!Call, L!SeeFree, L!LockInv, L!TypeOK
  <2> QED BY <1>1, <2>1, <2>2, Same DEF ListInv
<1>2. CASE UNCHANGED vars
  <2>1. UNCHANGED <<pointers, calls, at, raced>>
    BY <1>2 DEF vars
  <2> QED BY <2>1, Same DEF ListInv
<1> QED BY <1>1, <1>2, StepEnter, StepLeave, StepCreate, StepLinkFirst, StepLinkLast,
           StepLast, StepRelinkNext, StepRelinkPrev, StepRelinkEnds, StepFree, StepClear
        DEF Next, Step

(* The pointers of a list are those of a chain of its nodes, and between     *)
(* the statements of a call those of one being cut and tied, for any threads *)
(* and nodes, until two threads have raced for the lock.                    *)
THEOREM ListSafe == Spec => []ListInv
<1>1. Spec => []L!LockInv
  BY ImplementsLock, LockSafe, PTL
<1> QED BY <1>1, InitList, StepList, PTL DEF Spec

(* Every node allocated is met from head on and back from curr, and _len is  *)
(* their number, whatever was created and destroyed in whatever order.      *)
THEOREM AlwaysWellFormed == Spec => []WellFormed
<1>1. ListInv => WellFormed
  <2> SUFFICES ASSUME ListInv, raced = "no", \A t \in Thread : at[t] # "in"
               PROVE  AllReached /\ BothWays
    BY DEF WellFormed
  <2>1. Whole(Path)
    BY DEF ListInv
  <2> PICK q \in Chain : q = Path
    BY <2>1 DEF Whole
  <2>2. /\ DOMAIN q = 1 .. Len(q) /\ (q = <<>> <=> Len(q) = 0)
        /\ First(q) = IF Len(q) = 0 THEN NULL ELSE q[1]
    BY Links DEF Laid
  <2>3. Reached = Abstract!ToSet(q) /\ Cardinality(Abstract!ToSet(q)) = Len(q)
    BY ChainCounts DEF Reached, Abstract!ToSet
  <2>4. AllReached
    BY <2>1, <2>3 DEF AllReached, Whole, Counted
  <2>5. head # NULL => curr = q[Len(q)]
    BY <2>1, <2>2 DEF Whole, Forward, EndsAt
  <2>6. \A i \in DOMAIN q : prev[q[i]] = IF i = 1 THEN NULL ELSE q[i - 1]
    BY <2>1 DEF Whole, Backward, Ahead
  <2> QED BY <2>4, <2>5, <2>6 DEF BothWays
<1> QED BY <1>1, ListSafe, PTL

(* A step of the pointers, as the sequence sees it.                        *)
LEMMA StepIsOneStep ==
  ASSUME ListInv, L!LockInv, ListInv', L!LockInv', [Next]_vars, raced' = "no"
  PROVE  Abstract!Next \/ UNCHANGED Seen
<1>1. raced = "no"
  <2>1. CASE UNCHANGED vars
    BY <2>1 DEF vars
  <2>2. CASE Next
    <3>1. [L!Next]_L!vars
      BY StepIsLockStep
    <3> QED BY <3>1 DEF L!Next, L!Step, L!Call, L!SeeFree, L!Lock, L!Unlock, L!vars,
                        L!LockInv, L!TypeOK
  <2> QED BY <2>1, <2>2
<1>2. ASSUME UNCHANGED before, \E t \in Thread : at[t] = "in", \E t \in Thread : at'[t] = "in"
      PROVE  UNCHANGED Seen
  BY <1>2 DEF Seen
<1>3. ASSUME UNCHANGED <<pointers, before>>,
             \A t \in Thread : at'[t] = "in" <=> at[t] = "in"
      PROVE  UNCHANGED Seen
  BY <1>3, Unchanged DEF Seen
<1>4. ASSUME NEW t \in Thread, Enter(t)
      PROVE  UNCHANGED Seen
  <2>1. \A u \in Thread : at[u] # "in"
    BY <1>1, <1>4 DEF Enter, L!Lock, L!LockInv, L!TypeOK, L!OneAtATime
  <2>2. at'[t] = "in" /\ before' = Path
    BY <1>1, <1>4 DEF Enter, L!Lock, L!LockInv, L!TypeOK
  <2> QED BY <2>1, <2>2 DEF Seen
<1>5. ASSUME NEW t \in Thread, Leave(t)
      PROVE  Abstract!Next \/ UNCHANGED Seen
  <2>1. at[t] = "in" /\ todo[t] = "done" /\ UNCHANGED pointers
    BY <1>1, <1>5 DEF Leave, L!Unlock
  <2>2. \A u \in Thread : at'[u] # "in"
    BY <1>1, <1>5 DEF Leave, L!Unlock, L!LockInv, L!TypeOK, L!OneAtATime
  <2>3. Seen = before /\ Seen' = Path
    <3>1. Path' = Path
      BY <2>1, Unchanged
    <3> QED BY <2>1, <2>2, <3>1 DEF Seen
  <2>4. OneStep(before, Path)
    BY <1>1, <2>1 DEF ListInv, AtStatement
  <2>5. \/ Seen' = Seen \/ Seen' = <<>>
        \/ \E n \in Node : n \notin Abstract!ToSet(Seen) /\ Seen' = Append(Seen, n)
        \/ \E i \in DOMAIN Seen : Seen' = Abstract!RemoveAt(Seen, i)
    BY <2>3, <2>4 DEF OneStep
  <2>6. \A i \in DOMAIN Seen : Seen[i] \in Node
    BY <1>1, <2>1, <2>3, ChainCounts DEF ListInv
  <2> QED BY <2>5, <2>6
          DEF Abstract!Next, Abstract!Clear, Abstract!Create, Abstract!Destroy
<1>6. ASSUME NEW t \in Thread,
             \/ Create(t) \/ LinkFirst(t) \/ LinkLast(t) \/ Last(t)
             \/ RelinkNext(t) \/ RelinkPrev(t) \/ RelinkEnds(t) \/ Free(t)
             \/ Clear(t)
      PROVE  UNCHANGED Seen
  <2>1. at[t] = "in" /\ UNCHANGED <<at, before>>
    BY <1>6 DEF Create, LinkFirst, LinkLast, Last, RelinkNext, RelinkPrev,
                RelinkEnds, Free, Clear, Inside
  <2> QED BY <1>2, <2>1
<1>7. ASSUME NEW t \in Thread, L!Call(t) \/ L!SeeFree(t), UNCHANGED <<pointers, calls>>
      PROVE  UNCHANGED Seen
  BY <1>3, <1>7 DEF L!Call, L!SeeFree, L!LockInv, L!TypeOK, calls
<1>8. CASE UNCHANGED vars
  BY <1>3, <1>8 DEF vars, calls
<1> QED BY <1>4, <1>5, <1>6, <1>7, <1>8 DEF Next, Step

(* Each call of create, destroy or clear is one step of the sequence NodeSeq *)
(* promises to Game, or none, taken when the lock is given back.            *)
THEOREM CallsAreSteps == Spec => EachCallIsOneStep
<1>1. Spec => []L!LockInv
  BY ImplementsLock, LockSafe, PTL
<1>2. Init => Abstract!Init
  <2> SUFFICES ASSUME Init PROVE Seen = <<>>
    BY DEF Abstract!Init
  <2>1. \A t \in Thread : at[t] # "in"
    BY DEF Init, L!Init
  <2>2. <<>> \in Chain /\ Forward(<<>>)
    BY EmptySeq DEF Init, Chain, Forward, First
  <2> QED BY <2>1, <2>2, PathIsNow DEF Seen
<1>3. /\ ListInv /\ L!LockInv /\ ListInv' /\ L!LockInv' /\ [Next]_vars
      => [raced' = "no" => Abstract!Next \/ UNCHANGED Seen]_vars
  BY StepIsOneStep
<1> QED BY <1>1, <1>2, <1>3, ListSafe, PTL DEF Spec, EachCallIsOneStep
=============================================================================
