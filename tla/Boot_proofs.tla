----------------------------- MODULE Boot_proofs -----------------------------
(***************************************************************************)
(* What main reads at its start, for texts of any length: the trials of      *)
(* Explode and Task, fish.conf, and the levels of the settings; and then the  *)
(* messages that change the settings, from the frame to setSetting.         *)
(***************************************************************************)
EXTENDS Boot, Settings, FiniteSetTheorems, SequenceTheorems, WellFoundedInduction, TLAPS

Char == STRING \ {NUL}
Text == Seq(Char)

LEMMA Least ==
  ASSUME NEW T \in SUBSET Nat, T # {}
  PROVE  \E m \in T : \A n \in T : m <= n
<1> DEFINE Below(n) == 0 .. n - 1
           Belows == {Below(n) : n \in T}
           R == StrictSubsetOrdering(Nat)
<1>1. Belows \subseteq FiniteSubsetsOf(Nat) /\ Belows # {}
  <2>1. \A n \in T : IsFiniteSet(Below(n)) /\ Below(n) \subseteq Nat
    BY FS_Interval
  <2> QED BY <2>1 DEF FiniteSubsetsOf
<1>2. PICK B \in Belows : \A C \in Belows : <<C, B>> \notin R
  <2> HIDE DEF R, Belows
  <2> QED BY <1>1, FS_StrictSubsetOrderingWellFounded, WFMin DEF R
<1>3. PICK m \in T : B = Below(m)
  OBVIOUS
<1>4. ASSUME NEW n \in T, n < m PROVE FALSE
  <2>1. Below(n) \subseteq Below(m) /\ n \in Below(m) /\ n \notin Below(n)
    BY <1>4
  <2>2. Below(n) \in SUBSET Nat /\ Below(m) \in SUBSET Nat /\ Below(n) # Below(m)
    BY <2>1
  <2>3. <<Below(n), Below(m)>> \in R
    <3> HIDE DEF Below
    <3> QED BY <2>1, <2>2 DEF StrictSubsetOrdering
  <2> QED BY <1>2, <1>3, <2>3
<1> QED BY <1>4

(* What holds of 0, and of a number's successor with it, holds of all.      *)
LEMMA Induction ==
  ASSUME NEW T, 0 \in T, \A k \in Nat : k \in T => k + 1 \in T
  PROVE  Nat \subseteq T
<1> SUFFICES ASSUME Nat \ T # {}
             PROVE  FALSE
  OBVIOUS
<1>1. PICK m \in Nat \ T : \A n \in Nat \ T : m <= n
  BY Least
<1>2. m - 1 \in Nat /\ m - 1 \in T
  BY <1>1
<1> QED BY <1>1, <1>2

----------------------------------------------------------------------------
(* Tasks.                                                                  *)

(* Between loading and asking nothing but the end of a task can have come.   *)
LEMMA TryTasksExact == TryTasks => TasksReturn'
<1> SUFFICES ASSUME NEW rows \in TaskTables, NEW user \in Users, NEW deed \in Deeds,
                    NEW first \in Moments, NEW later \in Moments, NEW failed \in SUBSET rows,
                    first <= later,
                    trial' = [kind |-> "tasks", first |-> first, later |-> later,
                              loaded |-> Load(rows, failed, first),
                              outcome |-> Complete(Load(rows, failed, first), later, user, deed),
                              corrupt |-> \E row \in Load(rows, failed, first) : Corrupts(row)],
                    ~trial'.corrupt
             PROVE  TasksReturn'
  BY DEF TryTasks, Tried, TasksReturn
<1> DEFINE loaded == Load(rows, failed, first)
           outcome == Complete(loaded, later, user, deed)
<1>1. /\ trial'.first = first /\ trial'.later = later /\ trial'.loaded = loaded
      /\ trial'.outcome = outcome /\ trial'.kind = "tasks"
      /\ \A row \in loaded : ~Corrupts(row)
  OBVIOUS
<1>2. /\ first \in Nat /\ later \in Nat
      /\ \A row \in loaded : /\ row \in Task /\ InTime(row, first) /\ Lists(row)
                             /\ row.from \in Nat /\ row.till \in Nat
  BY BootAssumption DEF Load, Task
<1>3. outcome.returns \/ \E row \in loaded : row.till = 0 \/ (row.till >= first /\ row.till < later)
  <2> SUFFICES ASSUME ~outcome.returns
               PROVE  \E row \in loaded : row.till = 0 \/ (row.till >= first /\ row.till < later)
    OBVIOUS
  <2>1. PICK row \in loaded : ~Valid(row, later)
    BY DEF Complete
  <2>2. row.till = 0 \/ (row.till >= first /\ row.till < later)
    <3> HIDE DEF loaded
    <3> QED BY <1>2, <2>1 DEF Valid, InTime
  <2> QED BY <2>1, <2>2
<1>4. \A row \in loaded : row.conditions # <<>>
  <2> HIDE DEF loaded
  <2> QED BY <1>1, <1>2 DEF Lists, Corrupts
<1>5. \A task \in outcome.done : \A c, d \in Range(task.conditions) :
        c.type = d.type /\ c.param2 = d.param2
  <2> SUFFICES ASSUME NEW task \in outcome.done, NEW c \in Range(task.conditions),
                      NEW d \in Range(task.conditions)
               PROVE  c.type = d.type /\ c.param2 = d.param2
    OBVIOUS
  <2>1. task \in loaded /\ Completed(user, task, deed)
    BY DEF Complete
  <2>2. Met(c, deed) /\ Met(d, deed)
    <3> HIDE DEF loaded, outcome
    <3> QED BY <1>4, <2>1 DEF Completed
  <2> QED BY <2>2 DEF Met
<1> QED BY <1>1, <1>3, <1>4, <1>5 DEF TasksReturn

----------------------------------------------------------------------------
(* The least and the greatest of some numbers.                             *)

LEMMA MinIs ==
  ASSUME NEW T \in SUBSET Nat, T # {}
  PROVE  Min(T) \in T /\ \A n \in T : Min(T) <= n
<1>1. \E x \in T : \A y \in T : x <= y
  BY Least
<1> QED BY <1>1 DEF Min

LEMMA MaxIs ==
  ASSUME NEW k \in Nat, NEW T \in SUBSET (0 .. k), T # {}
  PROVE  Max(T) \in T /\ \A n \in T : n <= Max(T)
<1> DEFINE U == {k - n : n \in T}
<1>1. U \in SUBSET Nat /\ U # {}
  <2>1. \A n \in T : k - n \in Nat
    OBVIOUS
  <2> QED BY <2>1
<1>2. PICK m \in U : \A n \in U : m <= n
  <2> HIDE DEF U
  <2> QED BY <1>1, Least
<1>3. PICK x \in T : m = k - x
  OBVIOUS
<1>4. \A y \in T : x >= y
  <2> TAKE y \in T
  <2>1. k - y \in U
    OBVIOUS
  <2> QED BY <1>2, <1>3, <2>1
<1>5. \E z \in T : \A y \in T : z >= y
  BY <1>4
<1> QED BY <1>5 DEF Max

----------------------------------------------------------------------------
(* Explode: where the delimiter is.                                        *)

LEMMA MatchedIs ==
  ASSUME NEW t \in Text, NEW d \in Text, NEW p \in 1 .. Len(t)
  PROVE  /\ Matched(d, t, p) \in 0 .. Len(d)
         /\ \A i \in 1 .. Matched(d, t, p) : p + i - 1 \in 1 .. Len(t) /\ t[p + i - 1] = d[i]
         /\ \A n \in 0 .. Len(d) :
              (\A i \in 1 .. n : At(t, p + i - 1) = d[i]) => n <= Matched(d, t, p)
<1> DEFINE T == {n \in 0 .. Len(d) : \A i \in 1 .. n : At(t, p + i - 1) = d[i]}
           m == Matched(d, t, p)
<1>1. Len(d) \in Nat /\ T \subseteq 0 .. Len(d) /\ T # {}
  <2>1. Len(d) \in Nat
    BY DEF Text
  <2>2. 0 \in 0 .. Len(d) /\ \A i \in 1 .. 0 : At(t, p + i - 1) = d[i]
    BY <2>1
  <2>3. 0 \in T
    BY <2>2
  <2> QED BY <2>1, <2>3
<1>2. m \in T /\ \A n \in T : n <= m
  <2>1. m = Max(T)
    BY DEF Matched
  <2> HIDE DEF T, m
  <2> QED BY <1>1, <2>1, MaxIs
<1>3. ASSUME NEW i \in 1 .. m
      PROVE  p + i - 1 \in 1 .. Len(t) /\ t[p + i - 1] = d[i]
  <2>1. m \in 0 .. Len(d) /\ At(t, p + i - 1) = d[i]
    BY <1>2
  <2>2. d[i] # NUL
    <3>1. i \in 1 .. Len(d)
      BY <2>1
    <3> QED BY <3>1 DEF Text, Char
  <2> HIDE DEF m
  <2> QED BY <2>1, <2>2 DEF At, Text
<1> QED BY <1>2, <1>3

(* The delimiter is at p.                                                  *)
Here(d, t, p) == \A i \in 1 .. Len(d) : p + i - 1 \in 1 .. Len(t) /\ t[p + i - 1] = d[i]

LEMMA MatchesIs ==
  ASSUME NEW t \in Text, NEW d \in Text, NEW p \in 1 .. Len(t)
  PROVE  Matches(d, t, p) <=> Here(d, t, p)
<1> DEFINE m == Matched(d, t, p)
<1>1. Len(d) \in Nat
  BY DEF Text
<1>2. ASSUME m = Len(d) PROVE Here(d, t, p)
  BY <1>2, MatchedIs DEF Here
<1>3. ASSUME Here(d, t, p) PROVE m = Len(d)
  <2>1. \A i \in 1 .. Len(d) : At(t, p + i - 1) = d[i]
    BY <1>3 DEF Here, At, Text
  <2>2. m \in 0 .. Len(d) /\ \A n \in 0 .. Len(d) :
                              (\A i \in 1 .. n : At(t, p + i - 1) = d[i]) => n <= m
    BY MatchedIs
  <2>3. Len(d) \in 0 .. Len(d)
    BY <1>1
  <2> HIDE DEF m
  <2>4. Len(d) <= m
    BY <2>1, <2>2, <2>3
  <2> QED BY <1>1, <2>2, <2>4
<1> QED BY <1>2, <1>3 DEF Matches

LEMMA FitsIs ==
  ASSUME NEW t \in Text, NEW d \in Text, NEW p \in 1 .. Len(t)
  PROVE  Fits(d, t, p) <=> Here(d, t, p)
<1> DEFINE u == SubSeq(t, p, Len(t))
           v == SubSeq(u, 1, Len(d))
           w == SubSeq(d, 1, Len(d))
<1>1. Len(d) \in Nat /\ Len(t) \in Nat /\ \A i \in 1 .. Len(t) : t[i] \in Char
  BY DEF Text
<1>2. Between(t, p, Len(t) + 1) = u
  BY <1>1 DEF Between
<1>3. u \in Text /\ Len(u) = Len(t) - p + 1 /\ \A i \in 1 .. Len(t) - p + 1 : u[i] = t[p + i - 1]
  BY <1>1, SubSeqProperties DEF Text
<1>4. w = d
  BY <1>1 DEF Text
<1> HIDE DEF u
<1>5. Fits(d, t, p) <=> Len(d) <= Len(u) /\ w = v
  BY <1>2 DEF Fits, IsPrefix
<1>6. CASE Len(d) <= Len(u)
  <2>1. /\ v \in Text /\ Len(v) = Len(d) /\ \A i \in 1 .. Len(d) : v[i] = u[i]
    <3>1. \A i \in 1 .. Len(d) : u[i] \in Char
      BY <1>1, <1>3, <1>6 DEF Text
    <3> QED BY <1>1, <3>1, SubSeqProperties DEF Text
  <2> HIDE DEF v, w
  <2>2. v = d <=> \A i \in 1 .. Len(d) : v[i] = d[i]
    BY <2>1, SeqEqual DEF Text
  <2>3. \A i \in 1 .. Len(d) : p + i - 1 \in 1 .. Len(t) /\ v[i] = t[p + i - 1]
    BY <1>1, <1>3, <1>6, <2>1
  <2> QED BY <1>4, <1>5, <1>6, <2>2, <2>3 DEF Here
<1>7. CASE ~(Len(d) <= Len(u))
  <2>1. Len(d) \in 1 .. Len(d) /\ p + Len(d) - 1 \notin 1 .. Len(t)
    BY <1>1, <1>3, <1>7
  <2> QED BY <1>5, <1>7, <2>1 DEF Here
<1> QED BY <1>6, <1>7

(* Where the search goes on, and that it goes on.                          *)
LEMMA GoesOn ==
  ASSUME NEW t \in Text, NEW d \in Text, d # None, NEW p \in 1 .. Len(t)
  PROVE  /\ Len(t) \in Nat /\ Len(d) \in Nat /\ Len(d) >= 1
         /\ Matches(d, t, p) => p + Len(d) \in p + 1 .. Len(t) + 1
         /\ p + Matched(d, t, p) + 1 \in p + 1 .. Len(t) + 2
<1> DEFINE m == Matched(d, t, p)
<1>1. Len(d) \in Nat /\ Len(t) \in Nat /\ Len(d) # 0
  BY EmptySeq DEF Text, None
<1>2. m \in 0 .. Len(d) /\ \A i \in 1 .. m : p + i - 1 \in 1 .. Len(t)
  BY MatchedIs
<1> HIDE DEF m
<1>3. m = 0 \/ p + m - 1 \in 1 .. Len(t)
  <2>1. m = 0 \/ m \in 1 .. m
    BY <1>1, <1>2
  <2> QED BY <1>2, <2>1
<1>4. p + m + 1 \in p + 1 .. Len(t) + 2
  BY <1>1, <1>2, <1>3
<1>5. m = Len(d) => p + Len(d) \in p + 1 .. Len(t) + 1
  BY <1>1, <1>2, <1>3
<1> QED BY <1>1, <1>4, <1>5 DEF m, Matches

(* Reading and Cuts are functions as their definitions say: what they are at  *)
(* a place rests on places behind it only.                                 *)
ReadStep(d, t, f) ==
  [p \in 1 .. Len(t) + 2 |->
     [start \in 1 .. Len(t) + 1 |->
        CASE p > Len(t) + 1 -> [fields |-> <<>>, past |-> TRUE]
          [] p = Len(t) + 1 -> [fields |-> <<Between(t, start, p)>>, past |-> FALSE]
          [] p <= Len(t) /\ Matches(d, t, p) ->
               LET rest == f[p + Len(d)][p + Len(d)]
               IN  [fields |-> <<Between(t, start, FieldEnd(d, p))>> \o rest.fields,
                    past |-> rest.past]
          [] OTHER -> f[p + Matched(d, t, p) + 1][start]]]

CutStep(d, t, f) ==
  [p \in 1 .. Len(t) + 1 |->
     [start \in 1 .. Len(t) + 1 |->
        CASE p > Len(t) -> <<Between(t, start, p)>>
          [] p <= Len(t) /\ Fits(d, t, p) ->
               <<Between(t, start, p)>> \o f[p + Len(d)][p + Len(d)]
          [] OTHER -> f[p + 1][start]]]

(* One more field in front.                                                *)
Put(field, rest) == [fields |-> <<field>> \o rest.fields, past |-> rest.past]

LEMMA ReadingIs ==
  ASSUME NEW t \in Text, NEW d \in Text, d # None
  PROVE  Reading(d, t) = ReadStep(d, t, Reading(d, t))
<1> DEFINE D == 1 .. Len(t) + 2
           Next1(f) == ReadStep(d, t, f)
           Holds(f, k) == /\ f = [p \in D |-> f[p]]
                          /\ \A p \in D : p > Len(t) + 2 - k => f[p] = Next1(f)[p]
           T == {k \in Nat : \E f : Holds(f, k)}
<1>1. Len(t) \in Nat /\ \A f : Next1(f) = [p \in D |-> Next1(f)[p]]
  BY DEF ReadStep, Text
<1>2. ASSUME NEW f, NEW g, NEW p \in D, \A q \in D : q > p => f[q] = g[q]
      PROVE  Next1(f)[p] = Next1(g)[p]
  <2>1. \A start \in 1 .. Len(t) + 1 : Next1(f)[p][start] = Next1(g)[p][start]
    <3> TAKE start \in 1 .. Len(t) + 1
    <3>1. CASE p >= Len(t) + 1
      <4>1. p = Len(t) + 1 \/ p = Len(t) + 2
        BY <1>1, <3>1
      <4> QED BY <1>1, <4>1 DEF ReadStep
    <3>2. CASE p <= Len(t) /\ Matches(d, t, p)
      <4>1. p \in 1 .. Len(t) /\ p + Len(d) \in D /\ p + Len(d) > p
        BY <1>1, <3>2, GoesOn
      <4>2. f[p + Len(d)] = g[p + Len(d)]
        BY <1>2, <4>1
      <4>3. /\ Next1(f)[p][start] = Put(Between(t, start, p), f[p + Len(d)][p + Len(d)])
            /\ Next1(g)[p][start] = Put(Between(t, start, p), g[p + Len(d)][p + Len(d)])
        BY <1>1, <3>2 DEF ReadStep, FieldEnd, Put
      <4> QED BY <4>2, <4>3
    <3>3. CASE p <= Len(t) /\ ~Matches(d, t, p)
      <4> DEFINE q == p + Matched(d, t, p) + 1
      <4>1. p \in 1 .. Len(t) /\ q \in D /\ q > p
        BY <1>1, <3>3, GoesOn
      <4>2. f[q] = g[q]
        <5> HIDE DEF q
        <5> QED BY <1>2, <4>1
      <4> QED BY <1>1, <3>3, <4>2 DEF ReadStep
    <3> QED BY <1>1, <3>1, <3>2, <3>3
  <2>2. /\ Next1(f)[p] = [start \in 1 .. Len(t) + 1 |-> Next1(f)[p][start]]
        /\ Next1(g)[p] = [start \in 1 .. Len(t) + 1 |-> Next1(g)[p][start]]
    BY DEF ReadStep
  <2> HIDE DEF Next1
  <2> QED BY <2>1, <2>2
<1> HIDE DEF Next1
<1>3. 0 \in T
  <2> DEFINE f == [p \in D |-> 0]
  <2>1. Holds(f, 0)
    BY <1>1
  <2> QED BY <2>1
<1>4. ASSUME NEW k \in Nat, k \in T
      PROVE  k + 1 \in T
  <2>1. PICK f : Holds(f, k)
    BY <1>4
  <2> DEFINE g == Next1(f)
  <2>2. g = [p \in D |-> g[p]]
    BY <1>1
  <2>3. \A p \in D : p > Len(t) + 2 - k => f[p] = g[p]
    BY <2>1
  <2>4. ASSUME NEW p \in D, p > Len(t) + 2 - (k + 1)
        PROVE  g[p] = Next1(g)[p]
    <3>1. \A q \in D : q > p => f[q] = g[q]
      <4>1. \A q \in D : q > p => q > Len(t) + 2 - k
        BY <1>1, <2>4
      <4> QED BY <2>3, <4>1
    <3> HIDE DEF D
    <3> QED BY <1>2, <3>1
  <2>5. Holds(g, k + 1)
    BY <2>2, <2>4
  <2> QED BY <2>5
<1>5. Len(t) + 2 \in T
  <2> HIDE DEF T
  <2>1. Nat \subseteq T
    BY <1>3, <1>4, Induction
  <2> QED BY <1>1, <2>1
<1>6. PICK f : Holds(f, Len(t) + 2)
  BY <1>5
<1>7. f = Next1(f)
  <2>1. \A p \in D : p > Len(t) + 2 - (Len(t) + 2)
    BY <1>1
  <2>2. \A p \in D : f[p] = Next1(f)[p]
    BY <1>6, <2>1
  <2> QED BY <1>1, <1>6, <2>2
<1>8. Reading(d, t) = CHOOSE h : h = ReadStep(d, t, h)
  BY DEF Reading, ReadStep
<1>9. \E h : h = ReadStep(d, t, h)
  BY <1>7 DEF Next1
<1> QED BY ONLY <1>8, <1>9

LEMMA CutHere ==
  ASSUME NEW t \in Text, NEW d, NEW f, NEW p \in 1 .. Len(t), NEW start \in 1 .. Len(t) + 1,
         Fits(d, t, p)
  PROVE  CutStep(d, t, f)[p][start] = <<Between(t, start, p)>> \o f[p + Len(d)][p + Len(d)]
<1>1. Len(t) \in Nat /\ p \in 1 .. Len(t) + 1 /\ p <= Len(t)
  BY DEF Text
<1> QED BY <1>1 DEF CutStep

LEMMA CutsIs ==
  ASSUME NEW t \in Text, NEW d \in Text, d # None
  PROVE  Cuts(d, t) = CutStep(d, t, Cuts(d, t))
<1> DEFINE D == 1 .. Len(t) + 1
           Next1(f) == CutStep(d, t, f)
           Holds(f, k) == /\ f = [p \in D |-> f[p]]
                          /\ \A p \in D : p > Len(t) + 1 - k => f[p] = Next1(f)[p]
           T == {k \in Nat : \E f : Holds(f, k)}
<1>1. Len(t) \in Nat /\ \A f : Next1(f) = [p \in D |-> Next1(f)[p]]
  BY DEF CutStep, Text
<1>2. ASSUME NEW f, NEW g, NEW p \in D, \A q \in D : q > p => f[q] = g[q]
      PROVE  Next1(f)[p] = Next1(g)[p]
  <2>1. \A start \in 1 .. Len(t) + 1 : Next1(f)[p][start] = Next1(g)[p][start]
    <3> TAKE start \in 1 .. Len(t) + 1
    <3>1. CASE p = Len(t) + 1
      BY <1>1, <3>1 DEF CutStep
    <3>2. CASE p <= Len(t) /\ Fits(d, t, p)
      <4>1. p \in 1 .. Len(t) /\ p + Len(d) \in D /\ p + Len(d) > p
        BY <1>1, <3>2, GoesOn, FitsIs, MatchesIs
      <4>2. f[p + Len(d)] = g[p + Len(d)]
        BY <1>2, <4>1
      <4>3. CutStep(d, t, f)[p][start]
              = <<Between(t, start, p)>> \o f[p + Len(d)][p + Len(d)]
        BY <3>2, <4>1, CutHere
      <4>4. CutStep(d, t, g)[p][start]
              = <<Between(t, start, p)>> \o g[p + Len(d)][p + Len(d)]
        BY <3>2, <4>1, CutHere
      <4> QED BY <4>2, <4>3, <4>4
    <3>3. CASE p <= Len(t) /\ ~Fits(d, t, p)
      <4>1. p + 1 \in D /\ p + 1 > p
        BY <1>1, <3>3
      <4>2. f[p + 1] = g[p + 1]
        BY <1>2, <4>1
      <4> QED BY <1>1, <3>3, <4>2 DEF CutStep
    <3> QED BY <1>1, <3>1, <3>2, <3>3
  <2>2. /\ Next1(f)[p] = [start \in 1 .. Len(t) + 1 |-> Next1(f)[p][start]]
        /\ Next1(g)[p] = [start \in 1 .. Len(t) + 1 |-> Next1(g)[p][start]]
    BY DEF CutStep
  <2> HIDE DEF Next1
  <2> QED BY <2>1, <2>2
<1> HIDE DEF Next1
<1>3. 0 \in T
  <2> DEFINE f == [p \in D |-> 0]
  <2>1. Holds(f, 0)
    BY <1>1
  <2> QED BY <2>1
<1>4. ASSUME NEW k \in Nat, k \in T
      PROVE  k + 1 \in T
  <2>1. PICK f : Holds(f, k)
    BY <1>4
  <2> DEFINE g == Next1(f)
  <2>2. g = [p \in D |-> g[p]]
    BY <1>1
  <2>3. \A p \in D : p > Len(t) + 1 - k => f[p] = g[p]
    BY <2>1
  <2>4. ASSUME NEW p \in D, p > Len(t) + 1 - (k + 1)
        PROVE  g[p] = Next1(g)[p]
    <3>1. \A q \in D : q > p => f[q] = g[q]
      <4>1. \A q \in D : q > p => q > Len(t) + 1 - k
        BY <1>1, <2>4
      <4> QED BY <2>3, <4>1
    <3> HIDE DEF D
    <3> QED BY <1>2, <3>1
  <2>5. Holds(g, k + 1)
    BY <2>2, <2>4
  <2> QED BY <2>5
<1>5. Len(t) + 1 \in T
  <2> HIDE DEF T
  <2>1. Nat \subseteq T
    BY <1>3, <1>4, Induction
  <2> QED BY <1>1, <2>1
<1>6. PICK f : Holds(f, Len(t) + 1)
  BY <1>5
<1>7. f = Next1(f)
  <2>1. \A p \in D : p > Len(t) + 1 - (Len(t) + 1)
    BY <1>1
  <2>2. \A p \in D : f[p] = Next1(f)[p]
    BY <1>6, <2>1
  <2> QED BY <1>1, <1>6, <2>2
<1>8. Cuts(d, t) = CHOOSE h : h = CutStep(d, t, h)
  BY DEF Cuts, CutStep
<1>9. \E h : h = CutStep(d, t, h)
  BY <1>7 DEF Next1
<1> QED BY ONLY <1>8, <1>9

----------------------------------------------------------------------------
(* Explode finds the fields.                                               *)

LEMMA NoPartNoMatch ==
  ASSUME NEW t \in Text, NEW d \in Text, d # None, NEW p \in 1 .. Len(t),
         ~PartAt(d, t, p), ~Matches(d, t, p)
  PROVE  Matched(d, t, p) = 0
<1> DEFINE m == Matched(d, t, p)
<1>1. Len(d) \in Nat /\ Len(d) >= 1
  BY GoesOn
<1>2. m \in 0 .. Len(d) /\ m # Len(d)
  BY MatchedIs DEF Matches
<1>3. CASE Len(d) = 1
  BY <1>1, <1>2, <1>3
<1>4. CASE Len(d) > 1 /\ m >= 1
  <2>1. p + 1 - 1 = p /\ 1 \in 1 .. m
    BY <1>2, <1>4
  <2>2. t[p] = d[1]
    <3>1. t[p + 1 - 1] = d[1]
      BY <2>1, MatchedIs
    <3> QED BY <2>1, <3>1
  <2>3. ~Fits(d, t, p)
    BY FitsIs, MatchesIs
  <2> QED BY <1>4, <2>2, <2>3 DEF PartAt
<1> QED BY <1>1, <1>2, <1>3, <1>4

LEMMA ReadsCuts ==
  ASSUME NEW t \in Text, NEW d \in Text, d # None,
         \A p \in 1 .. Len(t) : ~PartAt(d, t, p)
  PROVE  Reading(d, t)[1][1] = [fields |-> Cuts(d, t)[1][1], past |-> FALSE]
<1> DEFINE R == Reading(d, t)
           C == Cuts(d, t)
           Same(p) == \A start \in 1 .. Len(t) + 1 :
                        R[p][start] = [fields |-> C[p][start], past |-> FALSE]
           T == {k \in Nat : \A p \in 1 .. Len(t) + 1 : p > Len(t) + 1 - k => Same(p)}
<1>1. Len(t) \in Nat
  BY DEF Text
<1>2. R = ReadStep(d, t, R) /\ C = CutStep(d, t, C)
  BY ReadingIs, CutsIs
<1>3. \A p, start : R[p][start] = ReadStep(d, t, R)[p][start]
                     /\ C[p][start] = CutStep(d, t, C)[p][start]
  BY <1>2
<1> HIDE DEF R, C
<1>4. ASSUME NEW p \in 1 .. Len(t) + 1, \A q \in 1 .. Len(t) + 1 : q > p => Same(q)
      PROVE  Same(p)
  <2> TAKE start \in 1 .. Len(t) + 1
  <2>1. p \in 1 .. Len(t) + 2
    BY <1>1
  <2>2. CASE p = Len(t) + 1
    <3>1. R[p][start] = [fields |-> <<Between(t, start, p)>>, past |-> FALSE]
      BY <1>1, <1>2, <2>1, <2>2 DEF ReadStep
    <3>2. C[p][start] = <<Between(t, start, p)>>
      BY <1>1, <1>2, <2>2 DEF CutStep
    <3> QED BY <3>1, <3>2
  <2>3. CASE p <= Len(t) /\ Matches(d, t, p)
    <3> DEFINE q == p + Len(d)
    <3>1. p \in 1 .. Len(t) /\ q \in 1 .. Len(t) + 1 /\ q > p
      BY <1>1, <2>3, GoesOn
    <3>2. Fits(d, t, p)
      BY <2>3, <3>1, FitsIs, MatchesIs
    <3>3. ReadStep(d, t, R)[p][start] = Put(Between(t, start, p), R[q][q])
      BY <1>1, <2>1, <2>3 DEF ReadStep, FieldEnd, Put
    <3>4. CutStep(d, t, C)[p][start] = <<Between(t, start, p)>> \o C[q][q]
      BY <3>1, <3>2, CutHere
    <3> HIDE DEF q
    <3>5. R[q][q] = [fields |-> C[q][q], past |-> FALSE]
      BY <1>4, <3>1
    <3>6. Put(Between(t, start, p), R[q][q])
            = [fields |-> <<Between(t, start, p)>> \o C[q][q], past |-> FALSE]
      BY <3>5 DEF Put
    <3> QED BY <1>3, <3>3, <3>4, <3>6
  <2>4. CASE p <= Len(t) /\ ~Matches(d, t, p)
    <3>1. p \in 1 .. Len(t) /\ p + 1 \in 1 .. Len(t) + 1 /\ p + 1 > p
      BY <1>1, <2>4
    <3>2. ~Fits(d, t, p) /\ Matched(d, t, p) = 0
      BY <2>4, <3>1, FitsIs, MatchesIs, NoPartNoMatch
    <3>3. ReadStep(d, t, R)[p][start] = R[p + 1][start]
      <4>1. ReadStep(d, t, R)[p][start] = R[p + Matched(d, t, p) + 1][start]
        BY <1>1, <2>1, <2>4 DEF ReadStep
      <4>2. p + Matched(d, t, p) + 1 = p + 1
        BY <3>1, <3>2
      <4> QED BY <4>1, <4>2
    <3>4. CutStep(d, t, C)[p][start] = C[p + 1][start]
      BY <1>1, <2>4, <3>2 DEF CutStep
    <3>5. R[p + 1][start] = [fields |-> C[p + 1][start], past |-> FALSE]
      BY <1>4, <3>1
    <3> QED BY <1>3, <3>3, <3>4, <3>5
  <2> QED BY <1>1, <2>2, <2>3, <2>4
<1> HIDE DEF Same
<1>5. 0 \in T
  BY <1>1
<1>6. ASSUME NEW k \in Nat, k \in T PROVE k + 1 \in T
  <2>1. ASSUME NEW p \in 1 .. Len(t) + 1, p > Len(t) + 1 - (k + 1)
        PROVE  Same(p)
    <3>1. \A q \in 1 .. Len(t) + 1 : q > p => q > Len(t) + 1 - k
      BY <1>1, <2>1
    <3> QED BY <1>4, <1>6, <3>1
  <2> QED BY <2>1
<1>7. Len(t) + 1 \in T
  <2> HIDE DEF T
  <2>1. Nat \subseteq T
    BY <1>5, <1>6, Induction
  <2> QED BY <1>1, <2>1
<1>8. Same(1)
  BY <1>1, <1>7
<1> QED BY <1>1, <1>8 DEF Same, R, C

LEMMA TryExplodeExact == TryExplode => ExplodeExact'
<1> SUFFICES ASSUME NEW d \in Delimiters, NEW t \in Trials,
                    trial' = [kind |-> "explode", of |-> d, text |-> t,
                              result |-> Explode(d, t, Fields)],
                    t # None, d # None, \A p \in DOMAIN t : ~PartAt(d, t, p)
             PROVE  /\ ~Explode(d, t, Fields).past
                    /\ Explode(d, t, Fields).fields = FieldsOf(d, t)
  BY DEF TryExplode, Tried, ExplodeExact
<1>1. t \in Text /\ d \in Text /\ DOMAIN t = 1 .. Len(t)
  BY BootAssumption DEF Text, Char
<1>2. Reading(d, t)[1][1] = [fields |-> Cuts(d, t)[1][1], past |-> FALSE]
  BY <1>1, ReadsCuts
<1> DEFINE cuts == Cuts(d, t)[1][1]
<1>3. /\ Explode(d, t, Fields).fields = SubSeq(cuts, 1, Min({Len(cuts), Fields}))
      /\ Explode(d, t, Fields).past = FALSE
  <2> DEFINE all == Reading(d, t)[1][1]
             few(fields) == SubSeq(fields, 1, Min({Len(fields), Fields}))
  <2>1. Explode(d, t, Fields) = [fields |-> few(all.fields), past |-> all.past]
    BY DEF Explode
  <2>2. all.fields = cuts /\ all.past = FALSE
    BY <1>2
  <2> HIDE DEF all, cuts, few
  <2>3. Explode(d, t, Fields) = [fields |-> few(cuts), past |-> FALSE]
    BY <2>1, <2>2, Zenon
  <2>4. Explode(d, t, Fields).fields = few(cuts) /\ Explode(d, t, Fields).past = FALSE
    BY <2>3
  <2> QED BY <2>4 DEF few
<1>4. FieldsOf(d, t) = SubSeq(cuts, 1, Min({Len(cuts), Fields}))
  BY DEF FieldsOf
<1> QED BY <1>3, <1>4

(* explode.hpp: however long text and delimiter are, the fields are what is  *)
(* between the delimiters, unless a part of one stands alone in the text.   *)
THEOREM FieldsExact == BootSpec => []ExplodeExact
<1>1. BootInit => ExplodeExact
  BY DEF BootInit, NoTrial, ExplodeExact
<1>2. ExplodeExact /\ [BootNext \/ Later]_bootVars => ExplodeExact'
  <2> SUFFICES ASSUME ExplodeExact, [BootNext \/ Later]_bootVars
               PROVE  ExplodeExact'
    OBVIOUS
  <2>1. CASE TryExplode
    BY <2>1, TryExplodeExact
  <2>2. CASE TryTasks \/ GoOn \/ Later
    BY <2>2 DEF TryTasks, Tried, GoOn, Later, NoTrial, ExplodeExact
  <2>3. CASE SetUp \/ Connect \/ UNCHANGED bootVars
    BY <2>3 DEF SetUp, Connect, bootVars, ExplodeExact
  <2> QED BY <2>1, <2>2, <2>3 DEF BootNext
<1> QED BY <1>1, <1>2, PTL DEF BootSpec

(* task.hpp: whatever the rows and times are, complete comes back unless a   *)
(* task has no end or has ended since load, and no task with two kinds of    *)
(* condition is ever done.                                                 *)
THEOREM TasksSafe == BootSpec => []TasksReturn
<1>1. BootInit => TasksReturn
  BY DEF BootInit, NoTrial, TasksReturn
<1>2. TasksReturn /\ [BootNext \/ Later]_bootVars => TasksReturn'
  <2> SUFFICES ASSUME TasksReturn, [BootNext \/ Later]_bootVars
               PROVE  TasksReturn'
    OBVIOUS
  <2>1. CASE TryTasks
    BY <2>1, TryTasksExact
  <2>2. CASE TryExplode \/ GoOn \/ Later
    BY <2>2 DEF TryExplode, Tried, GoOn, Later, NoTrial, TasksReturn
  <2>3. CASE SetUp \/ Connect \/ UNCHANGED bootVars
    BY <2>3 DEF SetUp, Connect, bootVars, TasksReturn
  <2> QED BY <2>1, <2>2, <2>3 DEF BootNext
<1> QED BY <1>1, <1>2, PTL DEF BootSpec
----------------------------------------------------------------------------
(* Config: where a piece of the file ends.                                 *)

LEMMA Bound ==
  ASSUME NEW k \in Nat, NEW n \in Nat
  PROVE  Max({k, n}) = IF k <= n THEN n ELSE k
<1>1. {k, n} \in SUBSET (0 .. k + n) /\ {k, n} # {}
  OBVIOUS
<1>2. k + n \in Nat
  OBVIOUS
<1>3. Max({k, n}) \in {k, n} /\ \A i \in {k, n} : i <= Max({k, n})
  BY <1>1, <1>2, MaxIs
<1> QED BY <1>3

(* Upto and Past find a place, at the latest behind the text.              *)
LEMMA UptoIs ==
  ASSUME NEW t \in Text, NEW p \in Nat \ {0}, NEW C
  PROVE  /\ Upto(t, p, C) \in Nat /\ Upto(t, p, C) >= p
         /\ p <= Len(t) + 1 => Upto(t, p, C) <= Len(t) + 1
         /\ \A q \in p .. Len(t) : q < Upto(t, p, C) => t[q] \notin C
<1> DEFINE last == Max({p, Len(t) + 1})
           T == {q \in p .. last : q > Len(t) \/ t[q] \in C}
           m == Min(T)
<1>1. Len(t) \in Nat /\ Len(t) + 1 \in Nat
  BY DEF Text
<1>2. last = IF p <= Len(t) + 1 THEN Len(t) + 1 ELSE p
  BY <1>1, Bound
<1> HIDE DEF last
<1>3. T \subseteq Nat /\ last \in T
  BY <1>1, <1>2
<1>4. Upto(t, p, C) = m
  BY DEF Upto, last
<1>5. m \in T /\ \A q \in T : m <= q
  <2> HIDE DEF T
  <2> QED BY <1>3, MinIs
<1> HIDE DEF m
<1>6. \A q \in p .. Len(t) : q < m => q \notin T
  BY <1>1, <1>5
<1>7. \A q \in p .. Len(t) : q \in p .. last
  BY <1>1, <1>2
<1> QED BY <1>1, <1>2, <1>4, <1>5, <1>6, <1>7

LEMMA PastIs ==
  ASSUME NEW t \in Text, NEW p \in Nat \ {0}, NEW C
  PROVE  /\ Past(t, p, C) \in Nat /\ Past(t, p, C) >= p
         /\ p <= Len(t) + 1 => Past(t, p, C) <= Len(t) + 1
<1> DEFINE last == Max({p, Len(t) + 1})
           T == {q \in p .. last : q > Len(t) \/ t[q] \notin C}
<1>1. Len(t) \in Nat /\ Len(t) + 1 \in Nat
  BY DEF Text
<1>2. last = IF p <= Len(t) + 1 THEN Len(t) + 1 ELSE p
  BY <1>1, Bound
<1> HIDE DEF last
<1>3. T \subseteq Nat /\ last \in T
  BY <1>1, <1>2
<1>4. Past(t, p, C) = Min(T)
  BY DEF Past, last
<1>5. Min(T) \in T
  <2> HIDE DEF T
  <2> QED BY <1>3, MinIs
<1> QED BY <1>1, <1>2, <1>4, <1>5

LEMMA BetweenIs ==
  ASSUME NEW t \in Text, NEW p \in Nat \ {0}, NEW q \in Nat, q <= Len(t) + 1
  PROVE  Between(t, p, q) \in Text
<1>1. Len(t) \in Nat /\ \A i \in 1 .. Len(t) : t[i] \in Char
  BY DEF Text
<1>2. p \in Int /\ q - 1 \in Int /\ \A i \in p .. q - 1 : t[i] \in Char
  BY <1>1
<1> QED BY <1>2, SubSeqProperties DEF Between, Text

(* A piece has a character at least, and a line end only as its last one.   *)
LEMMA PieceEndIs ==
  ASSUME NEW t \in Text, NEW p \in 1 .. Len(t)
  PROVE  /\ PieceEnd(t, p) \in p + 1 .. Len(t) + 1
         /\ \A q \in p .. PieceEnd(t, p) - 2 : t[q] # "\n"
<1> DEFINE u == Upto(t, p, {"\n"})
           T == {u + 1, p + Piece, Len(t) + 1}
           e == PieceEnd(t, p)
<1>1. Len(t) \in Nat /\ Piece \in Nat \ {0} /\ p \in Nat \ {0} /\ p <= Len(t) + 1
  BY ConfigAssumption DEF Text
<1>2. /\ u \in Nat /\ u >= p /\ u <= Len(t) + 1
      /\ \A q \in p .. Len(t) : q < u => t[q] # "\n"
  BY <1>1, UptoIs
<1> HIDE DEF u
<1>3. T \subseteq Nat /\ T # {}
  BY <1>1, <1>2
<1>4. e = Min(T)
  BY DEF PieceEnd, u
<1>5. e \in T /\ \A q \in T : e <= q
  <2> HIDE DEF T, e
  <2> QED BY <1>3, <1>4, MinIs
<1> HIDE DEF e
<1>6. e \in p + 1 .. Len(t) + 1 /\ e <= u + 1
  BY <1>1, <1>2, <1>5
<1>7. \A q \in p .. e - 2 : q \in p .. Len(t) /\ q < u
  BY <1>1, <1>2, <1>6
<1> QED BY <1>2, <1>6, <1>7 DEF e

LEMMA EntryIs ==
  ASSUME NEW piece \in Text
  PROVE  Entry(piece).value \in Text
<1> DEFINE skipped == {" ", "="}
           end == Upto(piece, 1, Stops \cup {"="})
           from == Past(piece, end, skipped)
           upto == Upto(piece, from, Stops)
<1>1. Len(piece) \in Nat /\ 1 <= Len(piece) + 1
  BY DEF Text
<1>2. end \in Nat \ {0} /\ end <= Len(piece) + 1
  BY <1>1, UptoIs
<1> HIDE DEF skipped, end
<1>3. from \in Nat \ {0} /\ from <= Len(piece) + 1
  BY <1>2, PastIs
<1> HIDE DEF from
<1>4. upto \in Nat /\ upto <= Len(piece) + 1
  BY <1>3, UptoIs
<1> HIDE DEF upto
<1>5. Entry(piece) = [key |-> Between(piece, 1, end), value |-> Between(piece, from, upto)]
  BY DEF Entry, skipped, end, from, upto
<1>6. Between(piece, from, upto) \in Text
  BY <1>3, <1>4, BetweenIs
<1> QED BY <1>5, <1>6

(* Only the first character of a piece may begin a line, and a piece gives an *)
(* entry when it begins one that is no comment.                             *)
LEMMA PieceIs ==
  ASSUME NEW t \in Text, NEW p \in 1 .. Len(t)
  PROVE  /\ ~Skipped(t, p) <=> p \in EntryLines(t)
         /\ \A q \in EntryLines(t) : q > p => q >= PieceEnd(t, p)
<1> DEFINE e == PieceEnd(t, p)
<1>1. Len(t) \in Nat /\ DOMAIN t = 1 .. Len(t)
  BY DEF Text
<1>2. e \in p + 1 .. Len(t) + 1 /\ \A q \in p .. e - 2 : t[q] # "\n"
  BY PieceEndIs
<1> HIDE DEF e
<1>3. p > 1 \/ p = 1
  BY <1>1
<1>4. p \in LineStarts(t) <=> ~Continues(t, p)
  BY <1>1, <1>3 DEF LineStarts, Continues
<1>5. ~Skipped(t, p) <=> p \in EntryLines(t)
  BY <1>4 DEF Skipped, EntryLines, LineStarts
<1>6. ASSUME NEW q \in EntryLines(t), q > p, q < e
      PROVE  FALSE
  <2>1. q \in 1 .. Len(t) /\ (q = 1 \/ t[q - 1] = "\n")
    BY <1>1 DEF EntryLines, LineStarts
  <2>2. q # 1 /\ q - 1 \in p .. e - 2
    BY <1>1, <1>2, <1>6, <2>1
  <2> QED BY <1>2, <2>1, <2>2
<1>7. \A q \in EntryLines(t) : q \in Nat
  BY <1>1 DEF EntryLines, LineStarts
<1> QED BY <1>1, <1>2, <1>5, <1>6, <1>7 DEF e

EntryStep(t, f) ==
  [p \in 1 .. Len(t) + 1 |->
     LET end == PieceEnd(t, p)
     IN  IF p > Len(t) THEN <<>>
         ELSE (IF Skipped(t, p) THEN <<>> ELSE <<Entry(Between(t, p, end))>>) \o f[end]]

LEMMA EntriesIs ==
  ASSUME NEW t \in Text
  PROVE  Entries(t) = EntryStep(t, Entries(t))
<1> DEFINE D == 1 .. Len(t) + 1
           Next1(f) == EntryStep(t, f)
           Holds(f, k) == /\ f = [p \in D |-> f[p]]
                          /\ \A p \in D : p > Len(t) + 1 - k => f[p] = Next1(f)[p]
           T == {k \in Nat : \E f : Holds(f, k)}
<1>1. Len(t) \in Nat /\ \A f : Next1(f) = [p \in D |-> Next1(f)[p]]
  BY DEF EntryStep, Text
<1>2. ASSUME NEW f, NEW g, NEW p \in D, \A q \in D : q > p => f[q] = g[q]
      PROVE  Next1(f)[p] = Next1(g)[p]
  <2>1. CASE p = Len(t) + 1
    BY <1>1, <2>1 DEF EntryStep
  <2>2. CASE p <= Len(t)
    <3>1. PieceEnd(t, p) \in D /\ PieceEnd(t, p) > p
      BY <1>1, <2>2, PieceEndIs
    <3>2. f[PieceEnd(t, p)] = g[PieceEnd(t, p)]
      BY <1>2, <3>1
    <3> QED BY <1>1, <2>2, <3>2 DEF EntryStep
  <2> QED BY <1>1, <2>1, <2>2
<1> HIDE DEF Next1
<1>3. 0 \in T
  <2> DEFINE f == [p \in D |-> 0]
  <2>1. Holds(f, 0)
    BY <1>1
  <2> QED BY <2>1
<1>4. ASSUME NEW k \in Nat, k \in T
      PROVE  k + 1 \in T
  <2>1. PICK f : Holds(f, k)
    BY <1>4
  <2> DEFINE g == Next1(f)
  <2>2. g = [p \in D |-> g[p]]
    BY <1>1
  <2>3. \A p \in D : p > Len(t) + 1 - k => f[p] = g[p]
    BY <2>1
  <2>4. ASSUME NEW p \in D, p > Len(t) + 1 - (k + 1)
        PROVE  g[p] = Next1(g)[p]
    <3>1. \A q \in D : q > p => f[q] = g[q]
      <4>1. \A q \in D : q > p => q > Len(t) + 1 - k
        BY <1>1, <2>4
      <4> QED BY <2>3, <4>1
    <3> HIDE DEF D
    <3> QED BY <1>2, <3>1
  <2>5. Holds(g, k + 1)
    BY <2>2, <2>4
  <2> QED BY <2>5
<1>5. Len(t) + 1 \in T
  <2> HIDE DEF T
  <2>1. Nat \subseteq T
    BY <1>3, <1>4, Induction
  <2> QED BY <1>1, <2>1
<1>6. PICK f : Holds(f, Len(t) + 1)
  BY <1>5
<1>7. f = Next1(f)
  <2>1. \A p \in D : p > Len(t) + 1 - (Len(t) + 1)
    BY <1>1
  <2>2. \A p \in D : f[p] = Next1(f)[p]
    BY <1>6, <2>1
  <2> QED BY <1>1, <1>6, <2>2
<1>8. Entries(t) = CHOOSE h : h = EntryStep(t, h)
  BY DEF Entries, EntryStep
<1>9. \E h : h = EntryStep(t, h)
  BY <1>7 DEF Next1
<1> QED BY ONLY <1>8, <1>9

(* e goes through the places of S from p on, in their order, and list is what *)
(* v says of them.                                                         *)
Through(S, p, n, e) ==
  /\ e \in [1 .. n -> S]
  /\ \A i \in 1 .. n : e[i] >= p
  /\ \A i, j \in 1 .. n : i < j => e[i] < e[j]
  /\ \A q \in S : q >= p => \E i \in 1 .. n : e[i] = q

Listed(S, v, list, p, n, e) ==
  /\ n \in Nat
  /\ Through(S, p, n, e)
  /\ list \in Seq({v[q] : q \in S})
  /\ Len(list) = n
  /\ \A i \in 1 .. n : list[i] = v[e[i]]

LEMMA NoneListed ==
  ASSUME NEW S, NEW v, NEW p, \A q \in S : ~(q >= p)
  PROVE  Listed(S, v, <<>>, p, 0, <<>>)
<1>1. <<>> \in [1 .. 0 -> S] /\ \A i \in 1 .. 0 : FALSE
  OBVIOUS
<1>2. Through(S, p, 0, <<>>)
  BY <1>1 DEF Through
<1> QED BY <1>1, <1>2 DEF Listed

(* One place more in front.                                                *)
LEMMA MoreListed ==
  ASSUME NEW S \in SUBSET Nat, NEW v, NEW p \in Nat, NEW end \in Nat, end > p,
         \A q \in S : q > p => q >= end,
         NEW rest, NEW n, NEW e, Listed(S, v, rest, end, n, e),
         NEW all, all \in (IF p \in S THEN {<<v[p]>> \o rest} ELSE {rest, <<>> \o rest})
  PROVE  \E m, f : Listed(S, v, all, p, m, f)
<1> DEFINE V == {v[q] : q \in S}
<1>1. /\ n \in Nat /\ e \in [1 .. n -> S] /\ \A i \in 1 .. n : e[i] >= end
      /\ \A i, j \in 1 .. n : i < j => e[i] < e[j]
      /\ \A q \in S : q >= end => \E i \in 1 .. n : e[i] = q
      /\ rest \in Seq(V) /\ Len(rest) = n /\ \A i \in 1 .. n : rest[i] = v[e[i]]
  BY DEF Listed, Through
<1> HIDE DEF V
<1>2. CASE p \notin S
  <2>1. all \in {rest, <<>> \o rest}
    BY <1>2
  <2>2. all = rest
    BY <1>1, <2>1, ConcatEmptySeq
  <2>3. \A i \in 1 .. n : e[i] >= p
    <3>1. \A i \in 1 .. n : e[i] \in Nat /\ e[i] >= end
      BY <1>1
    <3> QED BY <3>1
  <2>4. \A q \in S : q >= p => q >= end
    BY <1>2
  <2>5. Through(S, p, n, e)
    BY <1>1, <2>3, <2>4 DEF Through
  <2>6. Listed(S, v, all, p, n, e)
    BY <1>1, <2>2, <2>5 DEF Listed, V
  <2> QED BY <2>6
<1>3. CASE p \in S
  <2> DEFINE f == [i \in 1 .. n + 1 |-> IF i = 1 THEN p ELSE e[i - 1]]
  <2>1. all = <<v[p]>> \o rest /\ v[p] \in V
    BY <1>3 DEF V
  <2>2. \A i \in 2 .. n + 1 : i - 1 \in 1 .. n /\ f[i] = e[i - 1]
    BY <1>1
  <2>3. f[1] = p
    BY <1>1
  <2>4. f \in [1 .. n + 1 -> S]
    <3>1. \A i \in 1 .. n + 1 : (IF i = 1 THEN p ELSE e[i - 1]) \in S
      <4> TAKE i \in 1 .. n + 1
      <4>1. i = 1 \/ i - 1 \in 1 .. n
        BY <1>1
      <4> QED BY <1>1, <1>3, <4>1
    <3> QED BY <3>1
  <2> HIDE DEF f
  <2>5. \A i \in 1 .. n + 1 : i = 1 \/ i \in 2 .. n + 1
    BY <1>1
  <2>6. \A i \in 1 .. n + 1 : f[i] >= p
    <3> TAKE i \in 1 .. n + 1
    <3>1. CASE i = 1
      BY <2>3, <3>1
    <3>2. CASE i \in 2 .. n + 1
      <4>1. f[i] = e[i - 1] /\ e[i - 1] >= end /\ e[i - 1] \in Nat
        BY <1>1, <2>2, <3>2
      <4> QED BY <1>1, <4>1
    <3> QED BY <2>5, <3>1, <3>2
  <2>7. ASSUME NEW i \in 1 .. n + 1, NEW j \in 1 .. n + 1, i < j
        PROVE  f[i] < f[j]
    <3>1. j \in 2 .. n + 1 /\ f[j] = e[j - 1] /\ j - 1 \in 1 .. n
      BY <1>1, <2>2, <2>7
    <3>2. CASE i = 1
      <4>1. e[j - 1] >= end /\ e[j - 1] \in Nat
        BY <1>1, <3>1
      <4> QED BY <2>3, <3>1, <3>2, <4>1
    <3>3. CASE i # 1
      <4>1. i - 1 \in 1 .. n /\ i - 1 < j - 1 /\ f[i] = e[i - 1]
        BY <1>1, <2>2, <2>5, <2>7, <3>3
      <4> QED BY <1>1, <3>1, <4>1
    <3> QED BY <3>2, <3>3
  <2>8. ASSUME NEW q \in S, q >= p
        PROVE  \E i \in 1 .. n + 1 : f[i] = q
    <3>1. CASE q = p
      BY <1>1, <2>3, <3>1
    <3>2. CASE q # p
      <4>1. q >= end
        BY <2>8, <3>2
      <4>2. PICK i \in 1 .. n : e[i] = q
        BY <1>1, <4>1
      <4>3. i + 1 \in 2 .. n + 1 /\ i + 1 \in 1 .. n + 1 /\ (i + 1) - 1 = i
        BY <1>1
      <4> QED BY <2>2, <4>2, <4>3
    <3> QED BY <3>1, <3>2
  <2>9. Through(S, p, n + 1, f)
    BY <2>4, <2>6, <2>7, <2>8 DEF Through
  <2> DEFINE first == v[p]
  <2> HIDE DEF first
  <2>10. all \in Seq(V) /\ Len(all) = n + 1 /\ all[1] = first
         /\ \A i \in 2 .. n + 1 : all[i] = rest[i - 1]
    <3>1. all = <<first>> \o rest /\ first \in V
      BY <2>1 DEF first
    <3> QED BY <1>1, <3>1
  <2>11. \A i \in 1 .. n + 1 : all[i] = v[f[i]]
    <3>1. all[1] = v[f[1]]
      BY <2>3, <2>10 DEF first
    <3>2. \A i \in 2 .. n + 1 : all[i] = v[f[i]]
      BY <1>1, <2>2, <2>10
    <3> QED BY <2>5, <3>1, <3>2
  <2>12. Listed(S, v, all, p, n + 1, f)
    BY <1>1, <2>9, <2>10, <2>11 DEF Listed, V
  <2> QED BY <2>12
<1> QED BY <1>2, <1>3

(* What is found from the places of R on, each of which leads to a later one *)
(* or behind them all.                                                     *)
Leads(R, S, v, f, next, p) ==
  /\ next[p] \in Nat /\ next[p] > p
  /\ \A q \in S : q > p => q >= next[p]
  /\ f[p] \in (IF p \in S THEN {<<v[p]>> \o f[next[p]]} ELSE {f[next[p]], <<>> \o f[next[p]]})
  /\ next[p] \notin R => f[next[p]] = <<>> /\ \A q \in S : ~(q >= next[p])

LEMMA AllListed ==
  ASSUME NEW N \in Nat, NEW R \in SUBSET (1 .. N), NEW S \in SUBSET Nat, NEW v, NEW f, NEW next,
         \A p \in R : Leads(R, S, v, f, next, p)
  PROVE  \A p \in R : \E n, e : Listed(S, v, f[p], p, n, e)
<1> DEFINE Known(p) == \E n, e : Listed(S, v, f[p], p, n, e)
           T == {k \in Nat : \A p \in R : p > N - k => Known(p)}
<1>1. ASSUME NEW p \in R, \A q \in R : q > p => Known(q)
      PROVE  Known(p)
  <2>1. /\ p \in Nat /\ next[p] \in Nat /\ next[p] > p
        /\ \A q \in S : q > p => q >= next[p]
        /\ f[p] \in (IF p \in S THEN {<<v[p]>> \o f[next[p]]}
                     ELSE {f[next[p]], <<>> \o f[next[p]]})
        /\ next[p] \notin R => f[next[p]] = <<>> /\ \A q \in S : ~(q >= next[p])
    <3>1. Leads(R, S, v, f, next, p)
      OBVIOUS
    <3>2. p \in Nat
      OBVIOUS
    <3> HIDE DEF Known
    <3> QED BY ONLY <3>1, <3>2 DEF Leads
  <2>2. \E n, e : Listed(S, v, f[next[p]], next[p], n, e)
    <3>1. CASE next[p] \in R
      BY <1>1, <2>1, <3>1
    <3>2. CASE next[p] \notin R
      <4>1. Listed(S, v, <<>>, next[p], 0, <<>>)
        BY <2>1, <3>2, NoneListed
      <4> QED BY <2>1, <3>2, <4>1
    <3> QED BY <3>1, <3>2
  <2>3. PICK n, e : Listed(S, v, f[next[p]], next[p], n, e)
    BY <2>2
  <2> HIDE DEF Known
  <2> DEFINE all == f[p]
             rest == f[next[p]]
             end == next[p]
  <2>4. \E m, g : Listed(S, v, all, p, m, g)
    <3>1. /\ Listed(S, v, rest, end, n, e) /\ p \in Nat /\ end \in Nat /\ end > p
          /\ \A q \in S : q > p => q >= end
          /\ all \in (IF p \in S THEN {<<v[p]>> \o rest} ELSE {rest, <<>> \o rest})
      BY <2>1, <2>3
    <3> HIDE DEF all, rest, end
    <3> QED BY <3>1, MoreListed
  <2> QED BY <2>4 DEF Known
<1> HIDE DEF Known
<1>2. 0 \in T
  OBVIOUS
<1>3. ASSUME NEW k \in Nat, k \in T PROVE k + 1 \in T
  <2>1. ASSUME NEW p \in R, p > N - (k + 1)
        PROVE  Known(p)
    <3>1. \A q \in R : q > p => q > N - k
      BY <2>1
    <3> QED BY <1>1, <1>3, <3>1
  <2> QED BY <2>1
<1>4. N \in T
  <2> HIDE DEF T
  <2> QED BY <1>2, <1>3, Induction
<1>5. \A p \in R : p > N - N
  OBVIOUS
<1>6. \A p \in R : Known(p)
  BY <1>4, <1>5
<1> QED BY <1>6 DEF Known

EntriesFrom(t, p, n, e) ==
  /\ n \in Nat
  /\ Through(EntryLines(t), p, n, e)
  /\ Entries(t)[p] \in Seq({EntryOf(t, q) : q \in EntryLines(t)})
  /\ Len(Entries(t)[p]) = n
  /\ \A i \in 1 .. n : Entries(t)[p][i] = EntryOf(t, e[i])

LEMMA EntriesListed ==
  ASSUME NEW t \in Text, NEW p, NEW n, NEW e,
         Listed(EntryLines(t), [q \in EntryLines(t) |-> EntryOf(t, q)], Entries(t)[p], p, n, e)
  PROVE  EntriesFrom(t, p, n, e)
<1> DEFINE S == EntryLines(t)
           v == [q \in S |-> EntryOf(t, q)]
<1>1. /\ n \in Nat /\ Through(S, p, n, e) /\ e \in [1 .. n -> S]
      /\ Entries(t)[p] \in Seq({v[q] : q \in S}) /\ Len(Entries(t)[p]) = n
      /\ \A i \in 1 .. n : Entries(t)[p][i] = v[e[i]]
  BY DEF Listed, Through
<1>2. \A q \in S : v[q] = EntryOf(t, q)
  OBVIOUS
<1>3. {v[q] : q \in S} = {EntryOf(t, q) : q \in S}
  BY <1>2
<1>4. \A i \in 1 .. n : e[i] \in S
  BY <1>1
<1> HIDE DEF S, v
<1>5. \A i \in 1 .. n : Entries(t)[p][i] = EntryOf(t, e[i])
  BY <1>1, <1>2, <1>4
<1> QED BY <1>1, <1>3, <1>5 DEF EntriesFrom, S

LEMMA AllEntries ==
  ASSUME NEW t \in Text
  PROVE  \E n, e : EntriesFrom(t, 1, n, e)
<1> DEFINE S == EntryLines(t)
           v == [q \in S |-> EntryOf(t, q)]
           R == 1 .. Len(t)
           next == [p \in R |-> PieceEnd(t, p)]
           f == Entries(t)
<1>1. Len(t) \in Nat /\ S \in SUBSET Nat /\ R \in SUBSET (1 .. Len(t))
  BY DEF Text, EntryLines, LineStarts
<1>2. f[Len(t) + 1] = <<>> /\ \A q \in S : ~(q >= Len(t) + 1)
  <2>1. f[Len(t) + 1] = EntryStep(t, f)[Len(t) + 1]
    BY EntriesIs
  <2>2. EntryStep(t, f)[Len(t) + 1] = <<>>
    BY <1>1 DEF EntryStep
  <2> QED BY <2>1, <2>2 DEF EntryLines, LineStarts, Text
<1>3. ASSUME NEW p \in R
      PROVE  Leads(R, S, v, f, next, p)
  <2>1. next[p] = PieceEnd(t, p) /\ next[p] \in p + 1 .. Len(t) + 1
    BY PieceEndIs
  <2>2. /\ ~Skipped(t, p) <=> p \in S
        /\ \A q \in S : q > p => q >= next[p]
    BY <2>1, PieceIs
  <2>3. p \in S => v[p] = EntryOf(t, p)
    OBVIOUS
  <2>4. p \in 1 .. Len(t) + 1 /\ ~(p > Len(t))
    BY <1>1
  <2> HIDE DEF f, next, v, S
  <2>5. f[p] = (IF Skipped(t, p) THEN <<>> ELSE <<EntryOf(t, p)>>) \o f[next[p]]
    <3>1. f[p] = EntryStep(t, f)[p]
      BY EntriesIs DEF f
    <3> QED BY <2>1, <2>4, <3>1 DEF EntryStep, EntryOf
  <2>6. next[p] \notin R => next[p] = Len(t) + 1
    BY <1>1, <2>1
  <2>7. next[p] \in Nat /\ next[p] > p
    BY <1>1, <2>1
  <2>8. f[p] \in (IF p \in S THEN {<<v[p]>> \o f[next[p]]}
                 ELSE {f[next[p]], <<>> \o f[next[p]]})
    BY <2>2, <2>3, <2>5
  <2> QED BY <1>2, <2>2, <2>6, <2>7, <2>8 DEF Leads, f
<1>4. \A p \in R : \E n, e : Listed(S, v, f[p], p, n, e)
  <2> HIDE DEF S, v, R, next, f
  <2> QED BY <1>1, <1>3, AllListed
<1>5. \E n, e : Listed(S, v, f[1], 1, n, e)
  <2>1. CASE Len(t) = 0
    <3>1. f[1] = <<>> /\ \A q \in S : ~(q >= 1)
      BY <1>2, <2>1
    <3> HIDE DEF S, v, f
    <3>2. Listed(S, v, <<>>, 1, 0, <<>>)
      BY <3>1, NoneListed
    <3> QED BY <3>1, <3>2
  <2>2. CASE Len(t) # 0
    <3>1. 1 \in R
      BY <1>1, <2>2
    <3> HIDE DEF S, v, R, next, f
    <3> QED BY <1>4, <3>1
  <2> QED BY <2>1, <2>2
<1>6. PICK n, e : Listed(S, v, f[1], 1, n, e)
  BY <1>5
<1>7. EntriesFrom(t, 1, n, e)
  BY <1>6, EntriesListed
<1> QED BY <1>7

(* A set is as large as the numbers that number it.                         *)
LEMMA Numbered ==
  ASSUME NEW S, NEW n \in Nat, NEW e \in [1 .. n -> S],
         \A i, j \in 1 .. n : e[i] = e[j] => i = j,
         \A q \in S : \E i \in 1 .. n : e[i] = q
  PROVE  Cardinality(S) = n
<1>1. e \in Bijection(1 .. n, S)
  BY DEF Bijection, Injection, IsInjective, Surjection
<1>2. ExistsBijection(1 .. n, S)
  BY <1>1 DEF ExistsBijection
<1>3. IsFiniteSet(1 .. n) /\ Cardinality(1 .. n) = n
  BY FS_Interval
<1> QED BY <1>2, <1>3, FS_Bijection

(* As many lines are before the i-th as there are numbers before i.        *)
LEMMA LinesCounted ==
  ASSUME NEW t \in Text, NEW n, NEW e, EntriesFrom(t, 1, n, e)
  PROVE  /\ Cardinality(EntryLines(t)) = n
         /\ \A i \in 1 .. n : Cardinality(Before(t, e[i])) = i - 1
<1>1. /\ n \in Nat /\ e \in [1 .. n -> EntryLines(t)]
      /\ \A i, j \in 1 .. n : i < j => e[i] < e[j]
      /\ \A q \in EntryLines(t) : q >= 1 => \E i \in 1 .. n : e[i] = q
  BY DEF EntriesFrom, Through
<1>2. EntryLines(t) \subseteq Nat \ {0}
  BY DEF EntryLines, LineStarts, Text
<1>3. \A q \in EntryLines(t) : \E i \in 1 .. n : e[i] = q
  BY <1>1, <1>2
<1>4. ASSUME NEW i \in 1 .. n, NEW j \in 1 .. n, e[i] < e[j] \/ e[i] = e[j]
      PROVE  i < j \/ i = j
  <2>1. e[i] \in Nat /\ e[j] \in Nat
    BY <1>1, <1>2
  <2>2. ~(j < i)
    BY <1>1, <1>4, <2>1
  <2> QED BY <2>2
<1>5. \A i, j \in 1 .. n : e[i] = e[j] => i = j
  <2> TAKE i \in 1 .. n, j \in 1 .. n
  <2> HAVE e[i] = e[j]
  <2>1. (i < j \/ i = j) /\ (j < i \/ j = i)
    BY <1>4
  <2> QED BY <2>1
<1>6. Cardinality(EntryLines(t)) = n
  BY <1>1, <1>3, <1>5, Numbered
<1>7. ASSUME NEW i \in 1 .. n
      PROVE  Cardinality(Before(t, e[i])) = i - 1
  <2> DEFINE S == Before(t, e[i])
             m == i - 1
             f == [j \in 1 .. m |-> e[j]]
  <2>1. m \in Nat /\ \A j \in 1 .. m : j \in 1 .. n /\ j < i /\ f[j] = e[j]
    BY <1>1
  <2>2. f \in [1 .. m -> S]
    BY <1>1, <2>1 DEF Before
  <2>3. \A j, k \in 1 .. m : f[j] = f[k] => j = k
    BY <1>5, <2>1
  <2>4. ASSUME NEW q \in S
        PROVE  \E j \in 1 .. m : f[j] = q
    <3>1. PICK j \in 1 .. n : e[j] = q
      BY <1>3 DEF Before
    <3>2. e[j] < e[i] /\ e[j] \in Nat /\ e[i] \in Nat
      BY <1>1, <1>2, <3>1 DEF Before
    <3>3. (j < i \/ j = i) /\ j # i
      BY <1>4, <3>2
    <3>4. j \in 1 .. m
      BY <1>1, <3>3
    <3> QED BY <2>1, <3>1, <3>4
  <2> HIDE DEF S, m, f
  <2>5. Cardinality(S) = m
    BY <2>1, <2>2, <2>3, <2>4, Numbered
  <2> QED BY <2>5 DEF S, m
<1> QED BY <1>6, <1>7

(* parse keeps the first of them, as many as there is room for.             *)
LEMMA ParseIs ==
  ASSUME NEW t \in Text, NEW n, NEW e, EntriesFrom(t, 1, n, e)
  PROVE  \E m \in 0 .. n :
           /\ m = n \/ m = MaxEntries
           /\ m <= MaxEntries
           /\ Len(ParseConf(t)) = m /\ DOMAIN ParseConf(t) = 1 .. m
           /\ \A i \in 1 .. m : ParseConf(t)[i] = EntryOf(t, e[i])
<1> DEFINE V == {EntryOf(t, q) : q \in EntryLines(t)}
           all == Entries(t)[1]
           T == {MaxEntries, n}
           c == ParseConf(t)
<1>1. /\ n \in Nat /\ all \in Seq(V) /\ Len(all) = n
      /\ \A i \in 1 .. n : all[i] = EntryOf(t, e[i])
  BY DEF EntriesFrom
<1>2. MaxEntries \in Nat
  BY ConfigAssumption
<1> DEFINE m == Min(T)
<1>3. m \in T /\ \A k \in T : m <= k
  <2>1. T \subseteq Nat /\ T # {}
    BY <1>1, <1>2
  <2> HIDE DEF T
  <2> QED BY <2>1, MinIs
<1> HIDE DEF m
<1>4. m \in 0 .. n /\ m <= MaxEntries /\ (m = n \/ m = MaxEntries)
  BY <1>1, <1>2, <1>3
<1>5. c = SubSeq(all, 1, m)
  BY <1>1 DEF ParseConf, m
<1> HIDE DEF c, V, all
<1>6. \A i \in 1 .. m : all[i] \in V
  BY <1>1, <1>4
<1>7. /\ c \in Seq(V) /\ Len(c) = m
      /\ \A i \in 1 .. m : c[i] = all[i]
  <2>1. 1 \in Int /\ m \in Int
    BY <1>4
  <2>2. /\ c \in Seq(V) /\ Len(c) = IF 1 <= m THEN m - 1 + 1 ELSE 0
        /\ \A i \in 1 .. m - 1 + 1 : c[i] = all[1 + i - 1]
    BY <1>5, <1>6, <2>1, SubSeqProperties
  <2>3. m - 1 + 1 = m /\ \A i \in 1 .. m : 1 + i - 1 = i
    BY <1>4
  <2>4. Len(c) = m
    BY <1>4, <2>2
  <2> QED BY <2>2, <2>3, <2>4
<1>8. DOMAIN c = 1 .. m
  BY <1>7, LenProperties
<1>9. \A i \in 1 .. m : c[i] = EntryOf(t, e[i])
  BY <1>1, <1>4, <1>7
<1> QED BY <1>4, <1>7, <1>8, <1>9 DEF c

LEMMA EntryOfIs ==
  ASSUME NEW t \in Text, NEW p \in EntryLines(t)
  PROVE  EntryOf(t, p).value \in Text
<1>1. p \in 1 .. Len(t) /\ Len(t) \in Nat
  BY DEF EntryLines, LineStarts, Text
<1>2. PieceEnd(t, p) \in p + 1 .. Len(t) + 1
  BY <1>1, PieceEndIs
<1>3. Between(t, p, PieceEnd(t, p)) \in Text
  BY <1>1, <1>2, BetweenIs
<1> QED BY <1>3, EntryIs DEF EntryOf

(* get finds the value of the first line of a key.                          *)
LEMMA GetIs ==
  ASSUME NEW t \in Text
  PROVE  /\ \A p \in EntryLines(t) :
              FirstOfItsKey(t, p) /\ Cardinality(Before(t, p)) < MaxEntries
                => Get(ParseConf(t), EntryOf(t, p).key) = EntryOf(t, p).value
         /\ Len(ParseConf(t)) <= Cardinality(EntryLines(t))
         /\ \A key : Get(ParseConf(t), key) \in Text
<1> DEFINE c == ParseConf(t)
           First(key) == {i \in DOMAIN c : c[i].key = key}
<1>1. PICK n, e : EntriesFrom(t, 1, n, e)
  BY AllEntries
<1>2. /\ n \in Nat /\ e \in [1 .. n -> EntryLines(t)] /\ EntryLines(t) \subseteq Nat \ {0}
      /\ \A i, j \in 1 .. n : i < j => e[i] < e[j]
      /\ \A q \in EntryLines(t) : q >= 1 => \E i \in 1 .. n : e[i] = q
  BY <1>1 DEF EntriesFrom, Through, EntryLines, LineStarts, Text
<1>3. PICK m \in 0 .. n : /\ m = n \/ m = MaxEntries
                          /\ m <= MaxEntries
                          /\ Len(c) = m /\ DOMAIN c = 1 .. m
                          /\ \A i \in 1 .. m : c[i] = EntryOf(t, e[i])
  BY <1>1, ParseIs
<1>4. /\ Cardinality(EntryLines(t)) = n
      /\ \A i \in 1 .. n : Cardinality(Before(t, e[i])) = i - 1
  BY <1>1, LinesCounted
<1> HIDE DEF c
<1>5. ASSUME NEW key, Has(c, key)
      PROVE  /\ Min(First(key)) \in First(key) /\ \A i \in First(key) : Min(First(key)) <= i
             /\ Get(c, key) = c[Min(First(key))].value
  <2>1. First(key) \subseteq Nat /\ First(key) # {}
    BY <1>2, <1>3, <1>5 DEF Has
  <2>2. Get(c, key) = c[Min(First(key))].value
    BY <1>5 DEF Get
  <2> HIDE DEF First
  <2> QED BY <2>1, <2>2, MinIs
<1>6. ASSUME NEW p \in EntryLines(t), FirstOfItsKey(t, p), Cardinality(Before(t, p)) < MaxEntries
      PROVE  Get(c, EntryOf(t, p).key) = EntryOf(t, p).value
  <2> DEFINE key == EntryOf(t, p).key
  <2>1. PICK i \in 1 .. n : e[i] = p
    BY <1>2
  <2>2. i \in 1 .. m
    <3>1. MaxEntries \in Nat /\ i - 1 < MaxEntries
      BY <1>4, <1>6, <2>1, ConfigAssumption
    <3> QED BY <1>2, <1>3, <3>1
  <2>3. c[i] = EntryOf(t, p)
    BY <1>3, <2>1, <2>2
  <2>4. i \in First(key) /\ Has(c, key)
    BY <1>3, <2>2, <2>3 DEF Has
  <2>5. ASSUME NEW j \in First(key), j <= i
        PROVE  j = i
    <3>1. j \in 1 .. m /\ j \in 1 .. n /\ c[j].key = key /\ c[j] = EntryOf(t, e[j])
      BY <1>2, <1>3
    <3>2. CASE j < i
      <4>1. e[j] \in Before(t, p)
        BY <1>2, <2>1, <3>1, <3>2 DEF Before
      <4>2. EntryOf(t, e[j]).key # key
        BY <1>6, <4>1 DEF FirstOfItsKey
      <4> QED BY <3>1, <4>2
    <3> QED BY <1>2, <2>1, <2>5, <3>1, <3>2
  <2> HIDE DEF First, key
  <2>6. Min(First(key)) = i /\ Get(c, key) = c[Min(First(key))].value
    BY <1>5, <2>4, <2>5
  <2> QED BY <2>3, <2>6 DEF key
<1>7. ASSUME NEW key
      PROVE  Get(c, key) \in Text
  <2>1. CASE Has(c, key)
    <3> DEFINE i == Min(First(key))
    <3>1. i \in 1 .. m /\ Get(c, key) = c[i].value
      BY <1>3, <1>5, <2>1
    <3> HIDE DEF i
    <3>2. c[i] = EntryOf(t, e[i]) /\ e[i] \in EntryLines(t)
      BY <1>2, <1>3, <3>1
    <3> QED BY <3>1, <3>2, EntryOfIs
  <2>2. CASE ~Has(c, key)
    BY <2>2, EmptySeq DEF Get, None, Text
  <2> QED BY <2>1, <2>2
<1>8. Len(c) <= Cardinality(EntryLines(t))
  BY <1>2, <1>3, <1>4
<1> QED BY <1>6, <1>7, <1>8 DEF c

----------------------------------------------------------------------------
(* Config: what memory_init is asked for.                                   *)

(* The value of the digits is a number.                                     *)
ValuesStep(chars, f) ==
  [i \in 0 .. Len(chars) |->
     IF i = 0 THEN 0
     ELSE IF chars[i] \in Digits THEN 10 * f[i - 1] + DigitOf[chars[i]]
     ELSE f[i - 1]]

LEMMA ValueIs ==
  ASSUME NEW chars \in Text
  PROVE  Value(chars) \in Nat
<1> DEFINE Good(f, k) == /\ f \in [0 .. Len(chars) -> Nat]
                         /\ \A i \in 0 .. k : f[i] = ValuesStep(chars, f)[i]
           T == {k \in Nat : k <= Len(chars) => \E f : Good(f, k)}
           U(f) == {k \in Nat : k <= Len(chars) => f[k] \in Nat}
<1>1. Len(chars) \in Nat
  BY DEF Text
<1>2. \A c \in Digits : DigitOf[c] \in Nat
  BY DEF DigitOf, Digits
<1>3. 0 \in T
  <2> DEFINE f == [i \in 0 .. Len(chars) |-> 0]
  <2>1. f \in [0 .. Len(chars) -> Nat] /\ f[0] = 0 /\ ValuesStep(chars, f)[0] = 0
    BY <1>1 DEF ValuesStep
  <2>2. Good(f, 0)
    <3> HIDE DEF f
    <3> QED BY <2>1
  <2> QED BY <2>2
<1>4. ASSUME NEW k \in Nat, k \in T
      PROVE  k + 1 \in T
  <2> SUFFICES ASSUME k + 1 <= Len(chars)
               PROVE  \E f : Good(f, k + 1)
    OBVIOUS
  <2>1. PICK f : Good(f, k)
    BY <1>1, <1>4
  <2> DEFINE v == IF chars[k + 1] \in Digits THEN 10 * f[k] + DigitOf[chars[k + 1]] ELSE f[k]
             g == [i \in 0 .. Len(chars) |-> IF i = k + 1 THEN v ELSE f[i]]
  <2>2. f[k] \in Nat /\ v \in Nat
    <3>1. f[k] \in Nat
      BY <1>1, <2>1
    <3> QED BY <1>2, <3>1
  <2>3. g \in [0 .. Len(chars) -> Nat]
    <3> HIDE DEF v
    <3> QED BY <2>1, <2>2
  <2>4. \A i \in 0 .. k : g[i] = f[i] /\ i \in 0 .. Len(chars)
    BY <1>1
  <2>5. g[k + 1] = v /\ k + 1 \in 0 .. Len(chars) /\ (k + 1) - 1 = k /\ k \in 0 .. k /\ k + 1 # 0
    BY <1>1
  <2> HIDE DEF g
  <2>6. ASSUME NEW i \in 0 .. k + 1
        PROVE  g[i] = ValuesStep(chars, g)[i]
    <3>1. CASE i = k + 1
      <4>1. g[(k + 1) - 1] = f[k]
        BY <2>4, <2>5
      <4> QED BY <2>5, <3>1, <4>1 DEF ValuesStep
    <3>2. CASE i = 0
      <4>1. g[0] = f[0] /\ f[0] = ValuesStep(chars, f)[0] /\ 0 \in 0 .. Len(chars)
        BY <1>1, <2>1, <2>4
      <4> QED BY <3>2, <4>1 DEF ValuesStep
    <3>3. CASE i # k + 1 /\ i # 0
      <4>1. i \in 0 .. k /\ i - 1 \in 0 .. k /\ i \in 0 .. Len(chars)
        BY <1>1, <3>3
      <4>2. f[i] = ValuesStep(chars, f)[i] /\ g[i] = f[i] /\ g[i - 1] = f[i - 1]
        BY <2>1, <2>4, <4>1
      <4>3. ValuesStep(chars, f)[i] = ValuesStep(chars, g)[i]
        BY <4>1, <4>2 DEF ValuesStep
      <4> QED BY <4>2, <4>3
    <3> QED BY <3>1, <3>2, <3>3
  <2>7. Good(g, k + 1)
    BY <2>3, <2>6
  <2> QED BY <2>7
<1>5. Len(chars) \in T
  <2> HIDE DEF T
  <2>1. Nat \subseteq T
    BY <1>3, <1>4, Induction
  <2> QED BY <1>1, <2>1
<1>6. PICK f : Good(f, Len(chars))
  BY <1>1, <1>5
<1>7. f = ValuesStep(chars, f)
  BY <1>6 DEF ValuesStep
<1>8. Values(chars) = CHOOSE h : h = ValuesStep(chars, h)
  BY DEF Values, ValuesStep
<1> DEFINE h == Values(chars)
<1>9. h = ValuesStep(chars, h)
  BY ONLY <1>7, <1>8
<1>10. \A i : h[i] = ValuesStep(chars, h)[i]
  BY <1>9
<1> HIDE DEF h
<1>11. 0 \in U(h)
  <2>1. ValuesStep(chars, h)[0] = 0
    BY <1>1 DEF ValuesStep
  <2> QED BY <1>10, <2>1
<1>12. ASSUME NEW k \in Nat, k \in U(h)
       PROVE  k + 1 \in U(h)
  <2> SUFFICES ASSUME k + 1 <= Len(chars)
               PROVE  h[k + 1] \in Nat
    OBVIOUS
  <2>1. h[k] \in Nat /\ k + 1 \in 0 .. Len(chars) /\ (k + 1) - 1 = k /\ k + 1 # 0
    BY <1>1, <1>12
  <2>2. ValuesStep(chars, h)[k + 1]
          = IF chars[k + 1] \in Digits THEN 10 * h[k] + DigitOf[chars[k + 1]] ELSE h[k]
    BY <2>1 DEF ValuesStep
  <2>3. ValuesStep(chars, h)[k + 1] \in Nat
    BY <1>2, <2>1, <2>2
  <2> QED BY <1>10, <2>3
<1>13. h[Len(chars)] \in Nat
  <2> HIDE DEF U
  <2>1. Nat \subseteq U(h)
    BY <1>11, <1>12, Induction
  <2> QED BY <1>1, <2>1 DEF U
<1> QED BY <1>13 DEF Value, h

LEMMA AtoiIs ==
  ASSUME NEW t \in Text
  PROVE  Atoi(t) \in Nat
<1>1. Len(t) \in Nat /\ 1 <= Len(t) + 1
  BY DEF Text
<1>2. Past(t, 1, Digits) \in Nat /\ Past(t, 1, Digits) <= Len(t) + 1
  BY <1>1, PastIs
<1>3. Between(t, 1, Past(t, 1, Digits)) \in Text
  BY <1>2, BetweenIs
<1> QED BY <1>3, ValueIs DEF Atoi

LEMMA InWordIs ==
  ASSUME NEW n \in Nat, n < Word \div 2
  PROVE  InWord(n) = n
<1> DEFINE half == Word \div 2
<1>1. Word \in Nat \ {0} /\ Word % 2 = 0
  BY ConfigAssumption
<1>2. half \in Nat /\ Word = 2 * half
  BY <1>1
<1>3. n + half \in 0 .. Word - 1
  BY <1>2
<1>4. (n + half) % Word = n + half
  <2> HIDE DEF half
  <2> QED BY <1>1, <1>3
<1>5. InWord(n) = ((n + half) % Word) - half
  BY DEF InWord
<1> HIDE DEF half
<1> QED BY <1>2, <1>4, <1>5

LEMMA TimesIs ==
  ASSUME NEW n \in Nat, NEW factor \in Nat \ {0}
  PROVE  /\ n * factor \in Nat /\ n <= n * factor
         /\ n * factor < Word \div 2 => Times(n, factor) = n * factor
<1>1. n * factor \in Nat
  OBVIOUS
<1>2. n <= n * factor
  OBVIOUS
<1> QED BY <1>1, <1>2, InWordIs DEF Times

(* As long as it is within an int, the memory is what is asked for.         *)
LEMMA MemoryIs ==
  ASSUME NEW size \in Text
  PROVE  \/ MemorySize(size) = Asked(size)
         \/ Asked(size) = 0
         \/ Asked(size) >= Word \div 2
<1> DEFINE K == "K" \in Range(size)
           M == "M" \in Range(size)
           a == Atoi(size)
           square == Kilo * Kilo
           b == a * (IF K THEN Kilo ELSE 1)
           c == b * (IF M THEN square ELSE 1)
           kilos == IF K THEN Times(a, Kilo) ELSE a
           megas == IF M THEN Times(kilos, square) ELSE kilos
<1>1. Kilo \in Nat \ {0} /\ a \in Nat /\ Word \div 2 \in Nat
  BY AtoiIs, ConfigAssumption
<1>2. square \in Nat \ {0}
  BY <1>1
<1>3. /\ Asked(size) = c
      /\ MemorySize(size) = IF megas > 0 THEN megas ELSE InWord(square)
  BY DEF Asked, MemorySize
<1> HIDE DEF K, M, a, square
<1>4. b \in Nat /\ (b < Word \div 2 => kilos = b)
  <2>1. CASE K
    BY <1>1, <2>1, TimesIs
  <2>2. CASE ~K
    BY <1>1, <2>2
  <2> QED BY <2>1, <2>2
<1> HIDE DEF b, kilos
<1>5. c \in Nat /\ b <= c /\ (c < Word \div 2 => megas = c)
  <2>1. CASE M
    <3>1. /\ b * square \in Nat /\ b <= b * square
          /\ b * square < Word \div 2 => Times(b, square) = b * square
      BY <1>2, <1>4, TimesIs
    <3>2. c = b * square /\ megas = Times(kilos, square)
      BY <2>1
    <3> HIDE DEF c, megas
    <3>3. c < Word \div 2 => b < Word \div 2
      BY <1>1, <1>4, <3>1, <3>2
    <3> QED BY <1>4, <3>1, <3>2, <3>3
  <2>2. CASE ~M
    BY <1>4, <2>2
  <2> QED BY <2>1, <2>2
<1> HIDE DEF c, megas
<1> QED BY <1>1, <1>3, <1>5

----------------------------------------------------------------------------
(* The text in file is one, and memory what get_memory_size makes of it.    *)
ConfInv ==
  /\ file \in Text
  /\ memory > 0 => memory = MemorySize(Get(conf, <<"memory_size">>))

LEMMA ConfInvSuffices == ConfInv => ConfRead
<1> SUFFICES ASSUME ConfInv PROVE ConfRead
  OBVIOUS
<1> DEFINE size == Get(conf, <<"memory_size">>)
<1>1. size \in Text
  BY GetIs DEF ConfInv, conf
<1> HIDE DEF size
<1>2. \/ MemorySize(size) = Asked(size)
      \/ Asked(size) = 0
      \/ Asked(size) >= Word \div 2
  BY <1>1, MemoryIs
<1>3. memory > 0 => memory = MemorySize(size)
  BY DEF ConfInv, size
<1> QED BY <1>2, <1>3, GetIs DEF ConfInv, ConfRead, conf, size

(* cnf.hpp: however long the file and its lines are, a line gives one entry, *)
(* the first of a key counts, and memory_init is asked for what the file says.*)
THEOREM ConfSafe == BootSpec => []ConfRead
<1>1. BootInit => ConfInv
  BY BootAssumption DEF BootInit, ConfInv, Text, Char
<1>2. ConfInv /\ [BootNext \/ Later]_bootVars => ConfInv'
  <2> SUFFICES ASSUME ConfInv, [BootNext \/ Later]_bootVars
               PROVE  ConfInv'
    OBVIOUS
  <2>1. CASE SetUp
    BY <2>1 DEF SetUp, ConfInv, conf
  <2>2. CASE Connect
    BY <2>2, EmptySeq DEF Connect, ConfInv, Text
  <2>3. CASE TryExplode \/ TryTasks \/ GoOn \/ Later \/ UNCHANGED bootVars
    BY <2>3 DEF TryExplode, TryTasks, Tried, GoOn, Later, bootVars, ConfInv, conf
  <2> QED BY <2>1, <2>2, <2>3 DEF BootNext
<1> QED BY <1>1, <1>2, ConfInvSuffices, PTL DEF BootSpec

----------------------------------------------------------------------------
(* A step on functions of places, what it makes of a place resting on later   *)
(* places only, leaves one of them as it is.                                *)
LEMMA Settles ==
  ASSUME NEW N \in Nat, NEW F, NEW f0 \in F, NEW step \in [F -> F],
         \A f \in F : f = [p \in 1 .. N |-> f[p]],
         \A f, g \in F : \A p \in 1 .. N :
           (\A q \in 1 .. N : q > p => f[q] = g[q]) => step[f][p] = step[g][p]
  PROVE  \E f \in F : f = step[f]
<1> DEFINE Holds(f, k) == \A p \in 1 .. N : p > N - k => f[p] = step[f][p]
           T == {k \in Nat : \E f \in F : Holds(f, k)}
<1>1. 0 \in T
  <2>1. Holds(f0, 0)
    OBVIOUS
  <2> QED BY <2>1
<1>2. ASSUME NEW k \in Nat, k \in T
      PROVE  k + 1 \in T
  <2>1. PICK f \in F : Holds(f, k)
    BY <1>2
  <2> DEFINE g == step[f]
  <2>2. g \in F
    OBVIOUS
  <2>3. \A p \in 1 .. N : p > N - k => f[p] = g[p]
    BY <2>1
  <2>4. ASSUME NEW p \in 1 .. N, p > N - (k + 1)
        PROVE  g[p] = step[g][p]
    <3>1. \A q \in 1 .. N : q > p => f[q] = g[q]
      <4>1. \A q \in 1 .. N : q > p => q > N - k
        BY <2>4
      <4> QED BY <2>3, <4>1
    <3>2. step[f][p] = step[g][p]
      <4> HIDE DEF g
      <4> QED BY <2>2, <3>1
    <3> QED BY <3>2
  <2>5. Holds(g, k + 1)
    BY <2>4
  <2> QED BY <2>2, <2>5
<1>3. N \in T
  <2> HIDE DEF T
  <2> QED BY <1>1, <1>2, Induction
<1>4. PICK f \in F : Holds(f, N)
  BY <1>3
<1>5. \A p \in 1 .. N : f[p] = step[f][p]
  <2>1. \A p \in 1 .. N : p > N - N
    OBVIOUS
  <2> QED BY <1>4, <2>1
<1>6. f = [p \in 1 .. N |-> f[p]] /\ step[f] = [p \in 1 .. N |-> step[f][p]]
  OBVIOUS
<1>7. f = step[f]
  BY <1>5, <1>6
<1> QED BY <1>7

----------------------------------------------------------------------------
(* The lines of a level list.                                              *)

LEMMA PlaceIs ==
  ASSUME NEW t \in Text, NEW c, NEW p \in Nat \ {0}
  PROVE  /\ Place(t, c, p) \in Nat
         /\ Place(t, c, p) = 0 => \A q \in p .. Len(t) : t[q] # c
         /\ Place(t, c, p) # 0 =>
              /\ Place(t, c, p) \in p .. Len(t)
              /\ t[Place(t, c, p)] = c
              /\ \A q \in p .. Len(t) : q < Place(t, c, p) => t[q] # c
<1> DEFINE T == {q \in p .. Len(t) : t[q] = c}
           m == Place(t, c, p)
<1>1. Len(t) \in Nat /\ T \in SUBSET Nat /\ 0 \notin T
  BY DEF Text
<1>2. m = IF T = {} THEN 0 ELSE Min(T)
  BY DEF Place
<1>3. CASE T = {}
  BY <1>2, <1>3
<1>4. CASE T # {}
  <2>1. m \in T /\ \A q \in T : m <= q
    <3> HIDE DEF T, m
    <3> QED BY <1>1, <1>2, <1>4, MinIs
  <2> HIDE DEF m
  <2>2. m \in p .. Len(t) /\ t[m] = c /\ m # 0 /\ m \in Nat
    BY <1>1, <2>1
  <2>3. \A q \in p .. Len(t) : q < m => q \notin T
    BY <1>1, <2>1, <2>2
  <2>4. \A q \in p .. Len(t) : q < m => t[q] # c
    BY <2>3
  <2> QED BY <2>2, <2>4 DEF m
<1> QED BY <1>3, <1>4

Row == [left : Nat, right : Nat]

LEMMA LineIs ==
  ASSUME NEW l \in Text, NEW r \in Text
  PROVE  Line(l, r) \in Row
<1>1. Value(l) \in Nat /\ Value(r) \in Nat
  BY ValueIs
<1> QED BY <1>1 DEF Line, Row

Stop(t, p) == IF Place(t, "\n", p) > Colon(t, p) THEN Place(t, "\n", p) ELSE Len(t) + 1
ColonLine(t, p) ==
  Line(SubSeq(t, p, Colon(t, p) - 1), SubSeq(t, Colon(t, p) + 1, Stop(t, p) - 1))

(* Where formatLine goes on, and that it goes on.                           *)
LEMMA LineGoesOn ==
  ASSUME NEW t \in Text, NEW p \in 1 .. Len(t)
  PROVE  /\ Len(t) \in Nat
         /\ Colon(t, p) # 0 => /\ Colon(t, p) \in p .. Len(t)
                               /\ Stop(t, p) \in p .. Len(t) + 1
                               /\ ColonLine(t, p) \in Row
         /\ Place(t, "\n", p) # 0 => Place(t, "\n", p) \in p .. Len(t)
<1> DEFINE end == Place(t, "\n", p)
           colon == Colon(t, p)
           stop == Stop(t, p)
           l == Between(t, p, colon)
           r == Between(t, colon + 1, stop)
<1>1. Len(t) \in Nat /\ p \in Nat \ {0}
  BY DEF Text
<1>2. end \in Nat /\ (end # 0 => end \in p .. Len(t))
  BY <1>1, PlaceIs
<1>3. colon # 0 => colon \in p .. Len(t)
  BY <1>1, PlaceIs DEF Colon
<1>4. colon = 0 \/ colon \in p .. Len(t)
  BY <1>3
<1>5. colon # 0 => stop \in p .. Len(t) + 1
  <2> HIDE DEF colon, end
  <2> QED BY <1>1, <1>2, <1>4 DEF Stop, colon, end
<1>6. ASSUME colon # 0 PROVE ColonLine(t, p) \in Row
  <2>1. l \in Text
    <3> HIDE DEF colon
    <3> QED BY <1>1, <1>3, <1>6, BetweenIs
  <2>2. r \in Text
    <3>1. colon + 1 \in Nat \ {0} /\ stop \in Nat /\ stop <= Len(t) + 1
      <4> HIDE DEF colon, stop
      <4> QED BY <1>1, <1>3, <1>5, <1>6
    <3> HIDE DEF colon, stop
    <3> QED BY <3>1, BetweenIs
  <2>3. ColonLine(t, p) = Line(l, r)
    BY DEF ColonLine, Between
  <2> QED BY <2>1, <2>2, <2>3, LineIs
<1> QED BY <1>1, <1>2, <1>3, <1>5, <1>6

LineStep(t, f) ==
  [p \in 1 .. Len(t) + 2 |->
     LET end == Place(t, "\n", p)
         colon == Colon(t, p)
         stop == IF end > colon THEN end ELSE Len(t) + 1
     IN  CASE p > Len(t) -> <<>>
           [] p <= Len(t) /\ colon # 0 ->
                <<Line(SubSeq(t, p, colon - 1), SubSeq(t, colon + 1, stop - 1))>>
                  \o f[stop + 1]
           [] p <= Len(t) /\ colon = 0 /\ end # 0 -> f[end + 1]
           [] OTHER -> f[p + 1]]

LEMMA LineStepIs ==
  ASSUME NEW t \in Text, NEW f, NEW p \in 1 .. Len(t) + 2
  PROVE  /\ p > Len(t) => LineStep(t, f)[p] = <<>>
         /\ p <= Len(t) /\ Colon(t, p) # 0 =>
              LineStep(t, f)[p] = <<ColonLine(t, p)>> \o f[Stop(t, p) + 1]
         /\ p <= Len(t) /\ Colon(t, p) = 0 /\ Place(t, "\n", p) # 0 =>
              LineStep(t, f)[p] = f[Place(t, "\n", p) + 1]
         /\ p <= Len(t) /\ Colon(t, p) = 0 /\ Place(t, "\n", p) = 0 =>
              LineStep(t, f)[p] = f[p + 1]
<1> DEFINE end == Place(t, "\n", p)
           colon == Colon(t, p)
           stop == Stop(t, p)
           one == <<ColonLine(t, p)>>
<1>1. Len(t) \in Nat
  BY DEF Text
<1>2. LineStep(t, f)[p] =
        CASE p > Len(t) -> <<>>
          [] p <= Len(t) /\ colon # 0 -> one \o f[stop + 1]
          [] p <= Len(t) /\ colon = 0 /\ end # 0 -> f[end + 1]
          [] OTHER -> f[p + 1]
  BY DEF LineStep, Stop, ColonLine
<1> HIDE DEF end, colon, stop, one
<1>3. p > Len(t) => ~(p <= Len(t))
  BY <1>1
<1>4. /\ p > Len(t) => LineStep(t, f)[p] = <<>>
      /\ p <= Len(t) /\ colon # 0 => LineStep(t, f)[p] = one \o f[stop + 1]
      /\ p <= Len(t) /\ colon = 0 /\ end # 0 => LineStep(t, f)[p] = f[end + 1]
      /\ p <= Len(t) /\ colon = 0 /\ end = 0 => LineStep(t, f)[p] = f[p + 1]
  BY <1>2, <1>3
<1> QED BY <1>4 DEF end, colon, stop, one

LEMMA LinesIs ==
  ASSUME NEW t \in Text
  PROVE  LinesFrom(t) = LineStep(t, LinesFrom(t))
<1> DEFINE N == Len(t) + 2
           V == Seq(Row)
           F == [1 .. N -> V]
           f0 == [p \in 1 .. N |-> <<>>]
           step == [f \in F |-> LineStep(t, f)]
<1>1. Len(t) \in Nat /\ N \in Nat
  BY DEF Text
<1>2. <<>> \in V
  BY EmptySeq
<1>3. ASSUME NEW f \in F
      PROVE  LineStep(t, f) \in F
  <2>1. LineStep(t, f) = [p \in 1 .. N |-> LineStep(t, f)[p]]
    BY DEF LineStep
  <2>2. ASSUME NEW p \in 1 .. N
        PROVE  LineStep(t, f)[p] \in V
    <3> DEFINE end == Place(t, "\n", p)
               colon == Colon(t, p)
               stop == Stop(t, p)
               first == ColonLine(t, p)
    <3> HIDE DEF end, colon, stop, first
    <3>0. \A q \in 1 .. N : f[q] \in V
      OBVIOUS
    <3>1. CASE p > Len(t)
      BY <1>2, <3>1, LineStepIs
    <3>2. CASE p <= Len(t) /\ colon # 0
      <4>1. p \in 1 .. Len(t) /\ stop \in p .. Len(t) + 1 /\ first \in Row
        <5>1. p \in 1 .. Len(t)
          BY <1>1, <3>2
        <5> QED BY <3>2, <5>1, LineGoesOn DEF colon, stop, first
      <4>2. stop + 1 \in 1 .. N
        BY <1>1, <4>1
      <4>3. <<first>> \in V /\ f[stop + 1] \in V
        BY <3>0, <4>1, <4>2
      <4>4. <<first>> \o f[stop + 1] \in V
        BY <4>3, ConcatProperties
      <4>5. LineStep(t, f)[p] = <<first>> \o f[stop + 1]
        BY <3>2, LineStepIs DEF colon, stop, first
      <4> QED BY <4>4, <4>5
    <3>3. CASE p <= Len(t) /\ colon = 0 /\ end # 0
      <4>1. p \in 1 .. Len(t)
        BY <1>1, <3>3
      <4>2. end \in p .. Len(t)
        BY <3>3, <4>1, LineGoesOn DEF end
      <4>3. end + 1 \in 1 .. N
        BY <1>1, <4>1, <4>2
      <4>4. LineStep(t, f)[p] = f[end + 1]
        BY <3>3, LineStepIs DEF colon, end
      <4> QED BY <3>0, <4>3, <4>4
    <3>4. CASE p <= Len(t) /\ colon = 0 /\ end = 0
      <4>1. p + 1 \in 1 .. N
        BY <1>1, <3>4
      <4>2. LineStep(t, f)[p] = f[p + 1]
        BY <3>4, LineStepIs DEF colon, end
      <4> QED BY <3>0, <4>1, <4>2
    <3> QED BY <1>1, <3>1, <3>2, <3>3, <3>4
  <2> QED BY <2>1, <2>2
<1>4. ASSUME NEW f \in F, NEW g \in F, NEW p \in 1 .. N, \A q \in 1 .. N : q > p => f[q] = g[q]
      PROVE  LineStep(t, f)[p] = LineStep(t, g)[p]
  <2> DEFINE end == Place(t, "\n", p)
             colon == Colon(t, p)
             stop == Stop(t, p)
  <2> HIDE DEF end, colon, stop
  <2>1. CASE p > Len(t)
    BY <2>1, LineStepIs
  <2>2. CASE p <= Len(t) /\ colon # 0
    <3>1. p \in 1 .. Len(t)
      BY <1>1, <2>2
    <3>2. stop \in p .. Len(t) + 1
      BY <2>2, <3>1, LineGoesOn DEF colon, stop
    <3>3. stop + 1 \in 1 .. N /\ stop + 1 > p
      BY <1>1, <3>1, <3>2
    <3>4. f[stop + 1] = g[stop + 1]
      BY <1>4, <3>3
    <3>5. /\ LineStep(t, f)[p] = <<ColonLine(t, p)>> \o f[stop + 1]
          /\ LineStep(t, g)[p] = <<ColonLine(t, p)>> \o g[stop + 1]
      BY <2>2, LineStepIs DEF colon, stop
    <3> QED BY <3>4, <3>5
  <2>3. CASE p <= Len(t) /\ colon = 0 /\ end # 0
    <3>1. p \in 1 .. Len(t)
      BY <1>1, <2>3
    <3>2. end \in p .. Len(t)
      BY <2>3, <3>1, LineGoesOn DEF end
    <3>3. end + 1 \in 1 .. N /\ end + 1 > p
      BY <1>1, <3>1, <3>2
    <3>4. f[end + 1] = g[end + 1]
      BY <1>4, <3>3
    <3>5. LineStep(t, f)[p] = f[end + 1] /\ LineStep(t, g)[p] = g[end + 1]
      BY <2>3, LineStepIs DEF colon, end
    <3> QED BY <3>4, <3>5
  <2>4. CASE p <= Len(t) /\ colon = 0 /\ end = 0
    <3>1. p + 1 \in 1 .. N /\ p + 1 > p
      BY <1>1, <2>4
    <3>2. f[p + 1] = g[p + 1]
      BY <1>4, <3>1
    <3>3. LineStep(t, f)[p] = f[p + 1] /\ LineStep(t, g)[p] = g[p + 1]
      BY <2>4, LineStepIs DEF colon, end
    <3> QED BY <3>2, <3>3
  <2> QED BY <1>1, <2>1, <2>2, <2>3, <2>4
<1>5. f0 \in F /\ \A f \in F : f = [p \in 1 .. N |-> f[p]]
  BY <1>2
<1>6. step \in [F -> F] /\ \A f \in F : step[f] = LineStep(t, f)
  BY <1>3
<1>7. \A f, g \in F : \A p \in 1 .. N :
        (\A q \in 1 .. N : q > p => f[q] = g[q]) => step[f][p] = step[g][p]
  <2> HIDE DEF step, F, N
  <2> QED BY <1>4, <1>6
<1>8. \E f \in F : f = step[f]
  <2> HIDE DEF step, F, N, f0
  <2> QED BY <1>1, <1>5, <1>6, <1>7, Settles
<1>9. \E h : h = LineStep(t, h)
  <2> HIDE DEF step, F
  <2> QED BY <1>6, <1>8
<1>10. LinesFrom(t) = CHOOSE h : h = LineStep(t, h)
  BY DEF LinesFrom, LineStep
<1> QED BY ONLY <1>9, <1>10

(* Without a colon or a line end nothing comes any more.                    *)
LEMMA NothingLeft ==
  ASSUME NEW t \in Text, NEW p \in 1 .. Len(t) + 2,
         \A q \in p .. Len(t) : t[q] # ":" /\ t[q] # "\n"
  PROVE  LinesFrom(t)[p] = <<>>
<1> DEFINE f == LinesFrom(t)
           T == {k \in Nat : \A r \in p .. Len(t) + 2 : r > Len(t) - k => f[r] = <<>>}
<1>1. Len(t) \in Nat
  BY DEF Text
<1>2. \A r \in 1 .. Len(t) + 2 : f[r] = LineStep(t, f)[r]
  BY LinesIs
<1> HIDE DEF f
<1>3. 0 \in T
  <2>1. ASSUME NEW r \in p .. Len(t) + 2, r > Len(t) - 0
        PROVE  f[r] = <<>>
    <3>1. r \in 1 .. Len(t) + 2 /\ r > Len(t)
      BY <1>1, <2>1
    <3> QED BY <1>2, <3>1, LineStepIs
  <2> QED BY <2>1
<1>4. ASSUME NEW k \in Nat, k \in T
      PROVE  k + 1 \in T
  <2>1. ASSUME NEW r \in p .. Len(t) + 2, r > Len(t) - (k + 1)
        PROVE  f[r] = <<>>
    <3>1. r \in 1 .. Len(t) + 2 /\ r \in Nat \ {0}
      BY <1>1
    <3>2. CASE r > Len(t)
      BY <1>2, <3>1, <3>2, LineStepIs
    <3>3. CASE r <= Len(t)
      <4>1. r + 1 \in p .. Len(t) + 2 /\ r + 1 > Len(t) - k
        BY <1>1, <2>1, <3>3
      <4>2. f[r + 1] = <<>>
        BY <1>4, <4>1
      <4>3. \A q \in r .. Len(t) : t[q] # ":" /\ t[q] # "\n"
        BY <1>1
      <4>4. Place(t, ":", r) = 0 /\ Place(t, "\n", r) = 0
        <5>1. \A c : Place(t, c, r) # 0 =>
                       Place(t, c, r) \in r .. Len(t) /\ t[Place(t, c, r)] = c
          BY <3>1, PlaceIs
        <5> QED BY <4>3, <5>1
      <4>5. Colon(t, r) = 0
        BY <4>4 DEF Colon
      <4>6. LineStep(t, f)[r] = f[r + 1]
        BY <3>1, <3>3, <4>4, <4>5, LineStepIs
      <4> QED BY <1>2, <3>1, <4>2, <4>6
    <3> QED BY <1>1, <3>1, <3>2, <3>3
  <2> QED BY <2>1
<1>5. Len(t) \in T
  <2> HIDE DEF T
  <2> QED BY <1>1, <1>3, <1>4, Induction
<1>6. p \in p .. Len(t) + 2 /\ p > Len(t) - Len(t)
  BY <1>1
<1> QED BY <1>5, <1>6 DEF f

Starts(t) == {1} \cup {q + 1 : q \in {r \in DOMAIN t : t[r] = "\n"}}

(* From the start of a line on formatLine takes that line, or not, and goes   *)
(* on at the start of the next one.                                        *)
LEMMA LineTaken ==
  ASSUME NEW t \in Text, ~EmptyLine(t), NEW p \in Starts(t), p <= Len(t)
  PROVE  /\ Colon(t, p) # 0 <=> p \in LevelLines(t)
         /\ Colon(t, p) # 0 => /\ Stop(t, p) = LineEnd(t, p)
                               /\ ColonLine(t, p) = LineAt(t, p)
<1> DEFINE end == Place(t, "\n", p)
           colon == Place(t, ":", p)
<1>1. /\ Len(t) \in Nat /\ DOMAIN t = 1 .. Len(t) /\ p \in 1 .. Len(t) /\ p \in Nat \ {0}
      /\ p = 1 \/ t[p - 1] = "\n"
  BY DEF Starts, Text
<1>2. /\ end \in Nat
      /\ end = 0 => \A q \in p .. Len(t) : t[q] # "\n"
      /\ end # 0 => end \in p .. Len(t) /\ t[end] = "\n"
  BY <1>1, PlaceIs
<1>3. /\ colon \in Nat
      /\ colon # 0 => colon \in p .. Len(t) /\ t[colon] = ":"
  BY <1>1, PlaceIs
<1>4. LineEnd(t, p) = IF end = 0 THEN Len(t) + 1 ELSE end
  BY DEF LineEnd
<1>5. Colon(t, p) = IF end > p /\ colon > end THEN 0 ELSE colon
  BY DEF Colon
<1>6. Stop(t, p) = IF end > Colon(t, p) THEN end ELSE Len(t) + 1
  BY DEF Stop
<1>7. p \in LevelLines(t) <=> colon \in p .. LineEnd(t, p) - 1
  BY DEF LevelLines, Starts
<1>8. LineAt(t, p) = Line(SubSeq(t, p, colon - 1), SubSeq(t, colon + 1, LineEnd(t, p) - 1))
  BY DEF LineAt
<1> HIDE DEF end, colon
<1>9. end = p => colon = 0
  <2> SUFFICES ASSUME end = p, colon # 0
               PROVE  FALSE
    OBVIOUS
  <2>1. t[p] = "\n" /\ t[colon] = ":" /\ colon \in p .. Len(t)
    BY <1>1, <1>2, <1>3
  <2>2. p < colon
    BY <1>1, <2>1
  <2>3. StartsEmpty(t, p)
    BY <1>1, <2>1 DEF StartsEmpty
  <2>4. EmptyLine(t)
    BY <1>1, <2>1, <2>2, <2>3 DEF EmptyLine
  <2> QED BY <2>4
<1>10. colon # 0 => colon # end
  BY <1>1, <1>2, <1>3
<1>11. Colon(t, p) # 0 <=> p \in LevelLines(t)
  BY <1>1, <1>2, <1>3, <1>4, <1>5, <1>7, <1>9, <1>10
<1>12. ASSUME Colon(t, p) # 0
       PROVE  Colon(t, p) = colon /\ Stop(t, p) = LineEnd(t, p)
  <2>1. colon # 0 /\ Colon(t, p) = colon /\ ~(end > p /\ colon > end)
    BY <1>5, <1>12
  <2>2. end # p
    BY <1>9, <2>1
  <2>3. CASE end = 0
    BY <1>3, <1>4, <1>6, <2>1, <2>3
  <2>4. CASE end # 0
    <3>1. end > colon
      BY <1>1, <1>2, <1>3, <1>10, <2>1, <2>2, <2>4
    <3> QED BY <1>4, <1>6, <2>1, <2>4, <3>1
  <2> QED BY <2>3, <2>4
<1>13. Colon(t, p) # 0 => ColonLine(t, p) = LineAt(t, p)
  BY <1>8, <1>12 DEF ColonLine
<1> QED BY <1>11, <1>12, <1>13

LevelsFrom(t, n, e) ==
  Listed(LevelLines(t), [p \in LevelLines(t) |-> LineAt(t, p)], FormatLine(t), 1, n, e)

(* Unless an empty line misleads it, formatLine finds the lines in their order.*)
LEMMA AllLines ==
  ASSUME NEW t \in Text, ~EmptyLine(t)
  PROVE  \E n, e : LevelsFrom(t, n, e)
<1> DEFINE S == LevelLines(t)
           v == [p \in S |-> LineAt(t, p)]
           R == {p \in Starts(t) : p <= Len(t)}
           next == [p \in R |-> LineEnd(t, p) + 1]
           f == LinesFrom(t)
<1>1. /\ Len(t) \in Nat /\ DOMAIN t = 1 .. Len(t) /\ Starts(t) \in SUBSET (Nat \ {0})
      /\ \A q \in 1 .. Len(t) : t[q] = "\n" => q + 1 \in Starts(t)
      /\ \A q \in Starts(t) : q = 1 \/ (q - 1 \in 1 .. Len(t) /\ t[q - 1] = "\n")
  BY DEF Text, Starts
<1>2. R \in SUBSET (1 .. Len(t))
  BY <1>1
<1>3. S \subseteq Starts(t)
  BY DEF LevelLines, Starts
<1>4. ASSUME NEW p \in Starts(t), p > Len(t)
      PROVE  p = Len(t) + 1 /\ p \notin S
  <2>1. p = Len(t) + 1 /\ p \in Nat \ {0}
    BY <1>1, <1>4
  <2>2. Place(t, ":", p) = 0
    <3>1. Place(t, ":", p) # 0 => Place(t, ":", p) \in p .. Len(t)
      BY <2>1, PlaceIs
    <3> QED BY <1>1, <2>1, <3>1
  <2>3. p \notin S
    BY <1>1, <2>1, <2>2 DEF LevelLines
  <2> QED BY <2>1, <2>3
<1>5. S \subseteq R
  <2>1. \A p \in S : p <= Len(t)
    BY <1>1, <1>3, <1>4
  <2> QED BY <1>3, <2>1
<1>6. \A q \in {Len(t) + 1, Len(t) + 2} : f[q] = <<>> /\ \A r \in S : ~(r >= q)
  <2> TAKE q \in {Len(t) + 1, Len(t) + 2}
  <2>1. q \in 1 .. Len(t) + 2 /\ q > Len(t)
    BY <1>1
  <2>2. f[q] = LineStep(t, f)[q]
    BY <2>1, LinesIs
  <2>3. LineStep(t, f)[q] = <<>>
    <3> HIDE DEF f
    <3> QED BY <2>1, LineStepIs
  <2>4. \A r \in S : r \in Nat /\ r <= Len(t)
    BY <1>1, <1>5
  <2> QED BY <1>1, <2>1, <2>2, <2>3, <2>4
<1>7. ASSUME NEW p \in R
      PROVE  Leads(R, S, v, f, next, p)
  <2> DEFINE end == Place(t, "\n", p)
             colon == Colon(t, p)
             stop == Stop(t, p)
  <2>1. p \in Starts(t) /\ p \in 1 .. Len(t) /\ p <= Len(t) /\ p \in Nat \ {0}
    BY <1>1, <1>2
  <2>2. next[p] = LineEnd(t, p) + 1 /\ LineEnd(t, p) = IF end = 0 THEN Len(t) + 1 ELSE end
    BY DEF LineEnd
  <2>3. /\ colon # 0 <=> p \in S
        /\ colon # 0 => stop = LineEnd(t, p) /\ ColonLine(t, p) = LineAt(t, p)
    BY <2>1, LineTaken
  <2>4. /\ end \in Nat
        /\ end = 0 => \A q \in p .. Len(t) : t[q] # "\n"
        /\ end # 0 => /\ end \in p .. Len(t) /\ t[end] = "\n"
                      /\ \A q \in p .. Len(t) : q < end => t[q] # "\n"
    BY <2>1, PlaceIs
  <2>5. f[p] = LineStep(t, f)[p]
    <3>1. p \in 1 .. Len(t) + 2
      BY <1>1, <2>1
    <3> QED BY <3>1, LinesIs
  <2>6. p \in S => v[p] = LineAt(t, p)
    OBVIOUS
  <2>7. colon = 0 /\ end = 0 => f[p] = <<>>
    <3>1. end = 0 => Colon(t, p) = Place(t, ":", p)
      BY <2>1 DEF Colon
    <3>2. Place(t, ":", p) = 0 => \A q \in p .. Len(t) : t[q] # ":"
      BY <2>1, PlaceIs
    <3>3. p \in 1 .. Len(t) + 2
      BY <1>1, <2>1
    <3> HIDE DEF end, f
    <3> QED BY <2>4, <3>1, <3>2, <3>3, NothingLeft DEF f
  <2> HIDE DEF f, v, S, R, next, end
  <2>8. next[p] \in Nat /\ next[p] > p /\ (end = 0 => next[p] = Len(t) + 2)
    BY <1>1, <2>1, <2>2, <2>4
  <2>9. ASSUME NEW q \in S, q > p
        PROVE  q >= next[p]
    <3>1. q \in Nat /\ q - 1 \in 1 .. Len(t) /\ t[q - 1] = "\n"
      BY <1>1, <1>3, <2>1, <2>9
    <3>2. q - 1 \in p .. Len(t)
      BY <1>1, <2>1, <2>9, <3>1
    <3>3. end # 0 /\ ~(q - 1 < end)
      BY <2>4, <3>1, <3>2
    <3> QED BY <2>2, <2>4, <3>1, <3>3
  <2>10. f[p] \in (IF p \in S THEN {<<v[p]>> \o f[next[p]]}
                  ELSE {f[next[p]], <<>> \o f[next[p]]})
    <3>1. p \in 1 .. Len(t) + 2
      BY <1>1, <2>1
    <3>2. CASE colon # 0
      <4>1. LineStep(t, f)[p] = <<ColonLine(t, p)>> \o f[stop + 1]
        BY <2>1, <3>1, <3>2, LineStepIs
      <4> QED BY <2>2, <2>3, <2>5, <2>6, <3>2, <4>1
    <3>3. CASE colon = 0 /\ end = 0
      BY <1>6, <2>3, <2>7, <2>8, <3>3
    <3>4. CASE colon = 0 /\ end # 0
      <4>1. LineStep(t, f)[p] = f[end + 1]
        BY <2>1, <3>1, <3>4, LineStepIs DEF end
      <4> QED BY <2>2, <2>3, <2>5, <3>4, <4>1
    <3> QED BY <3>2, <3>3, <3>4
  <2>11. ASSUME next[p] \notin R
         PROVE  f[next[p]] = <<>> /\ \A q \in S : ~(q >= next[p])
    <3>1. next[p] \in {Len(t) + 1, Len(t) + 2}
      <4>1. CASE end = 0
        BY <2>8, <4>1
      <4>2. CASE end # 0
        <5>1. next[p] \in Starts(t)
          BY <1>1, <2>1, <2>2, <2>4, <4>2
        <5>2. next[p] > Len(t)
          BY <1>1, <2>8, <2>11, <5>1 DEF R
        <5> QED BY <1>4, <5>1, <5>2
      <4> QED BY <4>1, <4>2
    <3> QED BY <1>6, <3>1
  <2> QED BY <2>8, <2>9, <2>10, <2>11 DEF Leads
<1>8. \A p \in R : \E n, e : Listed(S, v, f[p], p, n, e)
  <2>1. S \in SUBSET Nat
    BY <1>1, <1>3
  <2> HIDE DEF S, v, R, next, f
  <2> QED BY <1>1, <1>2, <1>7, <2>1, AllListed
<1>9. \E n, e : Listed(S, v, f[1], 1, n, e)
  <2>1. CASE Len(t) = 0
    <3>1. f[1] = <<>> /\ \A q \in S : ~(q >= 1)
      BY <1>6, <2>1
    <3> HIDE DEF S, v, f
    <3>2. Listed(S, v, <<>>, 1, 0, <<>>)
      BY <3>1, NoneListed
    <3> QED BY <3>1, <3>2
  <2>2. CASE Len(t) # 0
    <3>1. 1 \in R
      BY <1>1, <2>2 DEF Starts
    <3> HIDE DEF S, v, R, next, f
    <3> QED BY <1>8, <3>1
  <2> QED BY <2>1, <2>2
<1> QED BY <1>9 DEF LevelsFrom, FormatLine

----------------------------------------------------------------------------
(* order.                                                                  *)

(* One step of a pass leaves the lines, or exchanges two neighbours.        *)
Swapped(l, s, i) ==
  /\ i + 1 \in 1 .. Len(l)
  /\ l[i].left < l[i + 1].left
  /\ s[i] = l[i + 1] /\ s[i + 1] = l[i]
  /\ \A j \in 1 .. Len(l) : j # i /\ j # i + 1 => s[j] = l[j]

LEMMA SwapIs ==
  ASSUME NEW l \in Seq(Row), NEW i \in 1 .. Len(l)
  PROVE  /\ SwapAt(l, i) \in Seq(Row)
         /\ Len(SwapAt(l, i)) = Len(l)
         /\ \/ SwapAt(l, i) = l /\ (i + 1 \in 1 .. Len(l) => l[i].left >= l[i + 1].left)
            \/ Swapped(l, SwapAt(l, i), i)
<1> DEFINE swaps == i < Len(l) /\ l[i].left < l[i + 1].left
<1>1. /\ Len(l) \in Nat /\ l \in [1 .. Len(l) -> Row] /\ DOMAIN l = 1 .. Len(l)
      /\ \A j \in 1 .. Len(l) : l[j] \in Row /\ l[j].left \in Nat
  <2>1. Len(l) \in Nat /\ l \in [1 .. Len(l) -> Row] /\ DOMAIN l = 1 .. Len(l)
    BY LenProperties
  <2>2. \A j \in 1 .. Len(l) : l[j] \in Row
    BY <2>1
  <2> QED BY <2>1, <2>2 DEF Row
<1>2. CASE swaps
  <2> DEFINE a == [l EXCEPT ![i] = l[i + 1]]
             s == [a EXCEPT ![i + 1] = l[i]]
  <2>1. i + 1 \in 1 .. Len(l) /\ i + 1 # i
    BY <1>1, <1>2
  <2>2. /\ a \in Seq(Row) /\ Len(a) = Len(l)
        /\ \A j \in 1 .. Len(l) : a[j] = IF j = i THEN l[i + 1] ELSE l[j]
    <3>1. l[i + 1] \in Row
      BY <1>1, <2>1
    <3> QED BY <3>1, ExceptSeq
  <2> HIDE DEF a
  <2>3. /\ s \in Seq(Row) /\ Len(s) = Len(l)
        /\ \A j \in 1 .. Len(l) : s[j] = IF j = i + 1 THEN l[i] ELSE a[j]
    <3>1. l[i] \in Row /\ i + 1 \in 1 .. Len(a)
      BY <1>1, <2>1, <2>2
    <3>2. /\ s \in Seq(Row) /\ Len(s) = Len(a)
          /\ \A j \in 1 .. Len(a) : s[j] = IF j = i + 1 THEN l[i] ELSE a[j]
      BY <2>2, <3>1, ExceptSeq
    <3> QED BY <2>2, <3>2
  <2>4. SwapAt(l, i) = s
    BY <1>2 DEF SwapAt, a
  <2> HIDE DEF s
  <2>5. Swapped(l, s, i)
    BY <1>2, <2>1, <2>2, <2>3 DEF Swapped
  <2> QED BY <2>3, <2>4, <2>5
<1>3. CASE ~swaps
  <2>1. SwapAt(l, i) = l
    BY <1>3 DEF SwapAt
  <2>2. i + 1 \in 1 .. Len(l) => l[i].left >= l[i + 1].left
    <3> SUFFICES ASSUME i + 1 \in 1 .. Len(l)
                 PROVE  l[i].left >= l[i + 1].left
      OBVIOUS
    <3>1. l[i].left \in Nat /\ l[i + 1].left \in Nat /\ i < Len(l)
      BY <1>1
    <3>2. ~(l[i].left < l[i + 1].left)
      BY <1>3, <3>1
    <3> QED BY <3>1, <3>2
  <2> QED BY <2>1, <2>2
<1> QED BY <1>2, <1>3

(* g numbers S.                                                            *)
Numbers(g, n, S) ==
  /\ g \in [1 .. n -> S]
  /\ \A i, j \in 1 .. n : g[i] = g[j] => i = j
  /\ \A q \in S : \E i \in 1 .. n : g[i] = q

(* l has what v says of the places of S, in some order.                     *)
Arranged(l, n, S, v) ==
  /\ l \in Seq(Row)
  /\ Len(l) = n
  /\ \E g : Numbers(g, n, S) /\ \A i \in 1 .. n : l[i] = v[g[i]]

LEMMA SwapArranges ==
  ASSUME NEW n \in Nat, NEW S, NEW v, NEW l, Arranged(l, n, S, v), NEW i \in 1 .. n
  PROVE  Arranged(SwapAt(l, i), n, S, v)
<1> DEFINE s == SwapAt(l, i)
<1>1. l \in Seq(Row) /\ Len(l) = n
  BY DEF Arranged
<1>2. PICK g : Numbers(g, n, S) /\ \A j \in 1 .. n : l[j] = v[g[j]]
  BY DEF Arranged
<1>3. s \in Seq(Row) /\ Len(s) = n /\ (s = l \/ Swapped(l, s, i))
  BY <1>1, SwapIs
<1> HIDE DEF s
<1>4. CASE s = l
  BY <1>4 DEF s
<1>5. CASE Swapped(l, s, i)
  <2> DEFINE h == [j \in 1 .. n |-> IF j = i THEN g[i + 1] ELSE IF j = i + 1 THEN g[i] ELSE g[j]]
  <2>1. /\ i + 1 \in 1 .. n /\ s[i] = l[i + 1] /\ s[i + 1] = l[i] /\ i + 1 # i
        /\ \A j \in 1 .. n : j # i /\ j # i + 1 => s[j] = l[j]
    BY <1>1, <1>5 DEF Swapped
  <2>2. /\ g \in [1 .. n -> S]
        /\ \A j, k \in 1 .. n : g[j] = g[k] => j = k
        /\ \A q \in S : \E j \in 1 .. n : g[j] = q
    BY <1>2 DEF Numbers
  <2>3. h[i] = g[i + 1] /\ h[i + 1] = g[i] /\ \A j \in 1 .. n : j # i /\ j # i + 1 => h[j] = g[j]
    BY <2>1
  <2>4. h \in [1 .. n -> S]
    BY <2>1, <2>2
  <2> HIDE DEF h
  <2>5. \A j, k \in 1 .. n : h[j] = h[k] => j = k
    BY <2>1, <2>2, <2>3
  <2>6. \A q \in S : \E j \in 1 .. n : h[j] = q
    <3> TAKE q \in S
    <3>1. PICK j \in 1 .. n : g[j] = q
      BY <2>2
    <3> QED BY <2>1, <2>3, <3>1
  <2>7. \A j \in 1 .. n : s[j] = v[h[j]]
    BY <1>2, <2>1, <2>3
  <2>8. Numbers(h, n, S)
    BY <2>4, <2>5, <2>6 DEF Numbers
  <2> QED BY <1>3, <2>7, <2>8 DEF Arranged, s
<1> QED BY <1>3, <1>4, <1>5

(* The last k lines are in order, and none before is lower; the m-th line is  *)
(* the lowest up to there.                                                  *)
Settled(l, n, k) == \A i, j \in 1 .. n : i < j /\ j > n - k => l[i].left >= l[j].left
Lowest(l, m) == \A j \in 1 .. m : l[j].left >= l[m].left

(* A step of a pass leaves the end as it is, and takes the lowest further.   *)
LEMMA SwapSinks ==
  ASSUME NEW n \in Nat, NEW l \in Seq(Row), Len(l) = n, NEW k \in 0 .. n, Settled(l, n, k),
         NEW i \in 1 .. n, Lowest(l, IF i < n - k THEN i ELSE n - k)
  PROVE  /\ Settled(SwapAt(l, i), n, k)
         /\ Lowest(SwapAt(l, i), IF i + 1 < n - k THEN i + 1 ELSE n - k)
<1> DEFINE s == SwapAt(l, i)
<1>1. /\ s \in Seq(Row) /\ Len(s) = n
      /\ \/ s = l /\ (i + 1 \in 1 .. n => l[i].left >= l[i + 1].left)
         \/ Swapped(l, s, i)
  BY SwapIs
<1>2. \A j \in 1 .. n : l[j].left \in Nat /\ s[j].left \in Nat
  <2>1. \A j \in 1 .. n : l[j] \in Row /\ s[j] \in Row
    <3> HIDE DEF s
    <3> QED BY <1>1
  <2> QED BY <2>1 DEF Row
<1>3. \A j \in 1 .. (IF i < n - k THEN i ELSE n - k) :
        l[j].left >= l[IF i < n - k THEN i ELSE n - k].left
  BY DEF Lowest
<1> HIDE DEF s
<1>4. CASE s = l /\ (i + 1 \in 1 .. n => l[i].left >= l[i + 1].left)
  <2>1. Settled(s, n, k)
    BY <1>4
  <2>2. Lowest(s, IF i + 1 < n - k THEN i + 1 ELSE n - k)
    <3>1. CASE i + 1 <= n - k
      <4>1. i < n - k /\ i + 1 \in 1 .. n /\ (IF i + 1 < n - k THEN i + 1 ELSE n - k) = i + 1
        BY <3>1
      <4>2. l[i].left >= l[i + 1].left /\ \A j \in 1 .. i : l[j].left >= l[i].left
        BY <1>3, <1>4, <4>1
      <4>3. \A j \in 1 .. i : l[j].left >= l[i + 1].left
        <5> TAKE j \in 1 .. i
        <5>1. j \in 1 .. n /\ l[j].left >= l[i].left
          BY <4>1, <4>2
        <5> QED BY <1>2, <4>1, <4>2, <5>1
      <4>4. \A j \in 1 .. i + 1 : j \in 1 .. i \/ j = i + 1
        OBVIOUS
      <4>5. \A j \in 1 .. i + 1 : s[j].left >= s[i + 1].left
        BY <1>2, <1>4, <4>1, <4>3, <4>4
      <4> QED BY <4>1, <4>5 DEF Lowest
    <3>2. CASE ~(i + 1 <= n - k)
      <4>1. /\ (IF i + 1 < n - k THEN i + 1 ELSE n - k) = n - k
            /\ (IF i < n - k THEN i ELSE n - k) = n - k
        BY <3>2
      <4> QED BY <1>4, <4>1 DEF Lowest
    <3> QED BY <3>1, <3>2
  <2> QED BY <2>1, <2>2 DEF s
<1>5. CASE Swapped(l, s, i)
  <2>1. /\ i + 1 \in 1 .. n /\ l[i].left < l[i + 1].left
        /\ s[i] = l[i + 1] /\ s[i + 1] = l[i]
        /\ \A j \in 1 .. n : j # i /\ j # i + 1 => s[j] = l[j]
    BY <1>5 DEF Swapped
  <2>2. \A h, j \in 1 .. n : h < j /\ j > n - k => l[h].left >= l[j].left
    BY DEF Settled
  <2>3. i + 1 <= n - k
    <3> SUFFICES ASSUME i + 1 > n - k
                 PROVE  FALSE
      BY <2>1
    <3>1. l[i].left >= l[i + 1].left
      BY <2>1, <2>2
    <3> QED BY <1>2, <2>1, <3>1
  <2>4. ASSUME NEW h \in 1 .. n, NEW j \in 1 .. n, h < j, j > n - k
        PROVE  s[h].left >= s[j].left
    <3>1. j # i /\ j # i + 1 /\ s[j] = l[j] /\ i < j /\ i + 1 < j
      BY <2>1, <2>3, <2>4
    <3>2. s[h] \in {l[h], l[i], l[i + 1]}
      BY <2>1
    <3>3. l[h].left >= l[j].left /\ l[i].left >= l[j].left /\ l[i + 1].left >= l[j].left
      BY <2>1, <2>2, <2>4, <3>1
    <3> QED BY <3>1, <3>2, <3>3
  <2>5. Settled(s, n, k)
    BY <2>4 DEF Settled
  <2>6. (IF i + 1 < n - k THEN i + 1 ELSE n - k) = i + 1 /\ (IF i < n - k THEN i ELSE n - k) = i
    BY <2>3
  <2>7. \A j \in 1 .. i + 1 : s[j].left >= s[i + 1].left
    <3> TAKE j \in 1 .. i + 1
    <3>1. j \in 1 .. n
      BY <2>1
    <3>2. CASE j = i + 1
      BY <1>2, <2>1, <3>2
    <3>3. CASE j = i
      BY <1>2, <2>1, <3>3
    <3>4. CASE j # i /\ j # i + 1
      <4>1. j \in 1 .. i /\ s[j] = l[j]
        BY <2>1, <3>1, <3>4
      <4> QED BY <1>3, <2>1, <2>6, <4>1
    <3> QED BY <3>2, <3>3, <3>4
  <2> QED BY <2>5, <2>6, <2>7 DEF Lowest, s
<1> QED BY <1>1, <1>4, <1>5

(* A first value, and each further one from the one before.                 *)
Chain(g, N, S, base, step) ==
  /\ g \in [0 .. N -> S] /\ g[0] = base
  /\ \A i \in 1 .. N : g[i] = step[i][g[i - 1]]

LEMMA Repeats ==
  ASSUME NEW N \in Nat, NEW S, NEW base \in S, NEW step, step \in [1 .. N -> [S -> S]]
  PROVE  \E g : Chain(g, N, S, base, step)
<1> DEFINE Good(g, k) == /\ g \in [0 .. N -> S] /\ g[0] = base
                         /\ \A i \in 1 .. N : i <= k => g[i] = step[i][g[i - 1]]
           T == {k \in Nat : \E g : Good(g, k)}
<1>1. 0 \in T
  <2> DEFINE g == [i \in 0 .. N |-> base]
  <2>1. Good(g, 0)
    OBVIOUS
  <2> QED BY <2>1
<1>2. ASSUME NEW k \in Nat, k \in T
      PROVE  k + 1 \in T
  <2>1. PICK g : Good(g, k)
    BY <1>2
  <2>2. CASE k + 1 > N
    <3>1. \A i \in 1 .. N : i <= k
      BY <2>2
    <3>2. Good(g, k + 1)
      BY <2>1, <3>1
    <3> QED BY <3>2
  <2>3. CASE k + 1 <= N
    <3> DEFINE x == step[k + 1][g[k]]
               h == [i \in 0 .. N |-> IF i = k + 1 THEN x ELSE g[i]]
    <3>1. k \in 0 .. N /\ k + 1 \in 1 .. N /\ g[k] \in S
      BY <2>1, <2>3
    <3>2. x \in S
      <4>1. step[k + 1] \in [S -> S]
        BY <3>1
      <4> QED BY <3>1, <4>1
    <3> HIDE DEF x
    <3>3. h \in [0 .. N -> S] /\ h[k + 1] = x /\ \A i \in 0 .. N : i # k + 1 => h[i] = g[i]
      BY <2>1, <3>1, <3>2
    <3> HIDE DEF h
    <3>4. ASSUME NEW i \in 1 .. N, i <= k + 1
          PROVE  h[i] = step[i][h[i - 1]]
      <4>1. CASE i = k + 1
        <5>1. h[i - 1] = g[k] /\ h[i] = x
          BY <3>1, <3>3, <4>1
        <5> QED BY <4>1, <5>1 DEF x
      <4>2. CASE i <= k
        <5>1. i - 1 \in 0 .. N /\ i - 1 # k + 1 /\ i # k + 1 /\ i \in 0 .. N
          BY <4>2
        <5> QED BY <2>1, <3>3, <4>2, <5>1
      <4> QED BY <3>4, <4>1, <4>2
    <3>5. h[0] = base
      BY <2>1, <3>1, <3>3
    <3>6. Good(h, k + 1)
      BY <3>3, <3>4, <3>5
    <3> QED BY <3>6
  <2> QED BY <2>2, <2>3
<1>3. N \in T
  <2> HIDE DEF T
  <2> QED BY <1>1, <1>2, Induction
<1>4. PICK g : Good(g, N)
  BY <1>3
<1>5. Chain(g, N, S, base, step)
  BY <1>4 DEF Chain
<1> QED BY <1>5

SwapsStep(l, f) == [i \in 0 .. Len(l) |-> IF i = 0 THEN l ELSE SwapAt(f[i - 1], i)]

LEMMA SwapsAre ==
  ASSUME NEW l \in Seq(Row)
  PROVE  Swaps(l)[0] = l /\ \A i \in 1 .. Len(l) : Swaps(l)[i] = SwapAt(Swaps(l)[i - 1], i)
<1> DEFINE n == Len(l)
           S == {m \in Seq(Row) : Len(m) = n}
           step == [i \in 1 .. n |-> [m \in S |-> SwapAt(m, i)]]
<1>1. n \in Nat /\ l \in S
  BY LenProperties
<1>2. \A m \in S : \A i \in 1 .. n : SwapAt(m, i) \in S
  BY SwapIs
<1>3. step \in [1 .. n -> [S -> S]] /\ \A i \in 1 .. n : \A m \in S : step[i][m] = SwapAt(m, i)
  <2> HIDE DEF S
  <2> QED BY <1>2
<1>4. PICK g \in [0 .. n -> S] : g[0] = l /\ \A i \in 1 .. n : g[i] = step[i][g[i - 1]]
  <2>1. n \in Nat /\ l \in S /\ step \in [1 .. n -> [S -> S]]
    BY <1>1, <1>3
  <2> HIDE DEF n, S, step
  <2>2. PICK g : Chain(g, n, S, l, step)
    BY ONLY <2>1, Repeats
  <2> QED BY <2>2 DEF Chain
<1>5. \A i \in 1 .. n : g[i] = SwapAt(g[i - 1], i)
  <2> HIDE DEF S, step
  <2>1. \A i \in 1 .. n : g[i - 1] \in S
    BY <1>1
  <2> QED BY <1>3, <1>4, <2>1
<1>6. g = SwapsStep(l, g)
  <2>1. g = [i \in 0 .. n |-> g[i]]
    BY <1>4
  <2>2. \A i \in 0 .. n : g[i] = IF i = 0 THEN l ELSE SwapAt(g[i - 1], i)
    BY <1>1, <1>4, <1>5
  <2> QED BY <2>1, <2>2 DEF SwapsStep
<1>7. Swaps(l) = CHOOSE h : h = SwapsStep(l, h)
  BY DEF Swaps, SwapsStep
<1> DEFINE h == Swaps(l)
<1>8. h = SwapsStep(l, h)
  BY ONLY <1>6, <1>7
<1>9. \A i \in 0 .. n : h[i] = SwapsStep(l, h)[i]
  BY <1>8
<1> HIDE DEF h
<1>10. h[0] = l
  BY <1>1, <1>9 DEF SwapsStep
<1>11. \A i \in 1 .. n : h[i] = SwapAt(h[i - 1], i)
  BY <1>1, <1>9 DEF SwapsStep
<1> QED BY <1>10, <1>11 DEF h

(* A pass takes the lowest to the end that is in order already.             *)
LEMMA PassSinks ==
  ASSUME NEW n \in Nat, NEW S, NEW v, NEW l, Arranged(l, n, S, v),
         NEW k \in Nat, k < n, Settled(l, n, k)
  PROVE  Arranged(Pass(l), n, S, v) /\ Settled(Pass(l), n, k + 1)
<1> DEFINE h == Swaps(l)
           m(i) == IF i + 1 < n - k THEN i + 1 ELSE n - k
           Good(i) == Arranged(h[i], n, S, v) /\ Settled(h[i], n, k) /\ Lowest(h[i], m(i))
           T == {i \in Nat : i <= n => Good(i)}
<1>1. l \in Seq(Row) /\ Len(l) = n
  BY DEF Arranged
<1>2. h[0] = l /\ \A i \in 1 .. n : h[i] = SwapAt(h[i - 1], i)
  BY <1>1, SwapsAre
<1> HIDE DEF h
<1>3. 0 \in T
  <2>1. m(0) = 1
    OBVIOUS
  <2>2. Lowest(l, 1)
    <3>1. \A j \in 1 .. 1 : j = 1
      OBVIOUS
    <3>2. 1 \in 1 .. n
      OBVIOUS
    <3>3. l[1].left \in Nat
      <4>1. l[1] \in Row
        BY <1>1, <3>2
      <4> QED BY <4>1 DEF Row
    <3> QED BY <3>1, <3>3 DEF Lowest
  <2> QED BY <1>2, <2>1, <2>2
<1>4. ASSUME NEW i \in Nat, i \in T
      PROVE  i + 1 \in T
  <2> SUFFICES ASSUME i + 1 <= n
               PROVE  Good(i + 1)
    OBVIOUS
  <2> DEFINE a == h[i]
             j == i + 1
  <2>1. Arranged(a, n, S, v) /\ Settled(a, n, k) /\ Lowest(a, m(i)) /\ j \in 1 .. n
    BY <1>4
  <2>2. m(i) = IF j < n - k THEN j ELSE n - k
    OBVIOUS
  <2>3. h[j] = SwapAt(a, j)
    <3>1. j - 1 = i
      OBVIOUS
    <3> QED BY <1>2, <2>1, <3>1
  <2>4. m(j) = IF j + 1 < n - k THEN j + 1 ELSE n - k
    OBVIOUS
  <2> HIDE DEF a, m, j
  <2>5. a \in Seq(Row) /\ Len(a) = n /\ k \in 0 .. n
    BY <2>1 DEF Arranged
  <2>6. Settled(SwapAt(a, j), n, k) /\ Lowest(SwapAt(a, j), m(j))
    BY <2>1, <2>2, <2>4, <2>5, SwapSinks
  <2>7. Arranged(SwapAt(a, j), n, S, v)
    BY <2>1, SwapArranges
  <2> QED BY <2>3, <2>6, <2>7 DEF j
<1>5. n \in T
  <2> HIDE DEF T
  <2> QED BY <1>3, <1>4, Induction
<1>6. /\ Arranged(Pass(l), n, S, v) /\ Settled(Pass(l), n, k) /\ Lowest(Pass(l), n - k)
  <2>1. m(n) = n - k
    OBVIOUS
  <2> QED BY <1>1, <1>5, <2>1 DEF Pass, h
<1> DEFINE s == Pass(l)
<1> HIDE DEF s
<1>7. \A i, j \in 1 .. n : i < j /\ j > n - (k + 1) => s[i].left >= s[j].left
  <2> SUFFICES ASSUME NEW i \in 1 .. n, NEW j \in 1 .. n, i < j, j > n - (k + 1)
               PROVE  s[i].left >= s[j].left
    OBVIOUS
  <2>1. CASE j > n - k
    BY <1>6, <2>1 DEF Settled, s
  <2>2. CASE j = n - k
    <3>1. i \in 1 .. n - k
      BY <2>2
    <3> QED BY <1>6, <2>2, <3>1 DEF Lowest, s
  <2> QED BY <2>1, <2>2
<1> QED BY <1>6, <1>7 DEF Settled, s

OrderedStep(l, f) ==
  [k \in 0 .. Passes(l) |-> IF k = 0 THEN l ELSE Pass(f[k - 1])]

(* Enough passes leave all lines in order.                                  *)
LEMMA OrderSorts ==
  ASSUME NEW n \in Nat, NEW S, NEW v, NEW l, Arranged(l, n, S, v)
  PROVE  /\ Arranged(Order(l), n, S, v)
         /\ \A i, j \in 1 .. n : i < j => Order(l)[i].left >= Order(l)[j].left
<1> DEFINE N == Passes(l)
           A == {m \in Seq(Row) : Arranged(m, n, S, v)}
           Good(m, k) == m \in A /\ Settled(m, n, k)
           T == {k \in Nat : k <= N => Good(Ordered(l)[k], k)}
<1>1. l \in Seq(Row) /\ Len(l) = n
  BY DEF Arranged
<1>2. N \in Nat /\ N = IF n = 0 THEN 0 ELSE n - 1
  BY <1>1, EmptySeq DEF Passes
<1> HIDE DEF N
<1>3. \A m \in A : \A k \in Nat : k < n /\ Settled(m, n, k) => Good(Pass(m), k + 1)
  <2> TAKE m \in A, k \in Nat
  <2> HAVE k < n /\ Settled(m, n, k)
  <2>1. Arranged(Pass(m), n, S, v) /\ Settled(Pass(m), n, k + 1)
    BY PassSinks
  <2> QED BY <2>1 DEF Arranged
<1>4. Good(l, 0)
  <2>1. \A i, j \in 1 .. n : ~(j > n - 0)
    OBVIOUS
  <2> QED BY <1>1, <2>1 DEF Settled
<1>5. \E g \in [0 .. N -> A] : g[0] = l /\ \A k \in 1 .. N : g[k] = Pass(g[k - 1])
  <2> DEFINE step == [k \in 1 .. N |-> [m \in A |-> Pass(m)]]
  <2>1. ASSUME NEW k \in 1 .. N, NEW m \in A
        PROVE  Pass(m) \in A
    <3>1. 0 < n /\ 0 \in Nat
      BY <1>2
    <3>2. Settled(m, n, 0)
      BY DEF Settled
    <3> QED BY <1>3, <3>1, <3>2
  <2> HIDE DEF A
  <2>2. step \in [1 .. N -> [A -> A]] /\ \A k \in 1 .. N : \A m \in A : step[k][m] = Pass(m)
    BY <2>1
  <2>3. l \in A
    BY <1>4
  <2>4. PICK g \in [0 .. N -> A] : g[0] = l /\ \A k \in 1 .. N : g[k] = step[k][g[k - 1]]
    <3>1. step \in [1 .. N -> [A -> A]] /\ N \in Nat
      BY <1>2, <2>2
    <3> HIDE DEF step
    <3>2. PICK g : Chain(g, N, A, l, step)
      BY ONLY <2>3, <3>1, Repeats
    <3> QED BY <3>2 DEF Chain
  <2>5. \A k \in 1 .. N : g[k - 1] \in A
    BY <1>2
  <2> HIDE DEF step
  <2>6. \A k \in 1 .. N : g[k] = Pass(g[k - 1])
    BY <2>2, <2>4, <2>5
  <2> QED BY <2>4, <2>6
<1>6. PICK g \in [0 .. N -> A] : g[0] = l /\ \A k \in 1 .. N : g[k] = Pass(g[k - 1])
  BY <1>5
<1>7. g = OrderedStep(l, g)
  <2>1. g = [k \in 0 .. N |-> g[k]]
    BY <1>6
  <2>2. \A k \in 0 .. N : g[k] = IF k = 0 THEN l ELSE Pass(g[k - 1])
    BY <1>2, <1>6
  <2> QED BY <2>1, <2>2 DEF OrderedStep, N
<1>8. Ordered(l) = CHOOSE h : h = OrderedStep(l, h)
  BY DEF Ordered, OrderedStep
<1> DEFINE h == Ordered(l)
<1>9. h = OrderedStep(l, h)
  BY ONLY <1>7, <1>8
<1>10. \A k \in 0 .. N : h[k] = OrderedStep(l, h)[k]
  BY <1>9
<1> HIDE DEF h
<1>11. h[0] = l /\ \A k \in 1 .. N : h[k] = Pass(h[k - 1])
  BY <1>2, <1>10, SMTT(30) DEF OrderedStep, N
<1> HIDE DEF A
<1>12. 0 \in T
  BY <1>4, <1>11 DEF h
<1>13. ASSUME NEW k \in Nat, k \in T
       PROVE  k + 1 \in T
  <2> SUFFICES ASSUME k + 1 <= N
               PROVE  Good(h[k + 1], k + 1)
    BY DEF h
  <2> DEFINE a == h[k]
  <2>1. a \in A /\ Settled(a, n, k) /\ k < n
    BY <1>2, <1>13 DEF h
  <2>2. h[k + 1] = Pass(a)
    <3>1. k + 1 \in 1 .. N /\ (k + 1) - 1 = k
      BY <1>2
    <3> QED BY <1>11, <3>1
  <2> HIDE DEF a
  <2>3. Good(Pass(a), k + 1)
    BY <1>3, <2>1
  <2> QED BY <2>2, <2>3
<1>14. N \in T
  <2> HIDE DEF T
  <2> QED BY <1>2, <1>12, <1>13, Induction
<1>15. Order(l) \in A /\ Settled(Order(l), n, N)
  BY <1>2, <1>14 DEF Order, N
<1> DEFINE s == Order(l)
<1> HIDE DEF s
<1>16. \A i, j \in 1 .. n : i < j => s[i].left >= s[j].left
  <2> TAKE i \in 1 .. n, j \in 1 .. n
  <2> HAVE i < j
  <2>1. j > n - N
    BY <1>2
  <2> QED BY <1>15, <2>1 DEF Settled, s
<1> QED BY <1>15, <1>16 DEF A, s

----------------------------------------------------------------------------
(* The levels of a text are its lines, the highest first.                   *)
Exact(t, list) ==
  /\ \A i \in 1 .. Len(list) - 1 : list[i].left >= list[i + 1].left
  /\ Len(list) = Cardinality(LevelLines(t))
  /\ \A i \in DOMAIN list :
       Cardinality({j \in DOMAIN list : list[j] = list[i]})
         = Cardinality({p \in LevelLines(t) : LineAt(t, p) = list[i]})

LEMMA OrderExact ==
  ASSUME NEW t \in Text, ~EmptyLine(t)
  PROVE  Exact(t, Order(FormatLine(t)))
<1> DEFINE S == LevelLines(t)
           v == [p \in S |-> LineAt(t, p)]
           lines == FormatLine(t)
           list == Order(lines)
<1>1. PICK n, e : LevelsFrom(t, n, e)
  BY AllLines
<1>2. ASSUME NEW p \in S
      PROVE  v[p] = LineAt(t, p) /\ LineAt(t, p) \in Row
  <2> DEFINE colon == Place(t, ":", p)
             stop == LineEnd(t, p)
  <2>1. Len(t) \in Nat /\ p \in Nat \ {0} /\ colon \in p .. stop - 1
    BY DEF LevelLines, Text
  <2>2. stop \in Nat /\ stop <= Len(t) + 1
    <3>1. /\ Place(t, "\n", p) \in Nat
          /\ Place(t, "\n", p) # 0 => Place(t, "\n", p) \in p .. Len(t)
      BY <2>1, PlaceIs
    <3> QED BY <2>1, <3>1 DEF LineEnd
  <2> HIDE DEF colon, stop
  <2>3. Between(t, p, colon) \in Text /\ Between(t, colon + 1, stop) \in Text
    <3>1. /\ colon \in Nat /\ colon <= Len(t) + 1
          /\ colon + 1 \in Nat \ {0}
      BY <2>1, <2>2
    <3> QED BY <2>1, <2>2, <3>1, BetweenIs
  <2>4. LineAt(t, p) = Line(Between(t, p, colon), Between(t, colon + 1, stop))
    BY DEF LineAt, Between, colon, stop
  <2> QED BY <2>3, <2>4, LineIs
<1>3. /\ n \in Nat /\ e \in [1 .. n -> S] /\ lines \in Seq({v[q] : q \in S}) /\ Len(lines) = n
      /\ \A i, j \in 1 .. n : i < j => e[i] < e[j]
      /\ \A q \in S : q >= 1 => \E i \in 1 .. n : e[i] = q
      /\ \A i \in 1 .. n : lines[i] = v[e[i]]
  BY <1>1 DEF LevelsFrom, Listed, Through
<1>4. \A q \in S : q \in Nat /\ q >= 1
  BY DEF LevelLines, Text
<1> HIDE DEF S, v, lines, list
<1>5. Numbers(e, n, S)
  <2>1. \A i, j \in 1 .. n : e[i] = e[j] => i = j
    <3> TAKE i \in 1 .. n, j \in 1 .. n
    <3> HAVE e[i] = e[j]
    <3>1. e[i] \in Nat
      BY <1>3, <1>4
    <3>2. ~(i < j) /\ ~(j < i)
      BY <1>3, <3>1
    <3> QED BY <1>3, <3>2
  <2>2. \A q \in S : \E i \in 1 .. n : e[i] = q
    BY <1>3, <1>4
  <2> QED BY <1>3, <2>1, <2>2 DEF Numbers
<1>6. lines \in Seq(Row)
  <2>1. {v[q] : q \in S} \subseteq Row
    BY <1>2
  <2> QED BY <1>3, <2>1, SeqMonotonic
<1>7. Arranged(lines, n, S, v)
  BY <1>3, <1>5, <1>6 DEF Arranged
<1>8. Arranged(list, n, S, v) /\ \A i, j \in 1 .. n : i < j => list[i].left >= list[j].left
  BY <1>3, <1>7, OrderSorts DEF list
<1>9. list \in Seq(Row) /\ Len(list) = n /\ DOMAIN list = 1 .. n
  BY <1>8, LenProperties DEF Arranged
<1>10. PICK g : Numbers(g, n, S) /\ \A i \in 1 .. n : list[i] = v[g[i]]
  BY <1>8 DEF Arranged
<1>11. /\ g \in [1 .. n -> S] /\ \A i, j \in 1 .. n : g[i] = g[j] => i = j
       /\ \A q \in S : \E i \in 1 .. n : g[i] = q
  BY <1>10 DEF Numbers
<1>12. Cardinality(S) = n
  <2>1. n \in Nat
    BY <1>3
  <2> QED BY ONLY <1>11, <2>1, Numbered
<1>13. ASSUME NEW x
       PROVE  Cardinality({j \in 1 .. n : list[j] = x}) = Cardinality({p \in S : LineAt(t, p) = x})
  <2> DEFINE J == {j \in 1 .. n : list[j] = x}
             P == {p \in S : LineAt(t, p) = x}
             h == [j \in J |-> g[j]]
  <2>1. \A j \in 1 .. n : j \in J <=> g[j] \in P
    BY <1>2, <1>10, <1>11
  <2>2. h \in [J -> P] /\ \A i, j \in J : h[i] = h[j] => i = j
    BY <1>11, <2>1
  <2>3. \A p \in P : \E j \in J : h[j] = p
    <3> TAKE p \in P
    <3>1. PICK j \in 1 .. n : g[j] = p
      BY <1>11
    <3> QED BY <2>1, <3>1
  <2> HIDE DEF J, P, h
  <2>4. h \in Bijection(J, P)
    BY <2>2, <2>3 DEF Bijection, Injection, IsInjective, Surjection
  <2>5. ExistsBijection(J, P)
    BY <2>4 DEF ExistsBijection
  <2>6. IsFiniteSet(J)
    <3>1. IsFiniteSet(1 .. n) /\ J \subseteq 1 .. n
      BY <1>3, FS_Interval DEF J
    <3> QED BY <3>1, FS_Subset
  <2>7. Cardinality(J) = Cardinality(P)
    BY <2>5, <2>6, FS_Bijection
  <2> QED BY <2>7 DEF J, P
<1>14. \A i \in 1 .. n - 1 : list[i].left >= list[i + 1].left
  <2> TAKE i \in 1 .. n - 1
  <2>1. i \in 1 .. n /\ i + 1 \in 1 .. n /\ i < i + 1
    BY <1>3
  <2> QED BY <1>8, <2>1
<1> QED BY <1>9, <1>12, <1>13, <1>14 DEF Exact, list, lines, S

(* The lines of the empty text.                                             *)
LEMMA NoRow == None \in Text /\ Exact(None, Order(FormatLine(None)))
<1>1. None \in Text /\ ~EmptyLine(None)
  BY EmptySeq DEF None, Text, EmptyLine
<1> QED BY ONLY <1>1, OrderExact

(* Nothing but the row of the database gives levels until a message sets them.*)
LevelsInv ==
  /\ text \in Text
  /\ ~EmptyLine(text) /\ ~levelsSet => Exact(text, levels)

LEMMA LevelsInvSuffices == LevelsInv => LevelsRead
BY DEF LevelsInv, LevelsRead, Exact

(* setting.hpp: however long the row of user_level is, and however many its   *)
(* lines, formatLine and order give each of them once and the highest first,  *)
(* until user_level is set, unless an empty line misleads formatLine.        *)
THEOREM LevelsSafe == SettingsSpec => []LevelsRead
<1>1. Unset => LevelsInv
  <2> SUFFICES ASSUME Unset PROVE LevelsInv
    OBVIOUS
  <2>1. text = <<>> /\ levels = <<>>
    BY DEF Unset
  <2>2. LevelLines(<<>>) = {}
    <3>1. \A p \in {1} : ~(Place(<<>>, ":", p) \in p .. LineEnd(<<>>, p) - 1)
      BY DEF Place, LineEnd
    <3> QED BY <3>1 DEF LevelLines
  <2>3. Exact(<<>>, <<>>)
    BY <2>2, FS_EmptySet DEF Exact
  <2> QED BY <2>1, <2>3, NoRow DEF LevelsInv, None
<1>2. LevelsInv /\ [Construct \/ SettingsNext]_settingVars => LevelsInv'
  <2> SUFFICES ASSUME LevelsInv, [Construct \/ SettingsNext]_settingVars
               PROVE  LevelsInv'
    OBVIOUS
  <2>1. CASE Construct
    <3>1. text' \in Levels \cup {<<>>} /\ levels' = Order(FormatLine(text'))
      BY <2>1 DEF Construct, LoadSystem
    <3>2. text' \in Text
      <4>1. Levels \subseteq Text
        BY SettingsAssumption DEF Text, Char
      <4> QED BY <3>1, <4>1, EmptySeq DEF Text
    <3>3. ~EmptyLine(text') => Exact(text', levels')
      BY <3>1, <3>2, OrderExact
    <3> QED BY <3>2, <3>3 DEF LevelsInv
  <2>2. ASSUME NEW arrival \in Arrivals, Receive(arrival)
        PROVE  LevelsInv'
    <3>1. text' = text
      BY <2>2 DEF Receive
    <3>2. \/ levels' = levels /\ levelsSet' = levelsSet
          \/ /\ levelsSet' \/ levels' = levels
             /\ levelsSet => levelsSet'
      BY <2>2 DEF Receive, SetSetting
    <3> QED BY <3>1, <3>2 DEF LevelsInv
  <2>3. ASSUME NEW n \in Lengths, ReceivePast(n)
        PROVE  LevelsInv'
    BY <2>3 DEF ReceivePast, LevelsInv
  <2>4. CASE UNCHANGED settingVars
    BY <2>4 DEF settingVars, LevelsInv
  <2> QED BY <2>1, <2>2, <2>3, <2>4 DEF SettingsNext
<1> QED BY <1>1, <1>2, LevelsInvSuffices, PTL DEF SettingsSpec

----------------------------------------------------------------------------
(* What the messages of an administrator are made of, and how parseString     *)
(* walks through them.                                                     *)
Letter == {"{", "}", ",", ":", " ", "'", "\"", "op", "data", "set setting", "other"}
            \cup Key \cup Numeric
Letters == Seq(Letter)

LEMMA LetterIs == NUL \notin Letter /\ "\\" \notin Letter /\ "-" \notin Letter
BY DEF Letter, NUL, Key, Numeric, Digits

LEMMA AtIs ==
  ASSUME NEW t \in Letters
  PROVE  /\ Len(t) \in Nat /\ DOMAIN t = 1 .. Len(t)
         /\ \A p \in 1 .. Len(t) : At(t, p) = t[p] /\ t[p] \in Letter
         /\ \A p : p \notin 1 .. Len(t) => At(t, p) = NUL
         /\ \A p : At(t, p) # NUL => p \in 1 .. Len(t) /\ At(t, p) = t[p]
<1>1. Len(t) \in Nat /\ DOMAIN t = 1 .. Len(t) /\ \A p \in 1 .. Len(t) : t[p] \in Letter
  BY DEF Letters
<1> QED BY <1>1, LetterIs DEF At

(* The first place from p on that is in T, with the one behind the text.      *)
LEMMA FirstIs ==
  ASSUME NEW n \in Nat, NEW p \in 1 .. n + 1, NEW T, T \subseteq p .. n + 1, n + 1 \in T
  PROVE  /\ Min(T) \in T /\ Min(T) \in p .. n + 1
         /\ \A q \in p .. Min(T) - 1 : q \notin T
         /\ \A e \in T : (\A q \in p .. e - 1 : q \notin T) => Min(T) = e
<1>1. T \in SUBSET Nat /\ T # {}
  OBVIOUS
<1>2. Min(T) \in T /\ \A q \in T : Min(T) <= q
  BY <1>1, MinIs
<1> DEFINE m == Min(T)
<1> HIDE DEF m
<1>3. m \in T /\ m \in p .. n + 1 /\ \A q \in T : m <= q
  BY <1>2 DEF m
<1>4. \A q \in p .. m - 1 : q \notin T
  BY <1>3
<1>5. ASSUME NEW e \in T, \A q \in p .. e - 1 : q \notin T
      PROVE  m = e
  <2>1. m <= e /\ e \in p .. n + 1
    BY <1>3
  <2>2. ~(m < e)
    BY <1>3, <1>5, <2>1
  <2> QED BY <1>3, <2>1, <2>2
<1> QED BY <1>3, <1>4, <1>5 DEF m

LEMMA Goes ==
  ASSUME NEW t \in Letters, NEW p \in 1 .. Len(t) + 1, NEW C
  PROVE  /\ Past(t, p, C) \in p .. Len(t) + 1
         /\ \A q \in p .. Past(t, p, C) - 1 : t[q] \in C
         /\ Past(t, p, C) <= Len(t) => t[Past(t, p, C)] \notin C
         /\ \A e \in p .. Len(t) + 1 :
              (\A q \in p .. e - 1 : t[q] \in C) /\ (e <= Len(t) => t[e] \notin C)
                => Past(t, p, C) = e
<1> DEFINE n == Len(t)
           T == {q \in p .. n + 1 : q > n \/ t[q] \notin C}
<1>1. n \in Nat
  BY AtIs
<1>2. Max({p, n + 1}) = n + 1
  BY <1>1, Bound
<1>3. Past(t, p, C) = Min(T)
  BY <1>2 DEF Past
<1>4. T \subseteq p .. n + 1 /\ n + 1 \in T
  BY <1>1
<1> DEFINE m == Min(T)
<1>5. /\ m \in T /\ m \in p .. n + 1
      /\ \A q \in p .. m - 1 : q \notin T
      /\ \A e \in T : (\A q \in p .. e - 1 : q \notin T) => m = e
  <2> HIDE DEF T, n
  <2> QED BY <1>1, <1>4, FirstIs DEF n
<1> HIDE DEF m
<1>6. \A q \in p .. m - 1 : t[q] \in C
  BY <1>1, <1>5
<1>7. m <= n => t[m] \notin C
  BY <1>1, <1>5
<1>8. ASSUME NEW e \in p .. n + 1, \A q \in p .. e - 1 : t[q] \in C, e <= n => t[e] \notin C
      PROVE  m = e
  <2>1. e \in T
    BY <1>1, <1>8
  <2>2. \A q \in p .. e - 1 : q \notin T
    BY <1>1, <1>8
  <2> QED BY <1>5, <2>1, <2>2
<1> QED BY <1>3, <1>5, <1>6, <1>7, <1>8 DEF m

LEMMA Comes ==
  ASSUME NEW t \in Letters, NEW p \in 1 .. Len(t) + 1, NEW C
  PROVE  /\ Upto(t, p, C) \in p .. Len(t) + 1
         /\ Upto(t, p, C) <= Len(t) => t[Upto(t, p, C)] \in C
         /\ \A e \in p .. Len(t) + 1 :
              (\A q \in p .. e - 1 : t[q] \notin C) /\ (e <= Len(t) => t[e] \in C)
                => Upto(t, p, C) = e
<1> DEFINE n == Len(t)
           T == {q \in p .. n + 1 : q > n \/ t[q] \in C}
<1>1. n \in Nat
  BY AtIs
<1>2. Max({p, n + 1}) = n + 1
  BY <1>1, Bound
<1>3. Upto(t, p, C) = Min(T)
  BY <1>2 DEF Upto
<1>4. T \subseteq p .. n + 1 /\ n + 1 \in T
  BY <1>1
<1> DEFINE m == Min(T)
<1>5. /\ m \in T /\ m \in p .. n + 1
      /\ \A q \in p .. m - 1 : q \notin T
      /\ \A e \in T : (\A q \in p .. e - 1 : q \notin T) => m = e
  <2> HIDE DEF T, n
  <2> QED BY <1>1, <1>4, FirstIs DEF n
<1> HIDE DEF m
<1>7. m <= n => t[m] \in C
  BY <1>1, <1>5
<1>8. ASSUME NEW e \in p .. n + 1, \A q \in p .. e - 1 : t[q] \notin C, e <= n => t[e] \in C
      PROVE  m = e
  <2>1. e \in T
    BY <1>1, <1>8
  <2>2. \A q \in p .. e - 1 : q \notin T
    BY <1>1, <1>8
  <2> QED BY <1>5, <2>1, <2>2
<1> QED BY <1>3, <1>5, <1>7, <1>8 DEF m

Space == " "
ColonMark == ":"
Closing == "}"
Opening == "{"
Comma == ","

LEMMA Skips ==
  ASSUME NEW t \in Letters, NEW p \in 1 .. Len(t) + 1
  PROVE  /\ Skip(t, p) \in p .. Len(t) + 1
         /\ \A e \in p .. Len(t) + 1 :
              (\A q \in p .. e - 1 : t[q] = Space) /\ (e <= Len(t) => t[e] # Space) => Skip(t, p) = e
<1>1. /\ Skip(t, p) \in p .. Len(t) + 1
      /\ \A e \in p .. Len(t) + 1 :
           (\A q \in p .. e - 1 : t[q] \in {Space}) /\ (e <= Len(t) => t[e] \notin {Space})
             => Skip(t, p) = e
  BY Goes DEF Skip, Space
<1> QED BY <1>1

LEMMA FoundIs ==
  ASSUME NEW t, NEW from, NEW end, NEW next, NEW C
  PROVE  /\ Found(t, from, end, next, C).text = Between(t, from, end)
         /\ Found(t, from, end, next, C).at = next
         /\ Found(t, from, end, next, C).ok <=> At(t, next) \in C
<1>1. Found(t, from, end, next, C).text = Between(t, from, end)
  BY DEF Found
<1>2. Found(t, from, end, next, C).at = next
  BY DEF Found
<1>3. Found(t, from, end, next, C).ok <=> At(t, next) \in C
  BY DEF Found
<1> QED BY <1>1, <1>2, <1>3

(* Where a key that is looked for from place p on ends, or fails.            *)
LEMMA KeyAtIs ==
  ASSUME NEW t \in Letters, NEW p \in 1 .. Len(t) + 1
  PROVE  /\ KeyAt(t, p).at \in p .. Len(t) + 1
         /\ KeyAt(t, p).ok => KeyAt(t, p).at \in p .. Len(t)
<1> DEFINE n == Len(t)
           start == Skip(t, p)
           sign == {At(t, start)} \cap Signs
           from == IF sign = {} THEN start ELSE start + 1
           C == IF sign = {} THEN {" ", ":"} ELSE sign \cup {" "}
           end == Upto(t, from, C)
           behind == IF sign = {} THEN end ELSE end + 1
           colon == Skip(t, behind)
<1>1. n \in Nat /\ start \in p .. n + 1
  BY AtIs, Skips
<1>2. sign # {} => start <= n
  <2>1. sign # {} => At(t, start) # NUL
    BY DEF Signs, NUL
  <2> QED BY <2>1, AtIs
<1>3. KeyAt(t, p) = CASE At(t, end) = NUL -> Error(end)
                      [] At(t, end) = " " /\ sign # {} -> Error(end)
                      [] OTHER -> IF end = from THEN Error(colon)
                                  ELSE Found(t, from, end, colon, {":"})
  BY DEF KeyAt
<1> HIDE DEF start, sign
<1>4. from \in p .. n + 1
  BY <1>1, <1>2
<1> HIDE DEF from, C
<1>5. end \in from .. n + 1
  BY <1>1, <1>4, Comes
<1> HIDE DEF end
<1>6. At(t, end) # NUL => end <= n
  BY <1>1, AtIs
<1>7. At(t, end) # NUL => colon \in p .. n + 1
  <2>1. At(t, end) # NUL => behind \in p .. n + 1 /\ behind \in 1 .. n + 1
    BY <1>1, <1>4, <1>5, <1>6
  <2> HIDE DEF behind
  <2>2. behind \in 1 .. n + 1 => colon \in behind .. n + 1
    BY Skips
  <2> QED BY <1>1, <2>1, <2>2
<1>8. end \in p .. n + 1
  BY <1>1, <1>4, <1>5
<1> HIDE DEF colon
<1>9. At(t, colon) \in {":"} => colon <= n
  <2>1. At(t, colon) \in {":"} => At(t, colon) # NUL
    BY DEF NUL
  <2> QED BY <2>1, AtIs
<1>10. \/ At(t, end) # NUL /\ KeyAt(t, p) = Found(t, from, end, colon, {":"})
       \/ At(t, end) # NUL /\ KeyAt(t, p) = Error(colon)
       \/ KeyAt(t, p) = Error(end)
  BY <1>3
<1>11. CASE At(t, end) # NUL /\ KeyAt(t, p) = Found(t, from, end, colon, {":"})
  <2>1. KeyAt(t, p).at = colon /\ (KeyAt(t, p).ok <=> At(t, colon) \in {":"})
    BY <1>11, FoundIs
  <2> QED BY <1>1, <1>7, <1>9, <1>11, <2>1
<1>12. CASE At(t, end) # NUL /\ KeyAt(t, p) = Error(colon)
  BY <1>7, <1>12 DEF Error
<1>13. CASE KeyAt(t, p) = Error(end)
  BY <1>8, <1>13 DEF Error
<1> QED BY <1>10, <1>11, <1>12, <1>13

(* Where a value ends, or fails: one that is found has a comma or a brace     *)
(* behind it, and there is no value at the end of the text.                 *)
LEMMA ValueAtIs ==
  ASSUME NEW t \in Letters, NEW p \in 1 .. Len(t) + 1
  PROVE  /\ ValueAt(t, p).at \in p .. Len(t) + 1
         /\ ValueAt(t, p).ok =>
              \/ ValueAt(t, p).text = None /\ ValueAt(t, p).at = Len(t) + 1
              \/ ValueAt(t, p).at \in 1 .. Len(t) /\ t[ValueAt(t, p).at] \in {",", "}"}
<1> DEFINE n == Len(t)
           sign == {At(t, p)} \cap Signs
           from == IF sign = {} THEN p ELSE p + 1
           number == IF At(t, from) = "-" THEN from + 1 ELSE from
           T == {q \in from .. n + 1 : q > n \/ (t[q] \in sign /\ t[q - 1] # "\\")}
           end == IF sign = {} THEN Past(t, number, Numeric) ELSE Min(T)
           behind == IF sign = {} THEN end ELSE end + 1
           next == Skip(t, behind)
<1>1. n \in Nat
  BY AtIs
<1>2. sign # {} => p <= n
  <2>1. sign # {} => At(t, p) # NUL
    BY DEF Signs, NUL
  <2> QED BY <2>1, AtIs
<1>3. ValueAt(t, p) = IF At(t, end) = NUL THEN [Error(end) EXCEPT !.ok = TRUE]
                      ELSE Found(t, from, end, next, {",", "}"})
  BY DEF ValueAt
<1>4. from \in p .. n + 1
  BY <1>1, <1>2
<1>5. T \subseteq from .. n + 1 /\ n + 1 \in T
  BY <1>1, <1>4
<1> HIDE DEF sign, from
<1>6. number \in p .. n + 1 /\ number \in 1 .. n + 1
  <2>1. At(t, from) = "-" => from <= n
    <3>1. At(t, from) = "-" => At(t, from) # NUL
      BY DEF NUL
    <3> QED BY <3>1, AtIs
  <2> QED BY <1>1, <1>4, <2>1
<1> HIDE DEF number
<1>7. end \in p .. n + 1
  <2>1. CASE sign = {}
    <3>1. Past(t, number, Numeric) \in number .. n + 1
      BY <1>6, Goes
    <3> QED BY <1>6, <2>1, <3>1
  <2>2. CASE sign # {}
    <3>1. from \in 1 .. n + 1
      BY <1>1, <1>4
    <3>2. Min(T) \in from .. n + 1
      <4> HIDE DEF T, n
      <4> QED BY <1>1, <1>5, <3>1, FirstIs
    <3> QED BY <1>1, <1>4, <2>2, <3>2
  <2> QED BY <2>1, <2>2
<1> HIDE DEF end
<1>8. IF At(t, end) = NUL THEN end = n + 1 ELSE end <= n
  <2>1. end \in 1 .. n => At(t, end) # NUL
    BY AtIs, LetterIs
  <2>2. At(t, end) # NUL => end \in 1 .. n
    BY AtIs
  <2> QED BY <1>1, <1>7, <2>1, <2>2
<1>9. At(t, end) # NUL => next \in p .. n + 1
  <2>1. At(t, end) # NUL => behind \in p .. n + 1 /\ behind \in 1 .. n + 1
    BY <1>1, <1>7, <1>8
  <2> HIDE DEF behind
  <2>2. behind \in 1 .. n + 1 => next \in behind .. n + 1
    BY Skips
  <2> QED BY <1>1, <2>1, <2>2
<1> HIDE DEF next
<1>10. At(t, next) \in {",", "}"} => next \in 1 .. n /\ t[next] \in {",", "}"}
  <2>1. At(t, next) \in {",", "}"} => At(t, next) # NUL
    BY DEF NUL
  <2> QED BY <2>1, AtIs
<1>11. CASE At(t, end) = NUL
  <2>1. ValueAt(t, p) = [text |-> None, at |-> end, ok |-> TRUE]
    BY <1>3, <1>11 DEF Error
  <2> QED BY <1>7, <1>8, <1>11, <2>1
<1>12. CASE At(t, end) # NUL
  <2>1. ValueAt(t, p).at = next /\ (ValueAt(t, p).ok <=> At(t, next) \in {",", "}"})
    <3> DEFINE C == {",", "}"}
               found == Found(t, from, end, next, C)
    <3>1. ValueAt(t, p) = found
      BY <1>3, <1>12
    <3>2. found.at = next /\ (found.ok <=> At(t, next) \in C)
      <4> HIDE DEF C
      <4> QED BY ONLY FoundIs
    <3> HIDE DEF found
    <3> QED BY <3>1, <3>2
  <2> QED BY <1>9, <1>10, <1>12, <2>1
<1> QED BY <1>11, <1>12

(* The loop of parseString, from place p on in an object or not.            *)
Closes(t, c, q) == c /\ At(t, q) = "}"
On(t, f, c, q) ==
  IF q > Len(t) + 1 \/ Closes(t, c, q) THEN Stopped(t, q) ELSE f[q][c]
ValueStart(t, p) == Skip(t, KeyAt(t, p + 1).at + 1)
ValueBehind(t, p) == ValueAt(t, ValueStart(t, p))

PairsStep(t, f) ==
  [p \in 1 .. Len(t) + 1 |->
    [child \in BOOLEAN |->
       LET closes(q) == child /\ At(t, q) = "}"
           on(q) == IF q > Len(t) + 1 \/ closes(q) THEN Stopped(t, q)
                    ELSE f[q][child]
           key == KeyAt(t, p + 1)
           start == Skip(t, key.at + 1)
           inner == f[start][TRUE]
           value == ValueAt(t, start)
       IN  CASE p > Len(t) -> [pairs |-> <<>>, at |-> p + 1, past |-> FALSE]
             [] p <= Len(t) /\ closes(p + 1) -> Stopped(t, p + 1)
             [] p <= Len(t) /\ ~closes(p + 1) /\ ~key.ok -> Stopped(t, key.at)
             [] p <= Len(t) /\ ~closes(p + 1) /\ key.ok /\ At(t, start) = "{" ->
                  InFront(Copied(key, None, inner.pairs), on(inner.at + 1))
             [] OTHER ->
                  InFront(Copied(key, IF value.ok THEN value.text ELSE None, <<>>),
                         IF value.ok THEN on(value.at) ELSE Stopped(t, value.at))]]

Plain(t, f, c, p) ==
  InFront(Copied(KeyAt(t, p + 1), IF ValueBehind(t, p).ok THEN ValueBehind(t, p).text ELSE None, <<>>),
         IF ValueBehind(t, p).ok THEN On(t, f, c, ValueBehind(t, p).at) ELSE Stopped(t, ValueBehind(t, p).at))
Nested(t, f, c, p) ==
  InFront(Copied(KeyAt(t, p + 1), None, f[ValueStart(t, p)][TRUE].pairs),
         On(t, f, c, f[ValueStart(t, p)][TRUE].at + 1))
Over(p) == [pairs |-> <<>>, at |-> p + 1, past |-> FALSE]

LEMMA PairsStepIs ==
  ASSUME NEW t \in Letters, NEW f, NEW p \in 1 .. Len(t) + 1, NEW c \in BOOLEAN
  PROVE  /\ p > Len(t) => PairsStep(t, f)[p][c] = Over(p)
         /\ p <= Len(t) /\ Closes(t, c, p + 1) => PairsStep(t, f)[p][c] = Stopped(t, p + 1)
         /\ p <= Len(t) /\ ~Closes(t, c, p + 1) /\ ~KeyAt(t, p + 1).ok =>
              PairsStep(t, f)[p][c] = Stopped(t, KeyAt(t, p + 1).at)
         /\ p <= Len(t) /\ ~Closes(t, c, p + 1) /\ KeyAt(t, p + 1).ok =>
              /\ At(t, ValueStart(t, p)) = "{" => PairsStep(t, f)[p][c] = Nested(t, f, c, p)
              /\ At(t, ValueStart(t, p)) # "{" => PairsStep(t, f)[p][c] = Plain(t, f, c, p)
<1> DEFINE ok == KeyAt(t, p + 1).ok
           brace == At(t, ValueStart(t, p)) = "{"
           closed == Closes(t, c, p + 1)
           A1 == Over(p)
           A2 == Stopped(t, p + 1)
           A3 == Stopped(t, KeyAt(t, p + 1).at)
           A4 == Nested(t, f, c, p)
           A5 == Plain(t, f, c, p)
<1>1. Len(t) \in Nat
  BY AtIs
<1>2. PairsStep(t, f)[p][c] =
        CASE p > Len(t) -> A1
          [] p <= Len(t) /\ closed -> A2
          [] p <= Len(t) /\ ~closed /\ ~ok -> A3
          [] p <= Len(t) /\ ~closed /\ ok /\ brace -> A4
          [] OTHER -> A5
  BY DEF PairsStep, Over, Nested, Plain, On, Closes, ValueStart, ValueBehind
<1> DEFINE x == PairsStep(t, f)[p][c]
<1> HIDE DEF ok, brace, closed, A1, A2, A3, A4, A5, x
<1>3. p > Len(t) <=> ~(p <= Len(t))
  BY <1>1
<1>4. x = CASE p > Len(t) -> A1
            [] p <= Len(t) /\ closed -> A2
            [] p <= Len(t) /\ ~closed /\ ~ok -> A3
            [] p <= Len(t) /\ ~closed /\ ok /\ brace -> A4
            [] OTHER -> A5
  BY <1>2 DEF x
<1>5. /\ p > Len(t) => x = A1
      /\ p <= Len(t) /\ closed => x = A2
      /\ p <= Len(t) /\ ~closed /\ ~ok => x = A3
      /\ p <= Len(t) /\ ~closed /\ ok => (brace => x = A4) /\ (~brace => x = A5)
  BY <1>3, <1>4
<1> QED BY <1>5 DEF x, ok, brace, closed, A1, A2, A3, A4, A5

(* Where the value of a key starts: behind it, in the text or at its end.     *)
LEMMA StartIs ==
  ASSUME NEW t \in Letters, NEW p \in 1 .. Len(t)
  PROVE  /\ KeyAt(t, p + 1).at \in p + 1 .. Len(t) + 1
         /\ KeyAt(t, p + 1).ok =>
              /\ ValueStart(t, p) \in p + 2 .. Len(t) + 1
              /\ ValueBehind(t, p).at \in p + 2 .. Len(t) + 1
              /\ ValueBehind(t, p).ok =>
                   \/ ValueBehind(t, p).text = None /\ ValueBehind(t, p).at = Len(t) + 1
                   \/ ValueBehind(t, p).at \in 1 .. Len(t) /\ t[ValueBehind(t, p).at] \in {",", "}"}
<1> DEFINE at == KeyAt(t, p + 1).at
           ok == KeyAt(t, p + 1).ok
<1>1. Len(t) \in Nat
  BY AtIs
<1>2. at \in p + 1 .. Len(t) + 1 /\ (ok => at \in p + 1 .. Len(t))
  <2>1. p + 1 \in 1 .. Len(t) + 1
    BY <1>1
  <2> QED BY <2>1, KeyAtIs
<1> HIDE DEF at, ok
<1>3. ASSUME ok
      PROVE  /\ ValueStart(t, p) \in p + 2 .. Len(t) + 1
             /\ ValueBehind(t, p).at \in p + 2 .. Len(t) + 1
             /\ ValueBehind(t, p).ok =>
                   \/ ValueBehind(t, p).text = None /\ ValueBehind(t, p).at = Len(t) + 1
                   \/ ValueBehind(t, p).at \in 1 .. Len(t) /\ t[ValueBehind(t, p).at] \in {",", "}"}
  <2> DEFINE start == ValueStart(t, p)
  <2>1. at + 1 \in 1 .. Len(t) + 1
    BY <1>1, <1>2, <1>3
  <2>2. start \in at + 1 .. Len(t) + 1
    <3>1. start = Skip(t, at + 1)
      BY DEF ValueStart, at
    <3> QED BY <2>1, <3>1, Skips
  <2> HIDE DEF start
  <2>3. start \in p + 2 .. Len(t) + 1 /\ start \in 1 .. Len(t) + 1
    BY <1>1, <1>2, <1>3, <2>2
  <2>4. ValueBehind(t, p) = ValueAt(t, start)
    BY DEF ValueBehind, start
  <2>5. /\ ValueAt(t, start).at \in start .. Len(t) + 1
        /\ ValueAt(t, start).ok =>
              \/ ValueAt(t, start).text = None /\ ValueAt(t, start).at = Len(t) + 1
              \/ /\ ValueAt(t, start).at \in 1 .. Len(t)
                 /\ t[ValueAt(t, start).at] \in {",", "}"}
    BY <2>3, ValueAtIs
  <2>6. ValueAt(t, start).at \in p + 2 .. Len(t) + 1
    <3> DEFINE end == ValueAt(t, start).at
    <3>1. end \in start .. Len(t) + 1
      BY <2>5
    <3> HIDE DEF end
    <3>2. end \in p + 2 .. Len(t) + 1
      BY <1>1, <2>3, <3>1
    <3> QED BY <3>2 DEF end
  <2> QED BY <2>3, <2>4, <2>5, <2>6 DEF start
<1> QED BY <1>2, <1>3 DEF at, ok

(* From there on the loop runs forward, and gives a list.                   *)
Runs(f, c, p) ==
  f[p][c].at \in Nat /\ f[p][c].at > p /\ \E S : f[p][c].pairs \in Seq(S)
RunsBehind(t, f, p) ==
  \A q \in 1 .. Len(t) + 1 : q > p => \A c \in BOOLEAN : Runs(f, c, q)

LEMMA OnRuns ==
  ASSUME NEW t \in Letters, NEW f, NEW p \in 1 .. Len(t) + 1, RunsBehind(t, f, p),
         NEW c \in BOOLEAN, NEW q \in Nat, q > p
  PROVE  /\ On(t, f, c, q).at \in Nat /\ On(t, f, c, q).at > p
         /\ \E S : On(t, f, c, q).pairs \in Seq(S)
<1>1. Len(t) \in Nat
  BY AtIs
<1>2. CASE q > Len(t) + 1 \/ Closes(t, c, q)
  <2>1. On(t, f, c, q) = [pairs |-> <<>>, at |-> q, past |-> q > Len(t) + 1]
    BY <1>2 DEF On, Stopped
  <2>2. <<>> \in Seq({})
    BY EmptySeq
  <2>3. On(t, f, c, q).at = q /\ On(t, f, c, q).pairs \in Seq({})
    BY <2>1, <2>2
  <2> QED BY <2>3
<1>3. CASE ~(q > Len(t) + 1 \/ Closes(t, c, q))
  <2>1. q \in 1 .. Len(t) + 1
    BY <1>1, <1>3
  <2>2. Runs(f, c, q) /\ On(t, f, c, q) = f[q][c]
    BY <1>3, <2>1 DEF RunsBehind, On
  <2>3. f[q][c].at \in Nat /\ f[q][c].at > q /\ \E S : f[q][c].pairs \in Seq(S)
    BY <2>2 DEF Runs
  <2> DEFINE at == f[q][c].at
  <2>4. at > p
    <3> HIDE DEF at
    <3> QED BY <1>1, <2>3 DEF at
  <2> QED BY <2>2, <2>3, <2>4
<1> QED BY <1>2, <1>3

LEMMA InFrontIs ==
  ASSUME NEW pair, NEW rest
  PROVE  /\ InFront(pair, rest).pairs = <<pair>> \o rest.pairs
         /\ InFront(pair, rest).at = rest.at
         /\ InFront(pair, rest).past = rest.past
BY DEF InFront

LEMMA InFrontRuns ==
  ASSUME NEW pair, NEW rest, NEW S, rest.pairs \in Seq(S)
  PROVE  \E R : InFront(pair, rest).pairs \in Seq(R)
<1> DEFINE R == S \cup {pair}
           s == rest.pairs
<1>1. s \in Seq(R)
  BY SeqMonotonic
<1>2. <<pair>> \in Seq(R)
  OBVIOUS
<1>3. <<pair>> \o s \in Seq(R)
  <2> HIDE DEF R, s
  <2> QED BY <1>1, <1>2, ConcatProperties
<1>4. InFront(pair, rest).pairs = <<pair>> \o s
  BY InFrontIs
<1> HIDE DEF R, s
<1>5. InFront(pair, rest).pairs \in Seq(R)
  BY <1>3, <1>4
<1> QED BY <1>5

LEMMA StepRuns ==
  ASSUME NEW t \in Letters, NEW f, NEW p \in 1 .. Len(t) + 1, RunsBehind(t, f, p),
         NEW c \in BOOLEAN
  PROVE  Runs(PairsStep(t, f), c, p)
<1> DEFINE x == PairsStep(t, f)[p][c]
           key == KeyAt(t, p + 1)
           ok == key.ok
           closed == Closes(t, c, p + 1)
           start == ValueStart(t, p)
           one == ValueBehind(t, p)
           brace == At(t, start) = "{"
           Fine(y) == y.at \in Nat /\ y.at > p /\ \E S : y.pairs \in Seq(S)
<1>1. Len(t) \in Nat
  BY AtIs
<1>2. /\ p > Len(t) => x = Over(p)
      /\ p <= Len(t) /\ closed => x = Stopped(t, p + 1)
      /\ p <= Len(t) /\ ~closed /\ ~ok => x = Stopped(t, key.at)
      /\ p <= Len(t) /\ ~closed /\ ok =>
            /\ brace => x = Nested(t, f, c, p)
            /\ ~brace => x = Plain(t, f, c, p)
  BY PairsStepIs
<1>3. p <= Len(t) => /\ key.at \in p + 1 .. Len(t) + 1
                     /\ ok => start \in p + 2 .. Len(t) + 1 /\ one.at \in p + 2 .. Len(t) + 1
  <2>1. p <= Len(t) => p \in 1 .. Len(t)
    BY <1>1
  <2> QED BY <2>1, StartIs
<1>4. ASSUME NEW q \in Nat, q > p PROVE Fine(Stopped(t, q))
  <2>1. <<>> \in Seq({})
    BY EmptySeq
  <2>2. Stopped(t, q).at = q /\ Stopped(t, q).pairs \in Seq({})
    BY <2>1 DEF Stopped
  <2> QED BY <1>4, <2>2
<1>5. ASSUME NEW pair, NEW rest, Fine(rest) PROVE Fine(InFront(pair, rest))
  <2>1. \E R : InFront(pair, rest).pairs \in Seq(R)
    BY <1>5, InFrontRuns
  <2>2. InFront(pair, rest).at = rest.at
    BY InFrontIs
  <2> QED BY <1>5, <2>1, <2>2
<1>6. ASSUME NEW q \in Nat, q > p PROVE Fine(On(t, f, c, q))
  BY <1>6, OnRuns
<1>7. CASE p > Len(t)
  <2>1. <<>> \in Seq({})
    BY EmptySeq
  <2>2. x.at = p + 1 /\ x.pairs \in Seq({})
    <3>1. Over(p).at = p + 1 /\ Over(p).pairs = <<>>
      BY DEF Over
    <3>2. x = Over(p)
      BY <1>2, <1>7
    <3> HIDE DEF x
    <3> QED BY <2>1, <3>1, <3>2
  <2>3. Fine(x)
    <3> HIDE DEF x
    <3> QED BY <1>1, <2>2
  <2> QED BY <2>3 DEF Runs
<1> HIDE DEF x, Fine, key, start, one, closed, ok, brace
<1>8. CASE p <= Len(t) /\ closed
  <2>1. p + 1 \in Nat /\ p + 1 > p
    BY <1>1
  <2> QED BY <1>2, <1>4, <1>8, <2>1 DEF Runs, Fine, x
<1>9. CASE p <= Len(t) /\ ~closed /\ ~ok
  <2>1. key.at \in Nat /\ key.at > p
    BY <1>1, <1>3, <1>9
  <2> QED BY <1>2, <1>4, <1>9, <2>1 DEF Runs, Fine, x
<1>10. CASE p <= Len(t) /\ ~closed /\ ok /\ brace
  <2> DEFINE next == f[start][TRUE].at
  <2>1. start \in 1 .. Len(t) + 1 /\ start > p
    BY <1>1, <1>3, <1>10
  <2>2. next \in Nat /\ next > start
    BY <2>1 DEF RunsBehind, Runs
  <2>3. x = InFront(Copied(key, None, f[start][TRUE].pairs), On(t, f, c, next + 1))
    BY <1>2, <1>10 DEF Nested, start, key
  <2> HIDE DEF next
  <2>4. next + 1 \in Nat /\ next + 1 > p
    BY <1>1, <2>1, <2>2
  <2>5. Fine(x)
    BY <1>5, <1>6, <2>3, <2>4
  <2> QED BY <2>5 DEF Runs, Fine, x
<1>11. CASE p <= Len(t) /\ ~closed /\ ok /\ ~brace
  <2>1. one.at \in Nat /\ one.at > p
    BY <1>1, <1>3, <1>11
  <2> DEFINE rest == IF one.ok THEN On(t, f, c, one.at) ELSE Stopped(t, one.at)
             pair == Copied(key, IF one.ok THEN one.text ELSE None, <<>>)
  <2>2. x = InFront(pair, rest)
    BY <1>2, <1>11 DEF Plain, one, key
  <2>3. Fine(rest)
    <3>1. Fine(On(t, f, c, one.at)) /\ Fine(Stopped(t, one.at))
      BY <1>4, <1>6, <2>1
    <3> QED BY <3>1
  <2> HIDE DEF rest, pair
  <2>4. Fine(x)
    BY <1>5, <2>2, <2>3
  <2> QED BY <2>4 DEF Runs, Fine, x
<1> QED BY <1>1, <1>7, <1>8, <1>9, <1>10, <1>11

LEMMA StepRests ==
  ASSUME NEW t \in Letters, NEW f, NEW g, NEW p \in 1 .. Len(t) + 1, RunsBehind(t, f, p),
         \A q \in 1 .. Len(t) + 1 : q > p => f[q] = g[q], NEW c \in BOOLEAN
  PROVE  PairsStep(t, f)[p][c] = PairsStep(t, g)[p][c]
<1> DEFINE x == PairsStep(t, f)[p][c]
           y == PairsStep(t, g)[p][c]
           key == KeyAt(t, p + 1)
           closed == Closes(t, c, p + 1)
           ok == key.ok
           start == ValueStart(t, p)
           one == ValueBehind(t, p)
           brace == At(t, start) = "{"
<1>1. Len(t) \in Nat
  BY AtIs
<1>2. /\ p > Len(t) => x = Over(p)
      /\ p <= Len(t) /\ closed => x = Stopped(t, p + 1)
      /\ p <= Len(t) /\ ~closed /\ ~ok => x = Stopped(t, key.at)
      /\ p <= Len(t) /\ ~closed /\ ok =>
            /\ brace => x = Nested(t, f, c, p)
            /\ ~brace => x = Plain(t, f, c, p)
  BY PairsStepIs
<1>3. /\ p > Len(t) => y = Over(p)
      /\ p <= Len(t) /\ closed => y = Stopped(t, p + 1)
      /\ p <= Len(t) /\ ~closed /\ ~ok => y = Stopped(t, key.at)
      /\ p <= Len(t) /\ ~closed /\ ok =>
            /\ brace => y = Nested(t, g, c, p)
            /\ ~brace => y = Plain(t, g, c, p)
  BY PairsStepIs
<1>4. p <= Len(t) /\ ok => start \in p + 2 .. Len(t) + 1 /\ one.at \in p + 2 .. Len(t) + 1
  <2>1. p <= Len(t) => p \in 1 .. Len(t)
    BY <1>1
  <2> QED BY <2>1, StartIs
<1>5. ASSUME NEW q \in Nat, q > p PROVE On(t, f, c, q) = On(t, g, c, q)
  <2>1. ~(q > Len(t) + 1) => f[q] = g[q]
    <3>1. ~(q > Len(t) + 1) => q \in 1 .. Len(t) + 1
      BY <1>1, <1>5
    <3> QED BY <1>5, <3>1
  <2> DEFINE closing == Closes(t, c, q)
  <2>2. /\ On(t, f, c, q) = IF q > Len(t) + 1 \/ closing THEN Stopped(t, q) ELSE f[q][c]
        /\ On(t, g, c, q) = IF q > Len(t) + 1 \/ closing THEN Stopped(t, q) ELSE g[q][c]
    BY DEF On
  <2> HIDE DEF closing
  <2> QED BY <2>1, <2>2
<1> HIDE DEF key, closed, ok, start, one, brace, x, y
<1>6. ASSUME p <= Len(t), ok
      PROVE  Nested(t, f, c, p) = Nested(t, g, c, p)
  <2> DEFINE next == f[start][TRUE].at
  <2>1. start \in 1 .. Len(t) + 1 /\ start > p
    BY <1>1, <1>4, <1>6
  <2>2. f[start] = g[start]
    BY <2>1
  <2>3. next \in Nat /\ next > start
    BY <2>1 DEF RunsBehind, Runs
  <2> HIDE DEF next
  <2>4. On(t, f, c, next + 1) = On(t, g, c, next + 1)
    BY <1>1, <1>5, <2>1, <2>3
  <2>5. Nested(t, f, c, p) = InFront(Copied(key, None, f[start][TRUE].pairs),
                                     On(t, f, c, f[start][TRUE].at + 1))
    BY DEF Nested, key, start
  <2>6. Nested(t, g, c, p) = InFront(Copied(key, None, g[start][TRUE].pairs),
                                     On(t, g, c, g[start][TRUE].at + 1))
    BY DEF Nested, key, start
  <2> QED BY <2>2, <2>4, <2>5, <2>6 DEF next
<1>7. ASSUME p <= Len(t), ok
      PROVE  Plain(t, f, c, p) = Plain(t, g, c, p)
  <2> DEFINE end == one.at
             pair == Copied(key, IF one.ok THEN one.text ELSE None, <<>>)
             fine == one.ok
  <2>1. end \in Nat /\ end > p
    BY <1>1, <1>4, <1>7
  <2>2. On(t, f, c, end) = On(t, g, c, end)
    <3> HIDE DEF end
    <3> QED BY <1>5, <2>1
  <2>3. Plain(t, f, c, p) = InFront(pair, IF fine THEN On(t, f, c, end) ELSE Stopped(t, end))
    BY DEF Plain, key, one
  <2>4. Plain(t, g, c, p) = InFront(pair, IF fine THEN On(t, g, c, end) ELSE Stopped(t, end))
    BY DEF Plain, key, one
  <2> HIDE DEF end, pair, fine
  <2> QED BY <2>2, <2>3, <2>4
<1>8. x = y
  BY <1>1, <1>2, <1>3, <1>6, <1>7
<1> QED BY <1>8 DEF x, y

LEMMA FixedRuns ==
  ASSUME NEW t \in Letters, NEW f, f = PairsStep(t, f)
  PROVE  \A p \in 1 .. Len(t) + 1 : \A c \in BOOLEAN : Runs(f, c, p)
<1> DEFINE N == Len(t) + 1
           T == {k \in Nat : \A p \in 1 .. N : p > N - k => \A c \in BOOLEAN : Runs(f, c, p)}
<1>1. Len(t) \in Nat /\ N \in Nat
  BY AtIs
<1>2. 0 \in T
  BY <1>1
<1>3. ASSUME NEW k \in Nat, k \in T
      PROVE  k + 1 \in T
  <2>1. ASSUME NEW p \in 1 .. N, p > N - (k + 1), NEW c \in BOOLEAN
        PROVE  Runs(f, c, p)
    <3>1. \A q \in 1 .. N : q > p => q > N - k
      BY <1>1, <2>1
    <3>2. RunsBehind(t, f, p)
      BY <1>3, <3>1 DEF RunsBehind
    <3>3. Runs(PairsStep(t, f), c, p)
      BY <3>2, StepRuns
    <3> QED BY ONLY <3>3, f = PairsStep(t, f)
  <2> QED BY <2>1
<1>4. N \in T
  <2> HIDE DEF T
  <2> QED BY <1>1, <1>2, <1>3, Induction
<1>5. \A p \in 1 .. N : p > N - N
  BY <1>1
<1> QED BY <1>4, <1>5

(* parseString comes to an end on every text, and what it gives from a place   *)
(* on is what its loop does there.                                         *)
LEMMA PairsIs ==
  ASSUME NEW t \in Letters
  PROVE  /\ Pairs(t) = PairsStep(t, Pairs(t))
         /\ \A p \in 1 .. Len(t) + 1 : \A c \in BOOLEAN :
              /\ Pairs(t)[p][c] = PairsStep(t, Pairs(t))[p][c]
              /\ Runs(Pairs(t), c, p)
<1> DEFINE N == Len(t) + 1
           Same(f, k) == \A p \in 1 .. N : p > N - k =>
                           /\ f[p] = PairsStep(t, f)[p]
                           /\ \A c \in BOOLEAN : Runs(f, c, p)
           Whole(f) == \E g : f = PairsStep(t, g)
           T == {k \in Nat : \E f : Whole(f) /\ Same(f, k)}
<1>1. Len(t) \in Nat /\ N \in Nat
  BY AtIs
<1>2. 0 \in T
  <2> DEFINE f == PairsStep(t, <<>>)
  <2>1. Whole(f)
    OBVIOUS
  <2> HIDE DEF f, N
  <2>2. Same(f, 0)
    <3>1. \A p \in 1 .. N : ~(p > N - 0)
      BY <1>1
    <3> QED BY <3>1
  <2> QED BY <2>1, <2>2
<1>3. ASSUME NEW f, NEW k \in Nat, NEW p \in 1 .. N, p > N - (k + 1), Same(f, k)
      PROVE  RunsBehind(t, f, p)
  <2>1. \A q \in 1 .. N : q > p => q > N - k
    BY <1>1, <1>3
  <2> QED BY <1>3, <2>1 DEF RunsBehind
<1>4. ASSUME NEW k \in Nat, k \in T
      PROVE  k + 1 \in T
  <2>1. PICK f : Whole(f) /\ Same(f, k)
    BY <1>4
  <2> DEFINE g == PairsStep(t, f)
  <2>2. \A p \in 1 .. N : p > N - k => f[p] = g[p]
    BY <2>1
  <2>3. ASSUME NEW p \in 1 .. N, p > N - (k + 1)
        PROVE  g[p] = PairsStep(t, g)[p] /\ \A c \in BOOLEAN : Runs(g, c, p)
    <3>1. RunsBehind(t, f, p)
      BY <1>3, <2>1, <2>3
    <3>2. \A q \in 1 .. N : q > p => f[q] = g[q]
      <4>1. \A q \in 1 .. N : q > p => q > N - k
        BY <1>1, <2>3
      <4> QED BY <2>2, <4>1
    <3>3. \A c \in BOOLEAN : g[p][c] = PairsStep(t, g)[p][c]
      <4> HIDE DEF g
      <4> SUFFICES ASSUME NEW c \in BOOLEAN
                   PROVE  PairsStep(t, f)[p][c] = PairsStep(t, g)[p][c]
        BY DEF g
      <4> QED BY <3>1, <3>2, StepRests
    <3>4. g[p] = [c \in BOOLEAN |-> g[p][c]]
      BY DEF PairsStep
    <3>5. PairsStep(t, g)[p] = [c \in BOOLEAN |-> PairsStep(t, g)[p][c]]
      <4> HIDE DEF g
      <4> QED BY DEF PairsStep
    <3>6. \A c \in BOOLEAN : Runs(g, c, p)
      BY <3>1, StepRuns
    <3> HIDE DEF g
    <3> QED BY <3>3, <3>4, <3>5, <3>6
  <2>4. Whole(g)
    OBVIOUS
  <2> HIDE DEF g
  <2>5. Same(g, k + 1)
    BY <2>3
  <2> QED BY <2>4, <2>5
<1>5. N \in T
  <2> HIDE DEF T
  <2> QED BY <1>1, <1>2, <1>4, Induction
<1>6. PICK f : Whole(f) /\ Same(f, N)
  BY <1>5
<1>7. \A p \in 1 .. N : f[p] = PairsStep(t, f)[p] /\ \A c \in BOOLEAN : Runs(f, c, p)
  <2>1. \A p \in 1 .. N : p > N - N
    BY <1>1
  <2> QED BY <1>6, <2>1
<1>8. f = PairsStep(t, f)
  <2>1. f = [p \in 1 .. N |-> f[p]]
    BY <1>6 DEF PairsStep
  <2>2. PairsStep(t, f) = [p \in 1 .. N |-> PairsStep(t, f)[p]]
    BY DEF PairsStep
  <2> QED BY <1>7, <2>1, <2>2
<1>9. Pairs(t) = CHOOSE h : h = PairsStep(t, h)
  BY DEF Pairs, PairsStep
<1>10. Pairs(t) = PairsStep(t, Pairs(t))
  BY ONLY <1>8, <1>9
<1>11. \A p \in 1 .. Len(t) + 1 : \A c \in BOOLEAN : Runs(Pairs(t), c, p)
  BY <1>10, FixedRuns
<1> DEFINE h == Pairs(t)
<1>12. h = PairsStep(t, h)
  BY <1>10
<1> HIDE DEF h
<1>13. \A p \in 1 .. Len(t) + 1 : \A c \in BOOLEAN : h[p][c] = PairsStep(t, h)[p][c]
  BY <1>12
<1> QED BY <1>10, <1>11, <1>13 DEF h

----------------------------------------------------------------------------
(* A text without a backslash is copied as it is.                          *)
CopyStep(t, f) ==
  [p \in 1 .. Len(t) + 2 |->
     CASE p > Len(t) -> <<>>
       [] p <= Len(t) /\ t[p] # "\\" -> <<t[p]>> \o f[p + 1]
       [] OTHER -> <<IF p < Len(t) THEN t[p + 1] ELSE Garbage>> \o f[p + 2]]

LEMMA CopyStepIs ==
  ASSUME NEW t \in Letters, NEW f, NEW p \in 1 .. Len(t) + 2
  PROVE  /\ p > Len(t) => CopyStep(t, f)[p] = <<>>
         /\ p <= Len(t) => CopyStep(t, f)[p] = <<t[p]>> \o f[p + 1]
<1> DEFINE one == <<t[p]>> \o f[p + 1]
           two == <<IF p < Len(t) THEN t[p + 1] ELSE Garbage>> \o f[p + 2]
           escaped == t[p] = "\\"
<1>1. Len(t) \in Nat
  BY AtIs
<1>2. p <= Len(t) => ~escaped
  BY <1>1, AtIs, LetterIs
<1>3. CopyStep(t, f)[p] = CASE p > Len(t) -> <<>>
                            [] p <= Len(t) /\ ~escaped -> one
                            [] OTHER -> two
  BY DEF CopyStep
<1> HIDE DEF one, two, escaped
<1>4. /\ p > Len(t) => CopyStep(t, f)[p] = <<>>
      /\ p <= Len(t) => CopyStep(t, f)[p] = one
  BY <1>1, <1>2, <1>3
<1> QED BY <1>4 DEF one

LEMMA Copies ==
  ASSUME NEW t \in Letters
  PROVE  CopyStr(t) = t
<1> DEFINE n == Len(t)
           rest(p) == SubSeq(t, p, n)
           g == [p \in 1 .. n + 2 |-> rest(p)]
           f == CHOOSE h : h = CopyStep(t, h)
           T == {k \in Nat : \A p \in 1 .. n + 2 : p > n - k => f[p] = rest(p)}
<1>1. n \in Nat
  BY AtIs
<1>2. \A p \in Nat : p > n => rest(p) = <<>>
  BY <1>1, SubSeqEmpty
<1>3. \A p \in 1 .. n : rest(p) = <<t[p]>> \o rest(p + 1)
  <2> SUFFICES ASSUME NEW p \in 1 .. n PROVE rest(p) = <<t[p]>> \o rest(p + 1)
    OBVIOUS
  <2>1. n \in p .. n
    BY <1>1
  <2> QED BY <2>1, SubSeqRecursiveFirst DEF Letters
<1> HIDE DEF rest, f
<1>4. g = CopyStep(t, g)
  <2>1. ASSUME NEW p \in 1 .. n + 2
        PROVE  g[p] = CopyStep(t, g)[p]
    <3>1. CASE p > n
      <4>1. g[p] = <<>>
        BY <1>1, <1>2, <3>1
      <4>2. CopyStep(t, g)[p] = <<>>
        <5> HIDE DEF g
        <5> QED BY <3>1, CopyStepIs
      <4> QED BY <4>1, <4>2
    <3>2. CASE p <= n
      <4>1. g[p + 1] = rest(p + 1) /\ g[p] = rest(p) /\ p \in 1 .. n
        BY <1>1, <3>2
      <4>2. CopyStep(t, g)[p] = <<t[p]>> \o g[p + 1]
        <5> HIDE DEF g
        <5> QED BY <3>2, CopyStepIs
      <4> QED BY <1>3, <4>1, <4>2
    <3> QED BY <1>1, <3>1, <3>2
  <2>2. CopyStep(t, g) = [p \in 1 .. n + 2 |-> CopyStep(t, g)[p]]
    BY DEF CopyStep
  <2>3. g = [p \in 1 .. n + 2 |-> g[p]]
    OBVIOUS
  <2> HIDE DEF g
  <2> QED BY <2>1, <2>2, <2>3
<1> HIDE DEF g
<1>5. f = CopyStep(t, f)
  BY ONLY <1>4 DEF f
<1>6. \A p \in 1 .. n + 2 : f[p] = CopyStep(t, f)[p]
  BY <1>5
<1>7. 0 \in T
  <2>1. ASSUME NEW p \in 1 .. n + 2, p > n - 0 PROVE f[p] = rest(p)
    <3>1. p > n /\ p \in Nat
      BY <1>1, <2>1
    <3> QED BY <1>2, <1>6, <3>1, CopyStepIs
  <2> QED BY <2>1
<1>8. ASSUME NEW k \in Nat, k \in T PROVE k + 1 \in T
  <2>1. ASSUME NEW p \in 1 .. n + 2, p > n - (k + 1) PROVE f[p] = rest(p)
    <3>1. CASE p > n
      <4>1. p \in Nat
        OBVIOUS
      <4> QED BY <1>2, <1>6, <3>1, <4>1, CopyStepIs
    <3>2. CASE p <= n
      <4>1. p + 1 \in 1 .. n + 2 /\ p + 1 > n - k /\ p \in 1 .. n
        BY <1>1, <2>1, <3>2
      <4>2. f[p + 1] = rest(p + 1)
        BY <1>8, <4>1
      <4>3. f[p] = <<t[p]>> \o f[p + 1]
        BY <1>6, <3>2, CopyStepIs
      <4> QED BY <1>3, <4>1, <4>2, <4>3
    <3> QED BY <1>1, <3>1, <3>2
  <2> QED BY <2>1
<1>9. n \in T
  <2> HIDE DEF T
  <2> QED BY <1>1, <1>7, <1>8, Induction
<1>10. f[1] = rest(1)
  <2>1. 1 \in 1 .. n + 2 /\ 1 > n - n
    BY <1>1
  <2> QED BY <1>9, <2>1
<1>11. CopyStr(t) = f[1]
  BY DEF CopyStr, CopyStep, f
<1>12. rest(1) = t
  BY SubSeqFull DEF rest, Letters
<1> QED BY <1>10, <1>11, <1>12

(* s is in t from place p on.                                              *)
Spells(t, p, s) == \A i \in 1 .. Len(s) : p + i - 1 \in 1 .. Len(t) /\ t[p + i - 1] = s[i]

LEMMA HasParts ==
  ASSUME NEW t \in Letters, NEW p \in Nat \ {0}, NEW a \in Letters, NEW b \in Letters,
         Spells(t, p, a \o b)
  PROVE  Spells(t, p, a) /\ Spells(t, p + Len(a), b)
<1> DEFINE m == Len(a)
           n == Len(b)
           c == a \o b
<1>1. m \in Nat /\ n \in Nat
  BY AtIs
<1>2. Len(c) = m + n /\ \A i \in 1 .. m + n : c[i] = IF i <= m THEN a[i] ELSE b[i - m]
  BY ConcatProperties DEF Letters
<1>3. \A i \in 1 .. m + n : p + i - 1 \in 1 .. Len(t) /\ t[p + i - 1] = c[i]
  BY <1>2 DEF Spells
<1> HIDE DEF c, m, n
<1>4. \A i \in 1 .. m : p + i - 1 \in 1 .. Len(t) /\ t[p + i - 1] = a[i]
  BY <1>1, <1>2, <1>3
<1>5. ASSUME NEW i \in 1 .. n
      PROVE  (p + m) + i - 1 \in 1 .. Len(t) /\ t[(p + m) + i - 1] = b[i]
  <2>1. m + i \in 1 .. m + n /\ ~(m + i <= m) /\ (m + i) - m = i
        /\ p + (m + i) - 1 = (p + m) + i - 1
    BY <1>1
  <2> QED BY <1>2, <1>3, <2>1
<1> QED BY <1>4, <1>5 DEF Spells, m, n

LEMMA HasOne ==
  ASSUME NEW t \in Letters, NEW p \in Nat \ {0}, NEW x, Spells(t, p, <<x>>)
  PROVE  p \in 1 .. Len(t) /\ t[p] = x
<1>1. 1 \in 1 .. Len(<<x>>) /\ <<x>>[1] = x /\ p + 1 - 1 = p
  OBVIOUS
<1> QED BY <1>1 DEF Spells

LEMMA BetweenHas ==
  ASSUME NEW t \in Letters, NEW p \in Nat \ {0}, NEW s \in Letters, Spells(t, p, s)
  PROVE  Between(t, p, p + Len(s)) = s
<1> DEFINE n == Len(s)
           m == p + n - 1
           u == SubSeq(t, p, m)
<1>1. n \in Nat /\ m \in Int /\ m - p + 1 = n
  BY AtIs
<1>2. \A i \in 1 .. n : t[p + i - 1] = s[i] /\ s[i] \in Letter
  BY AtIs DEF Spells
<1>3. \A i \in p .. m : t[i] \in Letter
  <2> TAKE i \in p .. m
  <2>1. i - p + 1 \in 1 .. n /\ p + (i - p + 1) - 1 = i
    BY <1>1
  <2> QED BY <1>2, <2>1
<1> HIDE DEF n, m
<1>4. /\ u \in Seq(Letter)
      /\ Len(u) = IF p <= m THEN m - p + 1 ELSE 0
      /\ \A i \in 1 .. m - p + 1 : u[i] = t[p + i - 1]
  BY <1>1, <1>3, SubSeqProperties
<1> HIDE DEF u
<1>5. Len(u) = n /\ \A i \in 1 .. n : u[i] = s[i]
  BY <1>1, <1>2, <1>4
<1>6. u = s
  BY <1>4, <1>5, SeqEqual DEF Letters, n
<1> QED BY <1>6 DEF Between, u, m, n

----------------------------------------------------------------------------
(* A key as a client writes it, and how it is read.                         *)
Name(style, k) == style.space \o style.sign \o <<k>> \o style.sign \o style.space
Names == {"op", "data"} \cup Key

LEMMA NamesAre ==
  /\ Names \subseteq Letter
  /\ \A k \in Names : k # Space /\ k # ColonMark /\ k # Closing /\ k # NUL /\ k \notin Signs
  /\ Signs \subseteq Letter /\ Space \notin Signs /\ ColonMark \notin Signs /\ Closing \notin Signs
  /\ {Space, ColonMark, Closing, Opening, Comma} \subseteq Letter
  /\ Space # Closing /\ Space # ColonMark /\ ColonMark # Closing /\ Space # NUL /\ ColonMark # NUL
  /\ NUL \notin Signs /\ Closing # NUL
BY DEF Names, Letter, Key, Space, ColonMark, Closing, Opening, Comma, NUL, Signs

LEMMA StyleIs ==
  ASSUME NEW style \in Style
  PROVE  /\ style.space \in Letters /\ style.sign \in Letters
         /\ style.space = <<>> \/ style.space = <<Space>>
         /\ style.sign = <<>> \/ \E q \in Signs : style.sign = <<q>>
<1>1. style.space \in {<<>>, <<Space>>} /\ style.sign \in {<<>>, <<"'">>, <<"\"">>}
  BY DEF Style, Space
<1>2. <<>> \in Letters /\ \A x \in Letter : <<x>> \in Letters
  BY EmptySeq DEF Letters
<1>3. "'" \in Signs /\ "\"" \in Signs
  BY DEF Signs
<1> QED BY <1>1, <1>2, <1>3, NamesAre

Widths(style, a, b, q) ==
  /\ a \in {0, 1} /\ b \in {0, 1} /\ q \in Signs
  /\ style.space = IF a = 0 THEN <<>> ELSE <<Space>>
  /\ style.sign = IF b = 0 THEN <<>> ELSE <<q>>

LEMMA StyleHas ==
  ASSUME NEW style \in Style
  PROVE  \E a, b, q : Widths(style, a, b, q)
<1>1. "'" \in Signs
  BY DEF Signs
<1>2. \E a \in {0, 1} : style.space = IF a = 0 THEN <<>> ELSE <<Space>>
  BY StyleIs
<1>3. \E b \in {0, 1} : \E q \in Signs : style.sign = IF b = 0 THEN <<>> ELSE <<q>>
  BY <1>1, StyleIs
<1> QED BY <1>2, <1>3 DEF Widths

(* The characters of a key that is written from place p on, with its colon.   *)
Spelled(t, p, k, a, b, q) ==
  /\ p + a + b + 1 + b + a \in 1 .. Len(t)
  /\ a = 1 => t[p] = Space
  /\ b = 1 => t[p + a] = q
  /\ t[p + a + b] = k
  /\ b = 1 => t[p + a + b + 1] = q
  /\ a = 1 => t[p + a + b + 1 + b] = Space
  /\ t[p + a + b + 1 + b + a] = ColonMark

LEMMA NameIs ==
  ASSUME NEW style \in Style, NEW k \in Names
  PROVE  /\ Name(style, k) \in Letters /\ Len(Name(style, k)) \in Nat
         /\ \A a, b, q : Widths(style, a, b, q) => Len(Name(style, k)) = a + b + 1 + b + a
<1> DEFINE s == style.space
           g == style.sign
           x == <<k>>
           n1 == s \o g
           n2 == n1 \o x
           n3 == n2 \o g
           n4 == n3 \o s
<1>1. s \in Letters /\ g \in Letters /\ x \in Letters /\ Len(x) = 1
  BY StyleIs, NamesAre DEF Letters
<1>2. Name(style, k) = n4
  BY DEF Name
<1> HIDE DEF s, g, x
<1>3. n1 \in Letters /\ Len(n1) = Len(s) + Len(g)
  BY <1>1, ConcatProperties DEF Letters
<1> HIDE DEF n1
<1>4. n2 \in Letters /\ Len(n2) = Len(n1) + Len(x)
  BY <1>1, <1>3, ConcatProperties DEF Letters
<1> HIDE DEF n2
<1>5. n3 \in Letters /\ Len(n3) = Len(n2) + Len(g)
  BY <1>1, <1>4, ConcatProperties DEF Letters
<1> HIDE DEF n3
<1>6. n4 \in Letters /\ Len(n4) = Len(n3) + Len(s)
  BY <1>1, <1>5, ConcatProperties DEF Letters
<1> HIDE DEF n4
<1>7. ASSUME NEW a, NEW b, NEW q, Widths(style, a, b, q)
      PROVE  Len(n4) = a + b + 1 + b + a
  <2>1. a \in {0, 1} /\ Len(s) = a
    BY <1>7 DEF Widths, s
  <2>2. b \in {0, 1} /\ Len(g) = b
    BY <1>7 DEF Widths, g
  <2> QED BY <1>1, <1>3, <1>4, <1>5, <1>6, <2>1, <2>2
<1>8. Len(n4) \in Nat
  BY <1>6, AtIs
<1> QED BY <1>2, <1>6, <1>7, <1>8

LEMMA NameHas ==
  ASSUME NEW t \in Letters, NEW p \in Nat \ {0}, NEW style \in Style, NEW k \in Names,
         Spells(t, p, Name(style, k) \o <<ColonMark>>),
         NEW a, NEW b, NEW q, Widths(style, a, b, q)
  PROVE  Spelled(t, p, k, a, b, q)
<1> DEFINE s == style.space
           g == style.sign
           x == <<k>>
           n1 == s \o g
           n2 == n1 \o x
           n3 == n2 \o g
           n4 == n3 \o s
           c == <<ColonMark>>
<1>1. s \in Letters /\ g \in Letters /\ x \in Letters /\ c \in Letters /\ Len(x) = 1
  BY StyleIs, NamesAre DEF Letters
<1>2. a \in {0, 1} /\ Len(s) = a /\ (a = 1 => s = <<Space>>)
  BY DEF Widths
<1>3. b \in {0, 1} /\ Len(g) = b /\ (b = 1 => g = <<q>>)
  BY DEF Widths
<1>4. Spells(t, p, n4 \o c)
  BY DEF Name
<1>5. x = <<k>> /\ c = <<ColonMark>>
  OBVIOUS
<1> HIDE DEF s, g, x, c
<1>6. n1 \in Letters /\ Len(n1) = Len(s) + Len(g)
  BY <1>1, ConcatProperties DEF Letters
<1>7. n2 \in Letters /\ Len(n2) = Len(n1) + Len(x)
  <2> HIDE DEF n1
  <2> QED BY <1>1, <1>6, ConcatProperties DEF Letters
<1>8. n3 \in Letters /\ Len(n3) = Len(n2) + Len(g)
  <2> HIDE DEF n2
  <2> QED BY <1>1, <1>7, ConcatProperties DEF Letters
<1>9. n4 \in Letters /\ Len(n4) = Len(n3) + Len(s)
  <2> HIDE DEF n3
  <2> QED BY <1>1, <1>8, ConcatProperties DEF Letters
<1>10. Len(n1) = a + b /\ Len(n2) = a + b + 1 /\ Len(n3) = a + b + 1 + b
       /\ Len(n4) = a + b + 1 + b + a
  BY <1>1, <1>2, <1>3, <1>6, <1>7, <1>8, <1>9
<1>11. Spells(t, p, n4) /\ Spells(t, p + Len(n4), c)
  <2> HIDE DEF n4
  <2> QED BY <1>1, <1>4, <1>9, HasParts
<1>12. Spells(t, p, n3) /\ Spells(t, p + Len(n3), s)
  <2> HIDE DEF n3
  <2> QED BY <1>1, <1>8, <1>11, HasParts DEF n4
<1>13. Spells(t, p, n2) /\ Spells(t, p + Len(n2), g)
  <2> HIDE DEF n2
  <2> QED BY <1>1, <1>7, <1>12, HasParts DEF n3
<1>14. Spells(t, p, n1) /\ Spells(t, p + Len(n1), x)
  <2> HIDE DEF n1
  <2> QED BY <1>1, <1>6, <1>13, HasParts DEF n2
<1>15. Spells(t, p, s) /\ Spells(t, p + a, g)
  BY <1>1, <1>2, <1>14, HasParts DEF n1
<1> HIDE DEF n1, n2, n3, n4
<1>16. a = 1 => t[p] = Space
  BY <1>2, <1>15, HasOne
<1>17. b = 1 => t[p + a] = q
  <2>1. p + a \in Nat \ {0}
    BY <1>2
  <2> QED BY <1>3, <1>15, <2>1, HasOne
<1>18. t[p + a + b] = k
  <2>1. p + Len(n1) \in Nat \ {0} /\ p + Len(n1) = p + a + b
    BY <1>2, <1>3, <1>10
  <2> QED BY <1>5, <1>14, <2>1, HasOne
<1>19. b = 1 => t[p + a + b + 1] = q
  <2>1. p + Len(n2) \in Nat \ {0} /\ p + Len(n2) = p + a + b + 1
    BY <1>2, <1>3, <1>10
  <2> QED BY <1>3, <1>13, <2>1, HasOne
<1>20. a = 1 => t[p + a + b + 1 + b] = Space
  <2>1. p + Len(n3) \in Nat \ {0} /\ p + Len(n3) = p + a + b + 1 + b
    BY <1>2, <1>3, <1>10
  <2> QED BY <1>2, <1>12, <2>1, HasOne
<1>21. p + a + b + 1 + b + a \in 1 .. Len(t) /\ t[p + a + b + 1 + b + a] = ColonMark
  <2>1. p + Len(n4) \in Nat \ {0} /\ p + Len(n4) = p + a + b + 1 + b + a
    BY <1>2, <1>3, <1>10
  <2> QED BY <1>5, <1>11, <2>1, HasOne
<1> QED BY <1>16, <1>17, <1>18, <1>19, <1>20, <1>21 DEF Spelled

(* Such a key is found.                                                    *)
LEMMA KeyIs ==
  ASSUME NEW t \in Letters, NEW p \in Nat \ {0}, NEW k \in Names,
         NEW a \in {0, 1}, NEW b \in {0, 1}, NEW q \in Signs, Spelled(t, p, k, a, b, q)
  PROVE  /\ KeyAt(t, p) = [text |-> <<k>>, at |-> p + a + b + 1 + b + a, ok |-> TRUE]
         /\ At(t, p) # Closing
<1> DEFINE n == Len(t)
           start == Skip(t, p)
           sign == {At(t, start)} \cap Signs
           from == IF sign = {} THEN start ELSE start + 1
           C == IF sign = {} THEN {Space, ColonMark} ELSE sign \cup {Space}
           end == Upto(t, from, C)
           behind == IF sign = {} THEN end ELSE end + 1
           colon == Skip(t, behind)
<1>1. n \in Nat /\ \A i \in 1 .. n : At(t, i) = t[i]
  BY AtIs
<1>2. /\ p + a + b + 1 + b + a \in 1 .. n
      /\ a = 1 => t[p] = Space
      /\ b = 1 => t[p + a] = q
      /\ t[p + a + b] = k
      /\ b = 1 => t[p + a + b + 1] = q
      /\ a = 1 => t[p + a + b + 1 + b] = Space
      /\ t[p + a + b + 1 + b + a] = ColonMark
  BY DEF Spelled
<1>3. KeyAt(t, p) = CASE At(t, end) = NUL -> Error(end)
                      [] At(t, end) = Space /\ sign # {} -> Error(end)
                      [] OTHER -> IF end = from THEN Error(colon)
                                  ELSE Found(t, from, end, colon, {ColonMark})
  BY DEF KeyAt, Space, ColonMark
<1>4. k # Space /\ k # ColonMark /\ k # Closing /\ k # NUL /\ k \notin Signs
  BY NamesAre
<1>5. q # Space /\ q # ColonMark /\ q # Closing /\ q # NUL
  BY NamesAre
<1>6. Space # ColonMark /\ Space # Closing /\ Space # NUL /\ ColonMark # NUL /\ ColonMark # Closing
  BY NamesAre
<1>7. start = p + a
  <2>1. p \in 1 .. n + 1 /\ p + a \in p .. n + 1 /\ p + a <= n
    BY <1>1, <1>2
  <2>2. \A i \in p .. p + a - 1 : t[i] = Space
    BY <1>2
  <2>3. t[p + a] # Space
    BY <1>2, <1>4, <1>5
  <2> DEFINE e == p + a
  <2>4. p \in 1 .. n + 1 /\ e \in p .. n + 1 /\ (\A i \in p .. e - 1 : t[i] = Space)
        /\ (e <= n => t[e] # Space)
    BY <2>1, <2>2, <2>3
  <2> HIDE DEF e
  <2>5. Skip(t, p) = e
    BY <2>4, Skips
  <2> QED BY <2>5 DEF e
<1> HIDE DEF start
<1>8. sign = IF b = 1 THEN {q} ELSE {}
  <2>1. p + a \in 1 .. n
    BY <1>1, <1>2
  <2>2. sign = {t[p + a]} \cap Signs
    BY <1>1, <1>7, <2>1
  <2>3. CASE b = 1
    BY <1>2, <2>2, <2>3
  <2>4. CASE b = 0
    <3>1. t[p + a] = k
      BY <1>2, <2>4
    <3> QED BY <1>4, <2>2, <2>4, <3>1
  <2> QED BY <2>3, <2>4
<1> HIDE DEF sign
<1>9. from = p + a + b
  BY <1>7, <1>8
<1>10. C = IF b = 1 THEN {q, Space} ELSE {Space, ColonMark}
  BY <1>8
<1> HIDE DEF from, C
<1>11. end = p + a + b + 1
  <2>1. from \in 1 .. n + 1 /\ p + a + b + 1 \in from .. n + 1
    BY <1>1, <1>2, <1>9
  <2>2. \A i \in from .. (p + a + b + 1) - 1 : t[i] \notin C
    <3>1. t[from] \notin C
      BY <1>2, <1>4, <1>5, <1>9, <1>10, NamesAre
    <3>2. \A i \in from .. (p + a + b + 1) - 1 : i = from
      BY <1>2, <1>9
    <3> QED BY <3>1, <3>2
  <2>3. t[p + a + b + 1] \in C
    <3>1. CASE b = 1
      BY <1>2, <1>10, <3>1
    <3>2. CASE b = 0 /\ a = 1
      BY <1>2, <1>10, <3>2
    <3>3. CASE b = 0 /\ a = 0
      BY <1>2, <1>10, <3>3
    <3> QED BY <3>1, <3>2, <3>3
  <2> QED BY <2>1, <2>2, <2>3, Comes
<1> HIDE DEF end
<1>12. At(t, end) # NUL /\ ~(At(t, end) = Space /\ sign # {}) /\ end # from
  <2>1. end \in 1 .. n /\ At(t, end) = t[end] /\ t[end] \in Letter
    BY <1>1, <1>2, <1>11, AtIs
  <2>2. b = 1 => t[end] # Space
    BY <1>2, <1>5, <1>11
  <2>3. b = 0 => sign = {}
    BY <1>8
  <2>4. end # from
    BY <1>2, <1>9, <1>11
  <2> QED BY <2>1, <2>2, <2>3, <2>4, LetterIs
<1>13. behind = p + a + b + 1 + b
  BY <1>8, <1>11
<1> HIDE DEF behind
<1>14. colon = p + a + b + 1 + b + a
  <2>1. behind \in 1 .. n + 1 /\ p + a + b + 1 + b + a \in behind .. n + 1
        /\ p + a + b + 1 + b + a <= n
    BY <1>1, <1>2, <1>13
  <2>2. \A i \in behind .. (p + a + b + 1 + b + a) - 1 : t[i] = Space
    <3>1. \A i \in behind .. (p + a + b + 1 + b + a) - 1 : a = 1 /\ i = behind
      BY <1>2, <1>13
    <3> QED BY <1>2, <1>13, <3>1
  <2>3. t[p + a + b + 1 + b + a] # Space
    BY <1>2, <1>6
  <2> QED BY <2>1, <2>2, <2>3, Skips
<1> HIDE DEF colon
<1>15. KeyAt(t, p) = Found(t, from, end, colon, {ColonMark})
  BY <1>3, <1>12
<1>16. At(t, colon) \in {ColonMark}
  BY <1>1, <1>2, <1>14
<1>17. Between(t, from, end) = <<k>>
  <2>1. <<k>> \in Letters /\ Len(<<k>>) = 1
    BY NamesAre DEF Letters
  <2>2. from \in Nat \ {0} /\ end = from + 1 /\ from \in 1 .. n /\ t[from] = k
    BY <1>1, <1>2, <1>9, <1>11
  <2>3. Spells(t, from, <<k>>)
    BY <2>2 DEF Spells
  <2> QED BY <2>1, <2>2, <2>3, BetweenHas
<1>18. KeyAt(t, p) = [text |-> <<k>>, at |-> p + a + b + 1 + b + a, ok |-> TRUE]
  <2>1. KeyAt(t, p) = [text |-> <<k>>, at |-> colon, ok |-> At(t, colon) \in {ColonMark}]
    BY <1>15, <1>17 DEF Found
  <2> QED BY <1>14, <1>16, <2>1
<1>19. At(t, p) # Closing
  <2>1. p \in 1 .. n
    BY <1>1, <1>2
  <2>2. CASE a = 1
    BY <1>1, <1>2, <1>6, <2>1, <2>2
  <2>3. CASE a = 0 /\ b = 1
    BY <1>1, <1>2, <1>5, <2>1, <2>3
  <2>4. CASE a = 0 /\ b = 0
    BY <1>1, <1>2, <1>4, <2>1, <2>4
  <2> QED BY <2>2, <2>3, <2>4
<1> QED BY <1>18, <1>19

(* A value as a client writes it, in quotes or a number, and how it is read.  *)
Quote == "'"
Minus == "-"
Ends == {Comma, Closing}
Quoted(v) == <<"'">> \o v \o <<"'">>

LEMMA MarksAre ==
  /\ Quote \in Signs /\ Quote \in Letter /\ Quote \notin Numeric
  /\ Minus \notin Letter
  /\ Numeric \subseteq Letter /\ Numeric \cap Signs = {} /\ Numeric \cap Ends = {}
  /\ Space \notin Numeric /\ Opening \notin Numeric
  /\ Quote # Space /\ Quote # Opening /\ Quote # Closing
  /\ NUL \notin Ends /\ Space \notin Ends
<1> USE DEF Quote, Minus, Ends, Comma, Closing, Signs, Letter, Numeric, Digits, Space, Opening, NUL
<1>1. Quote \in Signs /\ Quote \in Letter /\ Quote \notin Numeric
  OBVIOUS
<1>2. Minus \notin Letter
  BY DEF Key
<1>3. Numeric \subseteq Letter
  OBVIOUS
<1>4. \A x \in Numeric : x \notin Signs /\ x \notin Ends
  OBVIOUS
<1>5. Space \notin Numeric /\ Opening \notin Numeric
  OBVIOUS
<1>6. Quote # Space /\ Quote # Opening /\ Quote # Closing
  OBVIOUS
<1>7. NUL \notin Ends /\ Space \notin Ends
  OBVIOUS
<1> QED BY ONLY <1>1, <1>2, <1>3, <1>4, <1>5, <1>6, <1>7

(* What is behind a value: a space or not, and a comma or a brace.           *)
Behind(t, p, a) ==
  p + a \in 1 .. Len(t) /\ (a = 1 => t[p] = Space) /\ t[p + a] \in Ends

LEMMA EndIs ==
  ASSUME NEW t \in Letters, NEW p \in Nat \ {0}, NEW a \in {0, 1}, Behind(t, p, a)
  PROVE  /\ Skip(t, p) = p + a /\ At(t, p + a) \in Ends
         /\ p \in 1 .. Len(t) /\ (t[p] = Space \/ t[p] \in Ends)
<1>1. Len(t) \in Nat /\ p + a \in 1 .. Len(t) /\ (a = 1 => t[p] = Space) /\ t[p + a] \in Ends
  BY AtIs DEF Behind
<1>2. At(t, p + a) \in Ends
  BY <1>1, AtIs
<1>3. p \in 1 .. Len(t) /\ (t[p] = Space \/ t[p] \in Ends)
  BY <1>1
<1> DEFINE e == p + a
<1>4. p \in 1 .. Len(t) + 1 /\ e \in p .. Len(t) + 1 /\ (\A i \in p .. e - 1 : t[i] = Space)
      /\ (e <= Len(t) => t[e] # Space)
  <2>1. t[e] # Space
    BY <1>1, MarksAre
  <2>2. p \in 1 .. Len(t) + 1 /\ e \in p .. Len(t) + 1
    BY <1>1
  <2>3. \A i \in p .. e - 1 : a = 1 /\ i = p
    OBVIOUS
  <2> QED BY <1>1, <2>1, <2>2, <2>3
<1> HIDE DEF e
<1>5. Skip(t, p) = e
  BY <1>4, Skips
<1> QED BY <1>2, <1>3, <1>5 DEF e

LEMMA QuotedIs ==
  ASSUME NEW v \in Letters
  PROVE  /\ Quoted(v) \in Letters /\ Len(Quoted(v)) = Len(v) + 2 /\ Len(v) \in Nat
         /\ \A t \in Letters : \A p \in Nat \ {0} : Spells(t, p, Quoted(v)) =>
              /\ p \in 1 .. Len(t) /\ t[p] = Quote
              /\ Spells(t, p + 1, v)
              /\ p + 1 + Len(v) \in 1 .. Len(t) /\ t[p + 1 + Len(v)] = Quote
<1> DEFINE q == <<Quote>>
           n1 == q \o v
           n2 == n1 \o q
<1>1. q \in Letters /\ Len(q) = 1 /\ q = <<Quote>>
  <2>1. Quote \in Letter
    BY MarksAre
  <2> QED BY <2>1 DEF Letters
<1>2. Quoted(v) = n2
  BY DEF Quoted, Quote
<1> HIDE DEF q
<1>3. n1 \in Letters /\ Len(n1) = Len(q) + Len(v)
  BY <1>1, ConcatProperties DEF Letters
<1>4. n2 \in Letters /\ Len(n2) = Len(n1) + Len(q)
  <2> HIDE DEF n1
  <2> QED BY <1>1, <1>3, ConcatProperties DEF Letters
<1>5. Len(v) \in Nat
  BY AtIs
<1>6. ASSUME NEW t \in Letters, NEW p \in Nat \ {0}, Spells(t, p, n2)
      PROVE  /\ p \in 1 .. Len(t) /\ t[p] = Quote
             /\ Spells(t, p + 1, v)
             /\ p + 1 + Len(v) \in 1 .. Len(t) /\ t[p + 1 + Len(v)] = Quote
  <2>1. Spells(t, p, n1) /\ Spells(t, p + Len(n1), q)
    <3> HIDE DEF n1
    <3> QED BY <1>1, <1>3, <1>6, HasParts DEF n2
  <2>2. Spells(t, p, q) /\ Spells(t, p + 1, v)
    <3>1. Spells(t, p, q) /\ Spells(t, p + Len(q), v)
      BY <1>1, <2>1, HasParts DEF n1
    <3> QED BY <1>1, <3>1
  <2> HIDE DEF n1, n2
  <2>3. p + Len(n1) = p + 1 + Len(v) /\ p + 1 + Len(v) \in Nat \ {0}
    BY <1>1, <1>3, <1>5
  <2>4. Spells(t, p + 1 + Len(v), <<Quote>>) /\ Spells(t, p, <<Quote>>)
    BY <1>1, <2>1, <2>2, <2>3
  <2> QED BY <2>2, <2>3, <2>4, HasOne
<1> HIDE DEF n1
<1>7. Len(n2) = Len(v) + 2
  BY <1>1, <1>3, <1>4, <1>5
<1> HIDE DEF n2
<1> QED BY <1>2, <1>4, <1>5, <1>6, <1>7

Reads(t, p, v, end) ==
  /\ ValueAt(t, p) = [text |-> v, at |-> end, ok |-> TRUE]
  /\ At(t, p) # Opening /\ At(t, p) # Space

LEMMA QuotedReads ==
  ASSUME NEW t \in Letters, NEW p \in Nat \ {0}, NEW v \in Letters,
         \A i \in 1 .. Len(v) : v[i] # Quote, Spells(t, p, Quoted(v)),
         NEW a \in {0, 1}, Behind(t, p + Len(v) + 2, a)
  PROVE  Reads(t, p, v, p + Len(v) + 2 + a)
<1> DEFINE n == Len(t)
           m == Len(v)
           sign == {At(t, p)} \cap Signs
           from == IF sign = {} THEN p ELSE p + 1
           number == IF At(t, from) = Minus THEN from + 1 ELSE from
           T == {i \in from .. n + 1 : i > n \/ (t[i] \in sign /\ t[i - 1] # "\\")}
           end == IF sign = {} THEN Past(t, number, Numeric) ELSE Min(T)
           behind == IF sign = {} THEN end ELSE end + 1
           next == Skip(t, behind)
<1>1. n \in Nat /\ m \in Nat /\ \A i \in 1 .. n : At(t, i) = t[i] /\ t[i] \in Letter
  BY AtIs
<1>2. /\ p \in 1 .. n /\ t[p] = Quote
      /\ Spells(t, p + 1, v)
      /\ p + 1 + m \in 1 .. n /\ t[p + 1 + m] = Quote
  BY QuotedIs
<1>3. ValueAt(t, p) = IF At(t, end) = NUL THEN [Error(end) EXCEPT !.ok = TRUE]
                      ELSE Found(t, from, end, next, Ends)
  BY DEF ValueAt, Ends, Comma, Closing, Minus
<1>4. sign = {Quote}
  BY <1>1, <1>2, MarksAre
<1> HIDE DEF sign
<1>5. from = p + 1
  BY <1>4
<1> HIDE DEF from
<1>6. Min(T) = p + 1 + m
  <2>1. T \subseteq from .. n + 1 /\ n + 1 \in T /\ from \in 1 .. n + 1
    BY <1>1, <1>2, <1>5
  <2>2. p + 1 + m \in T
    <3>1. p + 1 + m \in from .. n + 1 /\ p + 1 + m - 1 \in 1 .. n
      BY <1>1, <1>2, <1>5
    <3>2. t[p + 1 + m - 1] # "\\" /\ t[p + 1 + m] \in sign
      BY <1>1, <1>2, <1>4, <3>1, LetterIs
    <3> QED BY <3>1, <3>2
  <2>3. ASSUME NEW i \in from .. (p + 1 + m) - 1
        PROVE  i \notin T
    <3>1. i - p \in 1 .. m /\ (p + 1) + (i - p) - 1 = i
      BY <1>1, <1>5
    <3>2. i \in 1 .. n /\ t[i] = v[i - p]
      BY <1>2, <3>1 DEF Spells
    <3> QED BY <1>1, <1>4, <3>1, <3>2
  <2> DEFINE e == p + 1 + m
  <2>4. e \in T /\ \A i \in from .. e - 1 : i \notin T
    BY <2>2, <2>3
  <2>5. n \in Nat
    BY <1>1
  <2> HIDE DEF e, T, n
  <2>6. \A x \in T : (\A i \in from .. x - 1 : i \notin T) => Min(T) = x
    BY ONLY <2>1, <2>5, FirstIs
  <2>7. Min(T) = e
    BY ONLY <2>4, <2>6
  <2> QED BY <2>7 DEF e
<1> HIDE DEF T
<1>7. end = p + 1 + m /\ behind = p + m + 2
  BY <1>1, <1>4, <1>6
<1> HIDE DEF end, behind
<1>8. At(t, end) # NUL
  BY <1>1, <1>2, <1>7, LetterIs
<1>9. next = p + m + 2 + a /\ At(t, next) \in Ends
  <2>1. p + m + 2 \in Nat \ {0}
    BY <1>1
  <2> QED BY <1>7, <2>1, EndIs
<1> HIDE DEF next
<1>10. Between(t, from, end) = v
  <2>1. p + 1 \in Nat \ {0} /\ p + 1 + m = (p + 1) + Len(v)
    BY <1>1
  <2> QED BY <1>2, <1>5, <1>7, <2>1, BetweenHas
<1>11. ValueAt(t, p) = Found(t, from, end, next, Ends)
  BY <1>3, <1>8
<1>12. ValueAt(t, p) = [text |-> v, at |-> next, ok |-> At(t, next) \in Ends]
  BY <1>10, <1>11 DEF Found
<1>13. ValueAt(t, p) = [text |-> v, at |-> p + Len(v) + 2 + a, ok |-> TRUE]
  BY <1>9, <1>12
<1>14. At(t, p) # Opening /\ At(t, p) # Space
  BY <1>1, <1>2, MarksAre
<1> QED BY <1>13, <1>14 DEF Reads

LEMMA NumberReads ==
  ASSUME NEW t \in Letters, NEW p \in Nat \ {0}, NEW v \in Seq(Numeric), v # None,
         Spells(t, p, v), NEW a \in {0, 1}, Behind(t, p + Len(v), a)
  PROVE  Reads(t, p, v, p + Len(v) + a)
<1> DEFINE n == Len(t)
           m == Len(v)
           sign == {At(t, p)} \cap Signs
           from == IF sign = {} THEN p ELSE p + 1
           number == IF At(t, from) = Minus THEN from + 1 ELSE from
           T == {i \in from .. n + 1 : i > n \/ (t[i] \in sign /\ t[i - 1] # "\\")}
           end == IF sign = {} THEN Past(t, number, Numeric) ELSE Min(T)
           behind == IF sign = {} THEN end ELSE end + 1
           next == Skip(t, behind)
<1>1. n \in Nat /\ \A i \in 1 .. n : At(t, i) = t[i] /\ t[i] \in Letter
  BY AtIs
<1>2. m \in Nat /\ m >= 1
  BY EmptySeq DEF None
<1>3. \A i \in 1 .. m : p + i - 1 \in 1 .. n /\ t[p + i - 1] = v[i] /\ v[i] \in Numeric
  BY DEF Spells
<1>4. p \in 1 .. n /\ At(t, p) \in Numeric
  <2>1. 1 \in 1 .. m /\ p + 1 - 1 = p
    BY <1>2
  <2>2. p \in 1 .. n /\ t[p] \in Numeric
    BY <1>3, <2>1
  <2> QED BY <1>1, <2>2
<1>5. ValueAt(t, p) = IF At(t, end) = NUL THEN [Error(end) EXCEPT !.ok = TRUE]
                      ELSE Found(t, from, end, next, Ends)
  BY DEF ValueAt, Ends, Comma, Closing, Minus
<1>6. sign = {}
  BY <1>4, MarksAre
<1> HIDE DEF sign
<1>7. from = p
  BY <1>6
<1> HIDE DEF from
<1>8. number = p
  BY <1>4, <1>7, MarksAre
<1> HIDE DEF number, T
<1>9. /\ p + m \in 1 .. n /\ (t[p + m] = Space \/ t[p + m] \in Ends)
      /\ Skip(t, p + m) = p + m + a /\ At(t, p + m + a) \in Ends
  <2>1. p + m \in Nat \ {0}
    BY <1>2
  <2> QED BY <2>1, EndIs
<1>10. Past(t, p, Numeric) = p + m
  <2> DEFINE e == p + m
  <2>1. p \in 1 .. n + 1 /\ e \in p .. n + 1
    BY <1>1, <1>2, <1>4, <1>9
  <2>2. ASSUME NEW i \in p .. e - 1
        PROVE  t[i] \in Numeric
    <3>1. i - p + 1 \in 1 .. m /\ p + (i - p + 1) - 1 = i
      BY <1>2
    <3> QED BY <1>3, <3>1
  <2>3. e <= n => t[e] \notin Numeric
    BY <1>9, MarksAre
  <2> HIDE DEF e
  <2>4. Past(t, p, Numeric) = e
    BY <2>1, <2>2, <2>3, Goes
  <2> QED BY <2>4 DEF e
<1>11. end = p + m /\ behind = p + m
  BY <1>6, <1>8, <1>10
<1> HIDE DEF end, behind
<1>12. At(t, end) # NUL
  BY <1>1, <1>9, <1>11, LetterIs
<1>13. next = p + m + a /\ At(t, next) \in Ends
  BY <1>9, <1>11
<1> HIDE DEF next
<1>14. Between(t, from, end) = v
  <2>1. v \in Letters
    BY MarksAre, SeqMonotonic DEF Letters
  <2> QED BY <1>7, <1>11, <2>1, BetweenHas
<1>15. ValueAt(t, p) = Found(t, from, end, next, Ends)
  BY <1>5, <1>12
<1>16. ValueAt(t, p) = [text |-> v, at |-> next, ok |-> At(t, next) \in Ends]
  BY <1>14, <1>15 DEF Found
<1>17. ValueAt(t, p) = [text |-> v, at |-> p + Len(v) + a, ok |-> TRUE]
  BY <1>13, <1>16
<1>18. At(t, p) # Opening /\ At(t, p) # Space
  BY <1>4, MarksAre
<1> QED BY <1>17, <1>18 DEF Reads

LEMMA HasBoth ==
  ASSUME NEW t \in Letters, NEW p \in Nat \ {0}, NEW a \in Letters, NEW b \in Letters,
         Spells(t, p, a), Spells(t, p + Len(a), b)
  PROVE  Spells(t, p, a \o b)
<1> DEFINE m == Len(a)
           n == Len(b)
           c == a \o b
<1>1. m \in Nat /\ n \in Nat
  BY AtIs
<1>2. Len(c) = m + n /\ \A i \in 1 .. m + n : c[i] = IF i <= m THEN a[i] ELSE b[i - m]
  BY ConcatProperties DEF Letters
<1>3. /\ \A i \in 1 .. m : p + i - 1 \in 1 .. Len(t) /\ t[p + i - 1] = a[i]
      /\ \A i \in 1 .. n : (p + m) + i - 1 \in 1 .. Len(t) /\ t[(p + m) + i - 1] = b[i]
  BY DEF Spells
<1> HIDE DEF c, m, n
<1>4. ASSUME NEW i \in 1 .. m + n
      PROVE  p + i - 1 \in 1 .. Len(t) /\ t[p + i - 1] = c[i]
  <2>1. CASE i <= m
    <3>1. i \in 1 .. m
      BY <1>1, <2>1
    <3> QED BY <1>2, <1>3, <2>1, <3>1
  <2>2. CASE ~(i <= m)
    <3>1. i - m \in 1 .. n /\ (p + m) + (i - m) - 1 = p + i - 1
      BY <1>1, <2>2
    <3> QED BY <1>2, <1>3, <2>2, <3>1
  <2> QED BY <2>1, <2>2
<1> QED BY <1>2, <1>4 DEF Spells

(* A key with its colon, and the space behind it.                           *)
Opened(style, k) == Name(style, k) \o <<":">> \o style.space

LEMMA OpenedIs ==
  ASSUME NEW style \in Style, NEW k \in Names
  PROVE  /\ Name(style, k) \o <<":">> \in Letters /\ style.space \in Letters
         /\ Opened(style, k) \in Letters
         /\ \A a, b, q : Widths(style, a, b, q) =>
              /\ Len(Name(style, k) \o <<":">>) = a + b + 1 + b + a + 1
              /\ Len(Opened(style, k)) = a + b + 1 + b + a + 1 + a
<1> DEFINE n == Name(style, k)
           c == <<":">>
           d == n \o c
           s == style.space
           o == d \o s
<1>1. n \in Letters /\ Len(n) \in Nat
  BY NameIs
<1>2. c \in Letters /\ Len(c) = 1 /\ s \in Letters
  BY NamesAre, StyleIs DEF Letters, ColonMark
<1>3. Opened(style, k) = o
  BY DEF Opened
<1>4. ASSUME NEW a, NEW b, NEW q, Widths(style, a, b, q)
      PROVE  Len(n) = a + b + 1 + b + a /\ Len(s) = a /\ a \in {0, 1} /\ b \in {0, 1}
  <2>1. Len(n) = a + b + 1 + b + a
    BY <1>4, NameIs
  <2>2. Len(s) = a /\ a \in {0, 1} /\ b \in {0, 1}
    BY <1>4 DEF Widths
  <2> QED BY <2>1, <2>2
<1> HIDE DEF n, c, s
<1>5. d \in Letters /\ Len(d) = Len(n) + Len(c)
  BY <1>1, <1>2, ConcatProperties DEF Letters
<1> HIDE DEF d
<1>6. o \in Letters /\ Len(o) = Len(d) + Len(s)
  BY <1>2, <1>5, ConcatProperties DEF Letters
<1> HIDE DEF o
<1>7. ASSUME NEW a, NEW b, NEW q, Widths(style, a, b, q)
      PROVE  Len(d) = a + b + 1 + b + a + 1 /\ Len(o) = a + b + 1 + b + a + 1 + a
  <2>1. Len(n) = a + b + 1 + b + a /\ Len(s) = a /\ a \in {0, 1} /\ b \in {0, 1}
    BY <1>4, <1>7
  <2> QED BY <1>2, <1>5, <1>6, <2>1
<1> QED BY <1>2, <1>3, <1>5, <1>6, <1>7 DEF d, n, c, s

LEMMA KeyOpened ==
  ASSUME NEW t \in Letters, NEW p \in 1 .. Len(t), NEW style \in Style, NEW k \in Names,
         NEW c \in BOOLEAN,
         Spells(t, p + 1, Opened(style, k)), NEW e, e = p + 1 + Len(Opened(style, k)),
         e \in 1 .. Len(t), t[e] # Space
  PROVE  /\ KeyAt(t, p + 1).text = <<k>> /\ KeyAt(t, p + 1).ok /\ ValueStart(t, p) = e
         /\ ~Closes(t, c, p + 1)
<1>1. PICK a, b, q : Widths(style, a, b, q)
  BY StyleHas
<1>2. a \in {0, 1} /\ b \in {0, 1} /\ q \in Signs
      /\ style.space = IF a = 0 THEN <<>> ELSE <<Space>>
  BY <1>1 DEF Widths
<1>3. Len(t) \in Nat /\ p + 1 \in Nat \ {0} /\ p \in Nat
  BY AtIs
<1> DEFINE d == Name(style, k) \o <<":">>
           s == style.space
           w == a + b + 1 + b + a
           key == KeyAt(t, p + 1)
<1>4. d \in Letters /\ s \in Letters /\ Len(d) = w + 1 /\ Len(Opened(style, k)) = w + 1 + a
  BY <1>1, OpenedIs
<1>5. Opened(style, k) = d \o s
  BY DEF Opened
<1>6. Spells(t, p + 1, d) /\ Spells(t, p + 1 + (w + 1), s)
  <2>1. Spells(t, p + 1, d) /\ Spells(t, p + 1 + Len(d), s)
    <3>1. /\ p + 1 \in Nat \ {0} /\ d \in Letters /\ s \in Letters
          /\ Spells(t, p + 1, d \o s)
      BY <1>3, <1>4, <1>5
    <3> HIDE DEF d, s
    <3> QED BY <3>1, HasParts
  <2> HIDE DEF d, w
  <2> QED BY <1>4, <2>1
<1>7. Spelled(t, p + 1, k, a, b, q)
  BY <1>1, <1>3, <1>6, NameHas DEF ColonMark
<1>8. key = [text |-> <<k>>, at |-> p + 1 + a + b + 1 + b + a, ok |-> TRUE] /\ At(t, p + 1) # Closing
  BY <1>2, <1>3, <1>7, KeyIs
<1> HIDE DEF key
<1>9. key.text = <<k>> /\ key.ok /\ key.at = p + 1 + w
  <2>1. key.text = <<k>> /\ key.ok /\ key.at = p + 1 + a + b + 1 + b + a
    BY <1>8
  <2> QED BY <1>2, <1>3, <2>1
<1>10. e = p + 1 + w + 1 + a
  <2> DEFINE n == Len(Opened(style, k))
  <2>1. w \in Nat /\ n = w + 1 + a /\ e = p + 1 + n
    BY <1>2, <1>4
  <2> HIDE DEF w, n
  <2> QED BY <1>2, <1>3, <2>1, SMTT(30)
<1>11. Skip(t, p + 1 + w + 1) = e
  <2> DEFINE i == p + 1 + w + 1
  <2>1. i \in Nat /\ w \in Nat /\ p + 1 + (w + 1) = i /\ e = i + a
    BY <1>2, <1>3, <1>10
  <2> HIDE DEF i, w
  <2>2. i \in 1 .. Len(t) + 1 /\ e \in i .. Len(t) + 1
    BY <1>2, <1>3, <1>10, <2>1 DEF i
  <2>3. a = 1 => t[i] = Space
    <3>1. a = 1 => s = <<Space>>
      BY <1>2
    <3>2. i \in Nat \ {0}
      BY <2>2
    <3> HIDE DEF s
    <3> QED BY <1>6, <2>1, <3>1, <3>2, HasOne
  <2>4. \A j \in i .. e - 1 : t[j] = Space
    <3>1. \A j \in i .. e - 1 : a = 1 /\ j = i
      BY <1>2, <2>1
    <3> QED BY <2>3, <3>1
  <2>5. Skip(t, i) = e
    BY <2>2, <2>4, Skips
  <2> QED BY <2>5 DEF i
<1>12. ValueStart(t, p) = e
  <2>1. ValueStart(t, p) = Skip(t, key.at + 1)
    BY DEF ValueStart, key
  <2> QED BY <1>9, <1>11, <2>1
<1>13. ~Closes(t, c, p + 1)
  BY <1>8 DEF Closes, Closing
<1> QED BY <1>9, <1>12, <1>13 DEF key

(* A text that does not have x in it.                                       *)
Free(s, x) == \A i \in 1 .. Len(s) : s[i] # x

LEMMA Joins ==
  ASSUME NEW a \in Letters, NEW b \in Letters
  PROVE  /\ a \o b \in Letters
         /\ Len(a \o b) = Len(a) + Len(b) /\ Len(a) \in Nat /\ Len(b) \in Nat
         /\ \A t \in Letters : \A p \in Nat \ {0} : Spells(t, p, a \o b) =>
              Spells(t, p, a) /\ Spells(t, p + Len(a), b)
         /\ \A x : Free(a, x) /\ Free(b, x) => Free(a \o b, x)
<1> DEFINE m == Len(a)
           n == Len(b)
           c == a \o b
<1>1. m \in Nat /\ n \in Nat
  BY AtIs
<1>2. c \in Letters /\ Len(c) = m + n /\ \A i \in 1 .. m + n : c[i] = IF i <= m THEN a[i] ELSE b[i - m]
  BY ConcatProperties DEF Letters
<1>3. \A t \in Letters : \A p \in Nat \ {0} : Spells(t, p, a \o b) =>
        Spells(t, p, a) /\ Spells(t, p + Len(a), b)
  BY HasParts
<1>4. ASSUME NEW x, Free(a, x), Free(b, x)
      PROVE  Free(c, x)
  <2>1. (\A i \in 1 .. m : a[i] # x) /\ (\A i \in 1 .. n : b[i] # x)
    BY <1>4 DEF Free
  <2> HIDE DEF c, m, n
  <2>2. ASSUME NEW i \in 1 .. m + n PROVE c[i] # x
    <3>1. CASE i <= m
      <4>1. i \in 1 .. m
        BY <1>1, <3>1
      <4> QED BY <1>2, <2>1, <3>1, <4>1
    <3>2. CASE ~(i <= m)
      <4>1. i - m \in 1 .. n
        BY <1>1, <3>2
      <4> QED BY <1>2, <2>1, <3>2, <4>1
    <3> QED BY <3>1, <3>2
  <2> QED BY <1>2, <2>2 DEF Free
<1> QED BY <1>1, <1>2, <1>3, <1>4

Spaced(style, x) == style.space \o x \o style.space
Said(style, k, x) == Name(style, k) \o <<":">> \o Spaced(style, x)

(* A key, its colon and x: what is before x, x itself, and the space behind.  *)
LEMMA SaidIs ==
  ASSUME NEW style \in Style, NEW k \in Names, NEW x \in Letters
  PROVE  /\ Said(style, k, x) \in Letters /\ Len(x) \in Nat
         /\ \A a, b, q : Widths(style, a, b, q) =>
              Len(Said(style, k, x)) = a + b + 1 + b + a + 1 + a + Len(x) + a
         /\ \A t \in Letters : \A p \in Nat \ {0} : Spells(t, p, Said(style, k, x)) =>
              /\ Spells(t, p, Opened(style, k))
              /\ Spells(t, p + Len(Opened(style, k)), x)
              /\ Spells(t, p + Len(Opened(style, k)) + Len(x), style.space)
         /\ \A y : Free(Opened(style, k), y) /\ Free(x, y) /\ Free(style.space, y) =>
              Free(Said(style, k, x), y)
<1> DEFINE d == Name(style, k) \o <<":">>
           s == style.space
           o == d \o s
           m == s \o x
           r == m \o s
           w == d \o r
<1>1. d \in Letters /\ s \in Letters /\ o \in Letters
  BY OpenedIs DEF Opened
<1>2. Opened(style, k) = o /\ Said(style, k, x) = w
  BY DEF Opened, Said, Spaced
<1>3. \A a, b, q : Widths(style, a, b, q) =>
        Len(d) = a + b + 1 + b + a + 1 /\ Len(s) = a /\ a \in {0, 1} /\ b \in {0, 1}
  <2> SUFFICES ASSUME NEW a, NEW b, NEW q, Widths(style, a, b, q)
               PROVE  Len(d) = a + b + 1 + b + a + 1 /\ Len(s) = a /\ a \in {0, 1} /\ b \in {0, 1}
    OBVIOUS
  <2>1. Len(d) = a + b + 1 + b + a + 1
    BY OpenedIs
  <2>2. Len(s) = a /\ a \in {0, 1} /\ b \in {0, 1}
    BY DEF Widths
  <2> QED BY <2>1, <2>2
<1> HIDE DEF d, s
<1>4. /\ o \in Letters /\ Len(o) = Len(d) + Len(s) /\ Len(d) \in Nat /\ Len(s) \in Nat
      /\ \A y : Free(d, y) /\ Free(s, y) => Free(o, y)
  BY <1>1, Joins
<1>5. /\ m \in Letters /\ Len(m) = Len(s) + Len(x) /\ Len(x) \in Nat
      /\ \A t \in Letters : \A p \in Nat \ {0} : Spells(t, p, m) => Spells(t, p, s) /\ Spells(t, p + Len(s), x)
      /\ \A y : Free(s, y) /\ Free(x, y) => Free(m, y)
  BY <1>1, Joins
<1>6. /\ r \in Letters /\ Len(r) = Len(m) + Len(s)
      /\ \A t \in Letters : \A p \in Nat \ {0} : Spells(t, p, r) => Spells(t, p, m) /\ Spells(t, p + Len(m), s)
      /\ \A y : Free(m, y) /\ Free(s, y) => Free(r, y)
  <2> HIDE DEF m
  <2> QED BY <1>1, <1>5, Joins
<1>7. /\ w \in Letters /\ Len(w) = Len(d) + Len(r)
      /\ \A t \in Letters : \A p \in Nat \ {0} : Spells(t, p, w) => Spells(t, p, d) /\ Spells(t, p + Len(d), r)
      /\ \A y : Free(d, y) /\ Free(r, y) => Free(w, y)
  <2> HIDE DEF r
  <2> QED BY <1>1, <1>6, Joins
<1>8. ASSUME NEW t \in Letters, NEW p \in Nat \ {0}, Spells(t, p, w)
      PROVE  Spells(t, p, o) /\ Spells(t, p + Len(o), x) /\ Spells(t, p + Len(o) + Len(x), s)
  <2> DEFINE l == Len(d)
             n == Len(s)
             u == Len(x)
  <2>0. l \in Nat /\ n \in Nat /\ u \in Nat /\ Len(o) = l + n /\ Len(m) = n + u
    BY <1>4, <1>5
  <2>1. Spells(t, p, d) /\ Spells(t, p + l, r)
    BY <1>7, <1>8
  <2>2. p + l \in Nat \ {0}
    BY <2>0
  <2>3. Spells(t, p + l, m) /\ Spells(t, p + l + Len(m), s)
    BY <1>6, <2>1, <2>2
  <2>4. Spells(t, p + l, s) /\ Spells(t, p + l + n, x)
    BY <1>5, <2>2, <2>3
  <2>5. Spells(t, p, o)
    BY <1>1, <2>1, <2>4, HasBoth
  <2>6. Spells(t, p + Len(o), x)
    <3>1. p + Len(o) = p + l + n
      <4> HIDE DEF l, n, u, o, m
      <4> QED BY <2>0
    <3> QED BY <2>4, <3>1
  <2>7. Spells(t, p + Len(o) + Len(x), s)
    <3>1. p + Len(o) + u = p + l + Len(m)
      <4> HIDE DEF l, n, u, o, m
      <4> QED BY <2>0
    <3> QED BY <2>3, <3>1
  <2> QED BY <2>5, <2>6, <2>7
<1>9. ASSUME NEW a, NEW b, NEW q, Widths(style, a, b, q)
      PROVE  Len(w) = a + b + 1 + b + a + 1 + a + Len(x) + a
  <2>1. Len(d) = a + b + 1 + b + a + 1 /\ Len(s) = a /\ a \in {0, 1} /\ b \in {0, 1}
    BY <1>3, <1>9
  <2> HIDE DEF w, r, m, o
  <2> QED BY <1>5, <1>6, <1>7, <2>1
<1>10. ASSUME NEW y, Free(o, y), Free(x, y), Free(s, y)
       PROVE  Free(w, y)
  <2>1. Free(d, y)
    <3>1. \A i \in 1 .. Len(d) : i \in 1 .. Len(o) /\ o[i] = d[i]
      <4>1. \A i \in 1 .. Len(d) + Len(s) : o[i] = IF i <= Len(d) THEN d[i] ELSE s[i - Len(d)]
        BY <1>1, ConcatProperties DEF Letters
      <4> HIDE DEF o
      <4> QED BY <1>4, <4>1
    <3> QED BY <1>10, <3>1 DEF Free
  <2> HIDE DEF w, r, m, o
  <2> QED BY <1>5, <1>6, <1>7, <1>10, <2>1
<1> HIDE DEF w, o
<1>11. /\ w \in Letters /\ Len(x) \in Nat
       /\ \A t \in Letters : \A p \in Nat \ {0} : Spells(t, p, w) =>
            Spells(t, p, o) /\ Spells(t, p + Len(o), x) /\ Spells(t, p + Len(o) + Len(x), s)
  BY <1>5, <1>7, <1>8
<1> QED BY <1>2, <1>9, <1>10, <1>11 DEF s

(* What a client writes for v: v in quotes, or the number that it is.         *)
Wrote(x, v) ==
  \/ v \in Letters /\ (\A i \in 1 .. Len(v) : v[i] # Quote) /\ x = Quoted(v)
  \/ v \in Seq(Numeric) /\ v # None /\ x = v

LEMMA WroteIs ==
  ASSUME NEW x, NEW v, Wrote(x, v)
  PROVE  x \in Letters /\ v \in Letters
<1>1. v \in Letters
  BY MarksAre, SeqMonotonic DEF Wrote, Letters
<1> QED BY <1>1, QuotedIs DEF Wrote

LEMMA WroteReads ==
  ASSUME NEW t \in Letters, NEW p \in Nat \ {0}, NEW x, NEW v, Wrote(x, v), Spells(t, p, x),
         NEW a \in {0, 1}, Behind(t, p + Len(x), a)
  PROVE  Reads(t, p, v, p + Len(x) + a)
<1>1. CASE v \in Letters /\ (\A i \in 1 .. Len(v) : v[i] # Quote) /\ x = Quoted(v)
  <2> DEFINE m == Len(v)
             n == Len(x)
  <2>1. n = m + 2 /\ m \in Nat
    BY <1>1, QuotedIs
  <2>2. p + n = p + m + 2 /\ p + n + a = p + m + 2 + a
    <3> HIDE DEF m, n
    <3> QED BY <2>1
  <2>3. Spells(t, p, Quoted(v)) /\ Behind(t, p + m + 2, a)
    BY <1>1, <2>2
  <2>4. Reads(t, p, v, p + m + 2 + a)
    BY <1>1, <2>3, QuotedReads
  <2> QED BY <2>2, <2>4
<1>2. CASE v \in Seq(Numeric) /\ v # None /\ x = v
  BY <1>2, NumberReads
<1> QED BY <1>1, <1>2 DEF Wrote

(* Such a pair, with a comma or a brace behind it, is read as it was written.  *)
LEMMA SaidPair ==
  ASSUME NEW t \in Letters, NEW p \in 1 .. Len(t), NEW style \in Style, NEW k \in Names,
         NEW c \in BOOLEAN, NEW x, NEW v, Wrote(x, v),
         Spells(t, p + 1, Said(style, k, x)),
         NEW e, e = p + 1 + Len(Said(style, k, x)), e \in 1 .. Len(t), t[e] \in Ends
  PROVE  Pairs(t)[p][c] =
           InFront([key |-> <<k>>, value |-> v, child |-> <<>>], On(t, Pairs(t), c, e))
<1>1. PICK a, b, q : Widths(style, a, b, q)
  BY StyleHas
<1> DEFINE s == style.space
           l == Len(Opened(style, k))
           m == Len(x)
           at == p + 1 + l
           f == Pairs(t)
<1>2. a \in {0, 1} /\ b \in {0, 1} /\ (a = 1 => s = <<Space>>)
  BY <1>1 DEF Widths
<1>3. Len(t) \in Nat /\ p \in Nat /\ p + 1 \in Nat \ {0} /\ x \in Letters /\ v \in Letters
  BY AtIs, WroteIs
<1>4. l \in Nat /\ m \in Nat /\ e = at + m + a
  <2> DEFINE w == Len(Said(style, k, x))
  <2>1. m \in Nat /\ w = a + b + 1 + b + a + 1 + a + m + a
    BY <1>1, <1>3, SaidIs
  <2>2. l = a + b + 1 + b + a + 1 + a
    BY <1>1, OpenedIs
  <2>3. e = p + 1 + w
    OBVIOUS
  <2> HIDE DEF w, l, m
  <2> QED BY <1>2, <1>3, <2>1, <2>2, <2>3
<1>5. Spells(t, p + 1, Opened(style, k)) /\ Spells(t, at, x) /\ Spells(t, at + m, s)
  BY <1>3, SaidIs
<1> HIDE DEF at, l, m, s
<1>6. at \in Nat \ {0} /\ at + m \in Nat \ {0} /\ at \in 1 .. Len(t)
  BY <1>2, <1>3, <1>4 DEF at
<1>7. Behind(t, at + m, a)
  <2>1. a = 1 => t[at + m] = Space
    BY <1>2, <1>5, <1>6, HasOne
  <2>2. at + m + a = e
    BY <1>2, <1>4, <1>6
  <2> QED BY <2>1, <2>2 DEF Behind
<1>8. Reads(t, at, v, e)
  <2>1. Reads(t, at, v, at + Len(x) + a)
    BY <1>2, <1>5, <1>6, <1>7, WroteReads DEF m
  <2> QED BY <1>4, <2>1 DEF m
<1>9. ValueAt(t, at) = [text |-> v, at |-> e, ok |-> TRUE] /\ At(t, at) # Opening /\ At(t, at) # Space
  BY <1>8 DEF Reads
<1>10. t[at] # Space
  BY <1>6, <1>9, AtIs
<1>11. /\ KeyAt(t, p + 1).text = <<k>> /\ KeyAt(t, p + 1).ok /\ ValueStart(t, p) = at
       /\ ~Closes(t, c, p + 1)
  BY <1>5, <1>6, <1>10, KeyOpened DEF at, l
<1> DEFINE one == ValueBehind(t, p)
<1>12. one.text = v /\ one.at = e /\ one.ok
  <2>1. one = [text |-> v, at |-> e, ok |-> TRUE]
    BY <1>9, <1>11 DEF ValueBehind
  <2> HIDE DEF one
  <2> QED BY <2>1
<1>13. f[p][c] = Plain(t, f, c, p)
  <2>1. p \in 1 .. Len(t) + 1 /\ p <= Len(t)
    BY <1>3
  <2>2. f[p][c] = PairsStep(t, f)[p][c]
    BY <2>1, PairsIs
  <2>3. PairsStep(t, f)[p][c] = Plain(t, f, c, p)
    <3> HIDE DEF f
    <3> QED BY <1>9, <1>11, <2>1, PairsStepIs DEF Opening
  <2> QED BY <2>2, <2>3
<1>14. CopyStr(<<k>>) = <<k>> /\ CopyStr(v) = v
  <2>1. <<k>> \in Letters
    BY NamesAre DEF Letters
  <2> QED BY <1>3, <2>1, Copies
<1>15. Copied(KeyAt(t, p + 1), v, <<>>) = [key |-> <<k>>, value |-> v, child |-> <<>>]
  BY <1>11, <1>14 DEF Copied
<1> HIDE DEF f
<1>16. Plain(t, f, c, p) = InFront(Copied(KeyAt(t, p + 1), v, <<>>), On(t, f, c, e))
  <2> DEFINE fine == one.ok
  <2>1. Plain(t, f, c, p) =
          InFront(Copied(KeyAt(t, p + 1), IF fine THEN one.text ELSE None, <<>>),
                 IF fine THEN On(t, f, c, one.at) ELSE Stopped(t, one.at))
    BY DEF Plain
  <2>2. fine
    BY <1>12
  <2> HIDE DEF fine, one
  <2> QED BY <1>12, <2>1, <2>2
<1> QED BY <1>13, <1>15, <1>16 DEF f

(* And so is a key with an object behind it.                               *)
WithPairs(t, k, c, e) ==
  InFront([key |-> <<k>>, value |-> None, child |-> Pairs(t)[e][TRUE].pairs],
         On(t, Pairs(t), c, Pairs(t)[e][TRUE].at + 1))

LEMMA OpenedPair ==
  ASSUME NEW t \in Letters, NEW p \in 1 .. Len(t), NEW style \in Style, NEW k \in Names,
         NEW c \in BOOLEAN,
         Spells(t, p + 1, Opened(style, k)), NEW e, e = p + 1 + Len(Opened(style, k)),
         e \in 1 .. Len(t), t[e] = Opening
  PROVE  Pairs(t)[p][c] = WithPairs(t, k, c, e)
<1> DEFINE f == Pairs(t)
<1>1. Len(t) \in Nat /\ p \in 1 .. Len(t) + 1 /\ p <= Len(t)
  BY AtIs
<1>2. t[e] # Space
  BY DEF Opening, Space
<1>3. /\ KeyAt(t, p + 1).text = <<k>> /\ KeyAt(t, p + 1).ok /\ ValueStart(t, p) = e
      /\ ~Closes(t, c, p + 1)
  BY <1>2, KeyOpened
<1>4. At(t, ValueStart(t, p)) = "{"
  BY <1>3, AtIs DEF Opening
<1>5. f[p][c] = Nested(t, f, c, p)
  <2>1. f[p][c] = PairsStep(t, f)[p][c]
    BY <1>1, PairsIs
  <2>2. PairsStep(t, f)[p][c] = Nested(t, f, c, p)
    <3> HIDE DEF f
    <3> QED BY <1>1, <1>3, <1>4, PairsStepIs
  <2> QED BY <2>1, <2>2
<1>6. CopyStr(<<k>>) = <<k>> /\ CopyStr(None) = None
  <2>1. <<k>> \in Letters /\ None \in Letters
    BY NamesAre, EmptySeq DEF Letters, None
  <2> QED BY <2>1, Copies
<1> HIDE DEF f
<1>7. Copied(KeyAt(t, p + 1), None, f[e][TRUE].pairs) =
        [key |-> <<k>>, value |-> None, child |-> f[e][TRUE].pairs]
  BY <1>3, <1>6 DEF Copied
<1> QED BY <1>3, <1>5, <1>7 DEF Nested, WithPairs, f

----------------------------------------------------------------------------
(* What is read behind the NUL is read behind an object that the end of the    *)
(* text breaks off, and the pairs of an object are those from its brace on.   *)
Broken(t) == \E b \in 2 .. Len(t) : t[b] = Opening /\ Pairs(t)[b][TRUE].at > Len(t)
Object(t, child) ==
  child = <<>> \/ \E b \in 2 .. Len(t) : t[b] = Opening /\ child = Pairs(t)[b][TRUE].pairs
Inside(t, x) ==
  /\ x.past => Broken(t)
  /\ \A i \in DOMAIN x.pairs : Object(t, x.pairs[i].child)

LEMMA InFrontInside ==
  ASSUME NEW t, NEW pair, NEW rest, NEW S, rest.pairs \in Seq(S),
         Inside(t, rest), Object(t, pair.child)
  PROVE  Inside(t, InFront(pair, rest))
<1> DEFINE x == InFront(pair, rest)
           u == rest.pairs
           w == <<pair>> \o u
           R == S \cup {pair}
<1>1. x.pairs = w /\ x.past = rest.past
  BY InFrontIs
<1>2. (rest.past => Broken(t)) /\ \A i \in DOMAIN u : Object(t, u[i].child)
  BY DEF Inside
<1>3. u \in Seq(R) /\ <<pair>> \in Seq(R)
  BY SeqMonotonic
<1> HIDE DEF x, u, R
<1>4. \A i \in DOMAIN w : w[i] = pair \/ (i - 1 \in DOMAIN u /\ w[i] = u[i - 1])
  <2>1. /\ w \in Seq(R) /\ Len(w) = 1 + Len(u)
        /\ \A i \in 1 .. 1 + Len(u) : w[i] = IF i <= 1 THEN <<pair>>[i] ELSE u[i - 1]
    BY <1>3, ConcatProperties
  <2>2. DOMAIN w = 1 .. 1 + Len(u) /\ DOMAIN u = 1 .. Len(u) /\ Len(u) \in Nat
    BY <1>3, <2>1
  <2> HIDE DEF w
  <2>3. ASSUME NEW i \in 1 .. 1 + Len(u)
        PROVE  w[i] = pair \/ (i - 1 \in 1 .. Len(u) /\ w[i] = u[i - 1])
    <3>1. CASE i = 1
      <4>1. <<pair>>[1] = pair
        OBVIOUS
      <4> QED BY <2>1, <2>2, <3>1, <4>1
    <3>2. CASE i # 1
      BY <2>1, <2>2, <3>2
    <3> QED BY <3>1, <3>2
  <2> QED BY <2>2, <2>3
<1> HIDE DEF w
<1>5. \A i \in DOMAIN w : Object(t, w[i].child)
  BY <1>2, <1>4
<1> QED BY <1>1, <1>2, <1>5 DEF Inside, x

LEMMA StoppedInside ==
  ASSUME NEW t \in Letters, NEW q \in 1 .. Len(t) + 1
  PROVE  Inside(t, Stopped(t, q))
<1> DEFINE x == Stopped(t, q)
<1>1. Len(t) \in Nat
  BY AtIs
<1>2. x.pairs = <<>> /\ (x.past <=> q > Len(t) + 1)
  BY DEF Stopped
<1> HIDE DEF x
<1>3. DOMAIN x.pairs = {}
  BY <1>2
<1> QED BY <1>1, <1>2, <1>3 DEF Inside, x

LEMMA StepInside ==
  ASSUME NEW t \in Letters, NEW p \in 1 .. Len(t) + 1, NEW c \in BOOLEAN,
         \A q \in 1 .. Len(t) + 1 : q > p => Inside(t, Pairs(t)[q][c])
  PROVE  Inside(t, Pairs(t)[p][c])
<1> DEFINE f == Pairs(t)
           x == f[p][c]
           key == KeyAt(t, p + 1)
           ok == key.ok
           closed == Closes(t, c, p + 1)
           start == ValueStart(t, p)
           one == ValueBehind(t, p)
           brace == At(t, start) = "{"
<1>1. Len(t) \in Nat
  BY AtIs
<1>2. /\ p > Len(t) => x = Over(p)
      /\ p <= Len(t) /\ closed => x = Stopped(t, p + 1)
      /\ p <= Len(t) /\ ~closed /\ ~ok => x = Stopped(t, key.at)
      /\ p <= Len(t) /\ ~closed /\ ok =>
            /\ brace => x = Nested(t, f, c, p)
            /\ ~brace => x = Plain(t, f, c, p)
  <2>1. x = PairsStep(t, f)[p][c]
    BY PairsIs
  <2> HIDE DEF f, x
  <2> QED BY <2>1, PairsStepIs
<1>3. p <= Len(t) =>
        /\ key.at \in p + 1 .. Len(t) + 1
        /\ ok => start \in p + 2 .. Len(t) + 1 /\ one.at \in p + 2 .. Len(t) + 1
  <2>1. p <= Len(t) => p \in 1 .. Len(t)
    BY <1>1
  <2> QED BY <2>1, StartIs
<1>4. \A q \in 1 .. Len(t) + 1 : \A d \in BOOLEAN : Runs(f, d, q)
  BY PairsIs
<1>5. RunsBehind(t, f, p)
  BY <1>4 DEF RunsBehind
<1>6. \A q \in 1 .. Len(t) + 1 : q > p => Inside(t, f[q][c])
  OBVIOUS
<1> HIDE DEF f, x, key, ok, closed, start, one, brace
<1>7. ASSUME NEW q \in Nat, q > p, q <= Len(t) + 1 \/ Broken(t)
      PROVE  Inside(t, On(t, f, c, q)) /\ \E S : On(t, f, c, q).pairs \in Seq(S)
  <2>1. \E S : On(t, f, c, q).pairs \in Seq(S)
    BY <1>5, <1>7, OnRuns
  <2> DEFINE closing == Closes(t, c, q)
  <2>2. On(t, f, c, q) = IF q > Len(t) + 1 \/ closing THEN Stopped(t, q) ELSE f[q][c]
    BY DEF On
  <2> HIDE DEF closing
  <2>3. CASE q > Len(t) + 1
    <3> DEFINE y == Stopped(t, q)
    <3>1. y.pairs = <<>>
      BY DEF Stopped
    <3> HIDE DEF y
    <3>2. DOMAIN y.pairs = {} /\ Broken(t)
      BY <1>1, <1>7, <2>3, <3>1
    <3>3. Inside(t, y)
      BY <3>2 DEF Inside
    <3> QED BY <2>1, <2>2, <2>3, <3>3 DEF y
  <2>4. CASE ~(q > Len(t) + 1)
    <3>1. q \in 1 .. Len(t) + 1
      BY <1>1, <1>7, <2>4
    <3>2. Inside(t, Stopped(t, q)) /\ Inside(t, f[q][c])
      BY <1>6, <1>7, <3>1, StoppedInside
    <3> QED BY <2>1, <2>2, <2>4, <3>2
  <2> QED BY <2>3, <2>4
<1>8. CASE p > Len(t)
  <2> DEFINE y == Over(p)
  <2>1. y.pairs = <<>> /\ ~y.past
    BY DEF Over
  <2> HIDE DEF y
  <2>2. DOMAIN y.pairs = {}
    BY <2>1
  <2>3. Inside(t, y)
    BY <2>1, <2>2 DEF Inside
  <2> QED BY <1>2, <1>8, <2>3 DEF x, y, f
<1>9. CASE p <= Len(t) /\ closed
  <2>1. p + 1 \in 1 .. Len(t) + 1
    BY <1>1, <1>9
  <2> QED BY <1>2, <1>9, <2>1, StoppedInside DEF x, f
<1>10. CASE p <= Len(t) /\ ~closed /\ ~ok
  <2>1. key.at \in 1 .. Len(t) + 1
    BY <1>1, <1>3, <1>10
  <2> QED BY <1>2, <1>10, <2>1, StoppedInside DEF x, f
<1>11. CASE p <= Len(t) /\ ~closed /\ ok /\ brace
  <2> DEFINE next == f[start][TRUE].at
             pair == Copied(key, None, f[start][TRUE].pairs)
  <2>1. start \in 1 .. Len(t) + 1 /\ start > p /\ start >= 2
    BY <1>1, <1>3, <1>11
  <2>2. start \in 2 .. Len(t) /\ t[start] = Opening
    <3>1. At(t, start) = Opening /\ Opening # NUL
      BY <1>11 DEF brace, Opening, NUL
    <3>2. start \in 1 .. Len(t) /\ At(t, start) = t[start]
      BY <3>1, AtIs
    <3> QED BY <1>1, <2>1, <3>1, <3>2
  <2>3. next \in Nat /\ next > start
    BY <1>4, <2>1 DEF Runs
  <2>4. x = InFront(pair, On(t, f, c, next + 1))
    BY <1>2, <1>11 DEF Nested, start, key
  <2>5. pair.child = f[start][TRUE].pairs
    BY DEF Copied
  <2>6. Object(t, pair.child)
    <3> HIDE DEF pair
    <3> QED BY <2>2, <2>5 DEF Object, f
  <2>7. next > Len(t) => Broken(t)
    BY <2>2 DEF Broken, f
  <2> HIDE DEF next, pair
  <2>8. next + 1 \in Nat /\ next + 1 > p /\ (next + 1 <= Len(t) + 1 \/ Broken(t))
    BY <1>1, <2>1, <2>3, <2>7
  <2> DEFINE rest == On(t, f, c, next + 1)
  <2>9. Inside(t, rest) /\ \E S : rest.pairs \in Seq(S)
    BY <1>7, <2>8
  <2> HIDE DEF rest
  <2>10. Inside(t, InFront(pair, rest))
    BY <2>6, <2>9, InFrontInside
  <2> QED BY <2>4, <2>10 DEF rest, x, f
<1>12. CASE p <= Len(t) /\ ~closed /\ ok /\ ~brace
  <2>1. one.at \in Nat /\ one.at > p /\ one.at <= Len(t) + 1 /\ one.at \in 1 .. Len(t) + 1
    BY <1>1, <1>3, <1>12
  <2> DEFINE fine == one.ok
             rest == IF fine THEN On(t, f, c, one.at) ELSE Stopped(t, one.at)
             pair == Copied(key, IF fine THEN one.text ELSE None, <<>>)
  <2>2. x = InFront(pair, rest)
    BY <1>2, <1>12 DEF Plain, one, key
  <2>3. pair.child = <<>>
    BY DEF Copied
  <2> HIDE DEF pair, fine
  <2>4. Object(t, pair.child)
    BY <2>3 DEF Object
  <2>5. Inside(t, rest) /\ \E S : rest.pairs \in Seq(S)
    <3>1. Inside(t, On(t, f, c, one.at)) /\ \E S : On(t, f, c, one.at).pairs \in Seq(S)
      BY <1>7, <2>1
    <3>2. Inside(t, Stopped(t, one.at)) /\ Stopped(t, one.at).pairs \in Seq({})
      BY <2>1, StoppedInside, EmptySeq DEF Stopped
    <3> QED BY <3>1, <3>2
  <2> HIDE DEF rest
  <2>6. Inside(t, InFront(pair, rest))
    BY <2>4, <2>5, InFrontInside
  <2> QED BY <2>2, <2>6 DEF x, f
<1> QED BY <1>1, <1>8, <1>9, <1>10, <1>11, <1>12 DEF x, f

LEMMA AllInside ==
  ASSUME NEW t \in Letters, NEW p \in 1 .. Len(t) + 1, NEW c \in BOOLEAN
  PROVE  Inside(t, Pairs(t)[p][c])
<1> DEFINE N == Len(t) + 1
           T == {k \in Nat : \A q \in 1 .. N : q > N - k => Inside(t, Pairs(t)[q][c])}
<1>1. Len(t) \in Nat /\ N \in Nat
  BY AtIs
<1>2. 0 \in T
  BY <1>1
<1>3. ASSUME NEW k \in Nat, k \in T
      PROVE  k + 1 \in T
  <2>1. ASSUME NEW q \in 1 .. N, q > N - (k + 1)
        PROVE  Inside(t, Pairs(t)[q][c])
    <3>1. \A r \in 1 .. N : r > q => r > N - k
      BY <1>1, <2>1
    <3>2. \A r \in 1 .. Len(t) + 1 : r > q => Inside(t, Pairs(t)[r][c])
      BY <1>3, <3>1
    <3> QED BY <3>2, StepInside
  <2> QED BY <2>1
<1>4. N \in T
  <2> HIDE DEF T
  <2> QED BY <1>1, <1>2, <1>3, Induction
<1>5. p > N - N
  BY <1>1
<1> QED BY <1>4, <1>5

(* A pair that has a value has a comma or a brace behind it, from where the    *)
(* loop goes on.                                                           *)
LEMMA ValueEnds ==
  ASSUME NEW t \in Letters, NEW p \in 1 .. Len(t) + 1, NEW c \in BOOLEAN,
         Pairs(t)[p][c].pairs # <<>>, Pairs(t)[p][c].pairs[1].value # None
  PROVE  \E e \in p + 1 .. Len(t) : \E pair :
           /\ t[e] \in Ends
           /\ Pairs(t)[p][c] = InFront(pair, On(t, Pairs(t), c, e))
<1> DEFINE f == Pairs(t)
           x == f[p][c]
           key == KeyAt(t, p + 1)
           ok == key.ok
           closed == Closes(t, c, p + 1)
           start == ValueStart(t, p)
           one == ValueBehind(t, p)
           brace == At(t, start) = "{"
           fine == one.ok
           end == one.at
           found == one.text
<1>1. Len(t) \in Nat
  BY AtIs
<1>2. /\ p > Len(t) => x = Over(p)
      /\ p <= Len(t) /\ closed => x = Stopped(t, p + 1)
      /\ p <= Len(t) /\ ~closed /\ ~ok => x = Stopped(t, key.at)
      /\ p <= Len(t) /\ ~closed /\ ok =>
            /\ brace => x = Nested(t, f, c, p)
            /\ ~brace => x = Plain(t, f, c, p)
  <2>1. x = PairsStep(t, f)[p][c]
    BY PairsIs
  <2> HIDE DEF f, x
  <2> QED BY <2>1, PairsStepIs
<1>3. p <= Len(t) /\ ok =>
        /\ start \in p + 2 .. Len(t) + 1
        /\ end \in p + 2 .. Len(t) + 1
        /\ fine => \/ found = None /\ end = Len(t) + 1
                   \/ end \in 1 .. Len(t) /\ t[end] \in Ends
  <2>1. p <= Len(t) => p \in 1 .. Len(t)
    BY <1>1
  <2> QED BY <2>1, StartIs DEF Ends, Comma, Closing
<1>4. \A q \in 1 .. Len(t) + 1 : \A d \in BOOLEAN : Runs(f, d, q)
  BY PairsIs
<1>5. RunsBehind(t, f, p)
  BY <1>4 DEF RunsBehind
<1>6. x.pairs # <<>> /\ x.pairs[1].value # None
  OBVIOUS
<1>7. CopyStr(None) = None
  <2>1. None \in Letters
    BY EmptySeq DEF Letters, None
  <2> QED BY <2>1, Copies
<1>8. \A y, q, S : y.pairs \in Seq(S) => InFront(q, y).pairs[1] = q
  <2> SUFFICES ASSUME NEW y, NEW q, NEW S, y.pairs \in Seq(S)
               PROVE  InFront(q, y).pairs[1] = q
    OBVIOUS
  <2> DEFINE u == y.pairs
             R == S \cup {q}
             w == <<q>> \o u
  <2>1. u \in Seq(R) /\ <<q>> \in Seq(R)
    BY SeqMonotonic
  <2>2. InFront(q, y).pairs = w
    BY InFrontIs
  <2> HIDE DEF u, R
  <2>3. w[1] = q
    <3>1. Len(u) \in Nat /\ \A i \in 1 .. 1 + Len(u) : w[i] = IF i <= 1 THEN <<q>>[i] ELSE u[i - 1]
      BY <2>1, ConcatProperties
    <3>2. 1 \in 1 .. 1 + Len(u) /\ <<q>>[1] = q
      BY <3>1
    <3> HIDE DEF w
    <3> QED BY <3>1, <3>2
  <2> QED BY <2>2, <2>3
<1> HIDE DEF f, x, key, ok, closed, start, one, brace, fine, end, found
<1>9. ~(p > Len(t))
  BY <1>2, <1>6 DEF Over
<1>10. ~closed
  BY <1>1, <1>2, <1>6, <1>9 DEF Stopped
<1>11. ok
  BY <1>1, <1>2, <1>6, <1>9, <1>10 DEF Stopped
<1>12. p <= Len(t)
  BY <1>1, <1>9
<1>13. ~brace
  <2> SUFFICES ASSUME brace PROVE FALSE
    OBVIOUS
  <2> DEFINE next == f[start][TRUE].at
             pair == Copied(key, None, f[start][TRUE].pairs)
  <2>1. start \in 1 .. Len(t) + 1 /\ start > p
    BY <1>1, <1>3, <1>11, <1>12
  <2>2. next \in Nat /\ next > start
    BY <1>4, <2>1 DEF Runs
  <2>3. x = InFront(pair, On(t, f, c, next + 1))
    BY <1>2, <1>10, <1>11, <1>12 DEF Nested, start, key
  <2>4. pair.value = None
    BY <1>7 DEF Copied
  <2> HIDE DEF next, pair
  <2>5. next + 1 \in Nat /\ next + 1 > p
    BY <2>1, <2>2
  <2>6. \E S : On(t, f, c, next + 1).pairs \in Seq(S)
    BY <1>5, <2>5, OnRuns
  <2>7. x.pairs[1] = pair
    BY <1>8, <2>3, <2>6
  <2> QED BY <1>6, <2>4, <2>7
<1> DEFINE rest == IF fine THEN On(t, f, c, end) ELSE Stopped(t, end)
           pair == Copied(key, IF fine THEN found ELSE None, <<>>)
<1>14. x = InFront(pair, rest)
  BY <1>2, <1>10, <1>11, <1>12, <1>13 DEF Plain, one, key, fine, end, found
<1>15. pair.value = CopyStr(IF fine THEN found ELSE None)
  BY DEF Copied
<1>16. end \in Nat /\ end > p
  BY <1>1, <1>3, <1>11, <1>12
<1>17. \E S : rest.pairs \in Seq(S)
  <2>1. \E S : On(t, f, c, end).pairs \in Seq(S)
    BY <1>5, <1>16, OnRuns
  <2>2. Stopped(t, end).pairs \in Seq({})
    BY EmptySeq DEF Stopped
  <2> QED BY <2>1, <2>2
<1> HIDE DEF pair, rest
<1>18. x.pairs[1] = pair
  BY <1>8, <1>14, <1>17
<1>19. CopyStr(IF fine THEN found ELSE None) # None
  BY <1>6, <1>15, <1>18
<1>20. fine /\ found # None
  BY <1>7, <1>19
<1>21. end \in p + 1 .. Len(t) /\ t[end] \in Ends
  BY <1>1, <1>3, <1>11, <1>12, <1>20
<1>22. x = InFront(pair, On(t, f, c, end))
  BY <1>14, <1>20 DEF rest
<1> QED BY <1>21, <1>22 DEF x, f

(* Of an object whose end is cut off each pair with a value has a comma       *)
(* behind it.                                                              *)
LEMMA CommaBehind ==
  ASSUME NEW t \in Letters, NEW p \in 1 .. Len(t) + 1,
         Pairs(t)[p][TRUE].pairs # <<>>, Pairs(t)[p][TRUE].pairs[1].value # None,
         Pairs(t)[p][TRUE].at > Len(t)
  PROVE  \E e \in p + 1 .. Len(t) : \E pair :
           /\ t[e] = Comma
           /\ Pairs(t)[p][TRUE].pairs = <<pair>> \o Pairs(t)[e][TRUE].pairs
           /\ Pairs(t)[e][TRUE].at > Len(t)
<1>1. Len(t) \in Nat
  BY AtIs
<1>0. PICK e \in p + 1 .. Len(t) :
        \E pair : t[e] \in Ends /\ Pairs(t)[p][TRUE] = InFront(pair, On(t, Pairs(t), TRUE, e))
  BY ValueEnds
<1>2. PICK pair :
        t[e] \in Ends /\ Pairs(t)[p][TRUE] = InFront(pair, On(t, Pairs(t), TRUE, e))
  BY <1>0
<1> DEFINE f == Pairs(t)
           x == f[p][TRUE]
           closing == Closes(t, TRUE, e)
<1>3. e \in 1 .. Len(t) /\ At(t, e) = t[e]
  BY <1>1, AtIs
<1>5. On(t, f, TRUE, e) = IF e > Len(t) + 1 \/ closing THEN Stopped(t, e) ELSE f[e][TRUE]
  BY DEF On
<1>6. x.at > Len(t) /\ x = InFront(pair, On(t, f, TRUE, e))
  BY <1>2
<1> HIDE DEF f, x, closing
<1>4. x.pairs = <<pair>> \o On(t, f, TRUE, e).pairs /\ x.at = On(t, f, TRUE, e).at
  BY <1>6, InFrontIs
<1>7. ASSUME closing PROVE FALSE
  <2> DEFINE at == x.at
  <2>1. Stopped(t, e).at = e
    BY DEF Stopped
  <2>2. at = e
    BY <1>4, <1>5, <1>7, <2>1
  <2>3. at > Len(t)
    BY <1>6
  <2> HIDE DEF at
  <2>4. ~(e > Len(t))
    BY <1>1, <1>3
  <2> QED BY ONLY <2>2, <2>3, <2>4
<1>8. On(t, f, TRUE, e) = f[e][TRUE]
  <2>1. ~(e > Len(t) + 1)
    BY <1>1, <1>3
  <2> QED BY ONLY <1>5, <1>7, <2>1
<1>9. t[e] = Comma
  <2>1. t[e] # Closing
    BY <1>3, <1>7 DEF closing, Closes, Closing
  <2> QED BY <1>2, <2>1 DEF Ends
<1>10. x.pairs = <<pair>> \o f[e][TRUE].pairs /\ f[e][TRUE].at > Len(t)
  BY <1>4, <1>6, <1>8
<1> QED BY <1>9, <1>10 DEF f, x

----------------------------------------------------------------------------
(* A message as an administrator writes it: the pairs of its data, its op.    *)
AsWritten(style, v) == IF v = None \/ style.sign = <<"'">> THEN Quoted(v) ELSE v
Datum(style, pair) == Said(style, pair.key, AsWritten(style, pair.value))
More(style, pairs) == IF Len(pairs) = 1 THEN <<>> ELSE <<Comma>> \o Datum(style, pairs[2])
SettingMark == "set setting"
OpWord == "op"
DataWord == "data"
OpValue == <<SettingMark>>
Op(style) == Said(style, OpWord, Quoted(OpValue))
Marks == {Opening, Comma}

LEMMA MarksFree ==
  /\ \A y \in Marks : /\ y # Space /\ y # ColonMark /\ y # Quote /\ y # Closing
                      /\ y \notin Signs /\ y \notin Names /\ y \notin Numeric
                      /\ y # SettingMark
  /\ Opening # Comma /\ Marks \subseteq Letter /\ Opening # Closing
BY DEF Marks, Opening, Comma, Space, ColonMark, Quote, Closing, Signs, Names, Key, Numeric,
       Digits, Letter, SettingMark

LEMMA OneFree ==
  ASSUME NEW x, NEW y, x # y
  PROVE  Free(<<x>>, y)
<1>1. \A i \in 1 .. Len(<<x>>) : i = 1 /\ <<x>>[1] = x
  OBVIOUS
<1> QED BY <1>1 DEF Free

LEMMA NoneFree ==
  \A y : Free(<<>>, y)
<1>1. \A i \in 1 .. Len(<<>>) : FALSE
  OBVIOUS
<1> QED BY <1>1 DEF Free

LEMMA StyleFree ==
  ASSUME NEW style \in Style, NEW k \in Names, NEW y \in Marks
  PROVE  Free(style.space, y) /\ Free(style.sign, y) /\ Free(Opened(style, k), y)
<1> DEFINE s == style.space
           g == style.sign
           x == <<k>>
           l == <<ColonMark>>
           n1 == s \o g
           n2 == n1 \o x
           n3 == n2 \o g
           n4 == n3 \o s
           n5 == n4 \o l
           n6 == n5 \o s
<1>1. Free(s, y)
  <2>1. Space # y
    BY MarksFree
  <2>2. Free(<<Space>>, y) /\ Free(<<>>, y)
    BY <2>1, OneFree, NoneFree
  <2> QED BY <2>2, StyleIs
<1>2. Free(g, y)
  <2>1. ASSUME NEW q \in Signs PROVE Free(<<q>>, y)
    <3>1. q # y
      BY MarksFree
    <3> QED BY <3>1, OneFree
  <2> QED BY <2>1, StyleIs, NoneFree
<1>3. Free(x, y) /\ Free(l, y)
  <2>1. k # y /\ ColonMark # y
    BY MarksFree
  <2> QED BY <2>1, OneFree
<1>4. s \in Letters /\ g \in Letters /\ x \in Letters /\ l \in Letters
  BY StyleIs, NamesAre DEF Letters
<1>5. Opened(style, k) = n6
  BY DEF Opened, Name, ColonMark
<1> HIDE DEF s, g, x, l
<1>6. n1 \in Letters /\ Free(n1, y)
  BY <1>1, <1>2, <1>4, Joins
<1> HIDE DEF n1
<1>7. n2 \in Letters /\ Free(n2, y)
  BY <1>3, <1>4, <1>6, Joins
<1> HIDE DEF n2
<1>8. n3 \in Letters /\ Free(n3, y)
  BY <1>2, <1>4, <1>7, Joins
<1> HIDE DEF n3
<1>9. n4 \in Letters /\ Free(n4, y)
  BY <1>1, <1>4, <1>8, Joins
<1> HIDE DEF n4
<1>10. n5 \in Letters /\ Free(n5, y)
  BY <1>3, <1>4, <1>9, Joins
<1> HIDE DEF n5
<1>11. Free(n6, y)
  BY <1>1, <1>4, <1>10, Joins
<1> QED BY <1>1, <1>2, <1>5, <1>11 DEF s, g

LEMMA QuotedFree ==
  ASSUME NEW v \in Letters, NEW y \in Marks, Free(v, y)
  PROVE  Free(Quoted(v), y)
<1> DEFINE q == <<Quote>>
           n1 == q \o v
           n2 == n1 \o q
<1>1. q \in Letters /\ Free(q, y)
  <2>1. Quote # y /\ Quote \in Letter
    BY MarksFree, MarksAre
  <2> QED BY <2>1, OneFree DEF Letters
<1>2. Quoted(v) = n2
  BY DEF Quoted, Quote
<1> HIDE DEF q
<1>3. n1 \in Letters /\ Free(n1, y)
  BY <1>1, Joins
<1> HIDE DEF n1
<1>4. Free(n2, y)
  BY <1>1, <1>3, Joins
<1> QED BY <1>2, <1>4

LEMMA DatumIs ==
  ASSUME NEW style \in Style, NEW pair \in Pair
  PROVE  /\ pair.key \in Names /\ Datum(style, pair) \in Letters
         /\ Wrote(AsWritten(style, pair.value), pair.value)
         /\ \A y \in Marks : Free(Datum(style, pair), y)
<1> DEFINE k == pair.key
           v == pair.value
           x == AsWritten(style, v)
<1>1. k \in Names /\ v \in Number \cup {None}
  BY DEF Pair, Names
<1>2. v \in Seq(Numeric) /\ (v = None \/ v # None)
  <2>1. None \in Seq(Numeric)
    BY EmptySeq DEF None
  <2>2. Number \subseteq Seq(Numeric)
    BY SettingsAssumption
  <2> HIDE DEF v
  <2> QED BY <1>1, <2>1, <2>2
<1>3. v \in Letters /\ \A i \in 1 .. Len(v) : v[i] \in Numeric
  <2> HIDE DEF v
  <2> QED BY <1>2, MarksAre, SeqMonotonic DEF Letters
<1>4. x = IF v = None \/ style.sign = <<"'">> THEN Quoted(v) ELSE v
  BY DEF AsWritten
<1> DEFINE quoting == v = None \/ style.sign = <<"'">>
<1> HIDE DEF k, v, x
<1>5. x = IF quoting THEN Quoted(v) ELSE v
  BY <1>4
<1>6. ~quoting => v # None
  OBVIOUS
<1> HIDE DEF quoting
<1>7. Wrote(x, v)
  <2>1. \A i \in 1 .. Len(v) : v[i] # Quote
    BY <1>3, MarksAre
  <2> QED BY <1>2, <1>3, <1>5, <1>6, <2>1 DEF Wrote
<1>8. \A y \in Marks : Free(x, y)
  <2> SUFFICES ASSUME NEW y \in Marks PROVE Free(x, y)
    OBVIOUS
  <2>1. Free(v, y)
    BY <1>3, MarksFree DEF Free
  <2>2. Free(Quoted(v), y)
    BY <1>3, <2>1, QuotedFree
  <2> QED BY <1>5, <2>1, <2>2
<1>9. x \in Letters
  BY <1>7, WroteIs
<1>10. Datum(style, pair) = Said(style, k, x)
  BY DEF Datum, k, v, x
<1>11. Said(style, k, x) \in Letters
  BY <1>1, <1>9, SaidIs
<1>12. \A y \in Marks : Free(Said(style, k, x), y)
  BY <1>1, <1>8, <1>9, SaidIs, StyleFree
<1> QED BY <1>1, <1>7, <1>10, <1>11, <1>12 DEF k, v, x

LEMMA OpIs ==
  ASSUME NEW style \in Style
  PROVE  /\ Op(style) \in Letters /\ Wrote(Quoted(OpValue), OpValue)
         /\ OpWord \in Names /\ DataWord \in Names
         /\ \A y \in Marks : Free(Op(style), y)
<1>1. OpWord \in Names /\ DataWord \in Names
  BY DEF Names, OpWord, DataWord
<1>2. OpValue \in Letters /\ Len(OpValue) = 1 /\ OpValue[1] # Quote
  BY DEF OpValue, Letters, Letter, Quote, SettingMark
<1>3. Wrote(Quoted(OpValue), OpValue)
  <2>1. \A i \in 1 .. Len(OpValue) : OpValue[i] # Quote
    BY <1>2
  <2> QED BY <1>2, <2>1 DEF Wrote
<1>4. Quoted(OpValue) \in Letters
  BY <1>2, QuotedIs
<1>5. \A y \in Marks : Free(Quoted(OpValue), y)
  <2> SUFFICES ASSUME NEW y \in Marks PROVE Free(Quoted(OpValue), y)
    OBVIOUS
  <2>1. Free(OpValue, y)
    <3>1. SettingMark # y
      BY MarksFree
    <3> QED BY <3>1, OneFree DEF OpValue
  <2> QED BY <1>2, <2>1, QuotedFree
<1>6. Op(style) \in Letters /\ \A y \in Marks : Free(Op(style), y)
  <2> DEFINE k == OpWord
             x == Quoted(OpValue)
  <2>1. k \in Names /\ x \in Letters /\ Op(style) = Said(style, k, x)
        /\ \A y \in Marks : Free(x, y)
    BY <1>1, <1>4, <1>5 DEF Op
  <2> HIDE DEF k, x
  <2> QED BY <2>1, SaidIs, StyleFree
<1> QED BY <1>1, <1>3, <1>6

LEMMA MessageIs ==
  ASSUME NEW pairs \in Message
  PROVE  /\ Len(pairs) \in {1, 2} /\ DOMAIN pairs = 1 .. Len(pairs)
         /\ pairs[1] \in Pair
         /\ Len(pairs) = 1 => pairs = <<pairs[1]>>
         /\ Len(pairs) = 2 => pairs[2] \in Pair /\ pairs = <<pairs[1], pairs[2]>>
<1>1. CASE \E x \in Pair : pairs = <<x>>
  BY <1>1
<1>2. CASE \E x, y \in Pair : pairs = <<x, y>>
  BY <1>2
<1> QED BY <1>1, <1>2 DEF Message

(* What setSetting is to get: the pairs of the object, read to its brace.     *)
PairSent(pair) == [key |-> <<pair.key>>, value |-> pair.value, child |-> <<>>]
PairsSent(pairs) ==
  IF Len(pairs) = 1 THEN <<PairSent(pairs[1])>> ELSE <<PairSent(pairs[1]), PairSent(pairs[2])>>

LEMMA OneRest ==
  ASSUME NEW x, NEW y
  PROVE  <<x>> \o <<>> = <<x>> /\ <<x>> \o <<y>> = <<x, y>>
<1> DEFINE S == {x, y}
           u == <<x>>
           w == u \o <<y>>
<1>1. u \in Seq(S) /\ <<y>> \in Seq(S)
  OBVIOUS
<1> HIDE DEF S
<1>2. u \o <<>> = u
  BY <1>1, EmptySeq, ConcatProperties
<1>3. w \in Seq(S) /\ Len(w) = 2 /\ w[1] = x /\ w[2] = y
  BY <1>1, ConcatProperties
<1> HIDE DEF w, u
<1>4. w = <<x, y>>
  <2>1. Len(<<x, y>>) = 2 /\ <<x, y>>[1] = x /\ <<x, y>>[2] = y /\ x \in S /\ y \in S
    BY DEF S
  <2>2. <<x, y>> \in Seq(S)
    BY <2>1
  <2> DEFINE v == <<x, y>>
  <2> HIDE DEF v
  <2>3. \A i \in 1 .. 2 : w[i] = v[i]
    BY <1>3, <2>1 DEF v
  <2>4. w = v
    BY <1>3, <2>1, <2>2, <2>3, SeqEqual DEF v
  <2> QED BY <2>4 DEF v
<1> QED BY <1>2, <1>4 DEF w, u

LEMMA InFrontGives ==
  ASSUME NEW pair, NEW u, NEW z, NEW rest, rest = [pairs |-> u, at |-> z, past |-> FALSE]
  PROVE  InFront(pair, rest) = [pairs |-> <<pair>> \o u, at |-> z, past |-> FALSE]
<1>1. rest.pairs = u /\ rest.at = z /\ rest.past = FALSE
  OBVIOUS
<1> QED BY ONLY <1>1 DEF InFront

LEMMA InnerReads ==
  ASSUME NEW t \in Letters, NEW style \in Style, NEW pairs \in Message,
         NEW b \in 1 .. Len(t), NEW z \in 1 .. Len(t),
         Spells(t, b + 1, Datum(style, pairs[1])),
         Spells(t, b + 1 + Len(Datum(style, pairs[1])), More(style, pairs)),
         z = b + 1 + Len(Datum(style, pairs[1])) + Len(More(style, pairs)), t[z] = Closing
  PROVE  Pairs(t)[b][TRUE] = [pairs |-> PairsSent(pairs), at |-> z, past |-> FALSE]
<1> DEFINE f == Pairs(t)
           one == Datum(style, pairs[1])
           l == Len(one)
<1>1. /\ pairs[1] \in Pair /\ pairs[1].key \in Names /\ one \in Letters /\ l \in Nat
      /\ Wrote(AsWritten(style, pairs[1].value), pairs[1].value)
  BY MessageIs, DatumIs, AtIs
<1>2. Len(t) \in Nat /\ b \in Nat /\ z \in Nat
  BY AtIs
<1>3. On(t, f, TRUE, z) = [pairs |-> <<>>, at |-> z, past |-> FALSE]
  <2>1. At(t, z) = t[z]
    BY AtIs
  <2>2. Closes(t, TRUE, z)
    BY <2>1 DEF Closes, Closing
  <2>3. ~(z > Len(t) + 1)
    BY <1>2
  <2> DEFINE past == z > Len(t) + 1
  <2>4. On(t, f, TRUE, z) = Stopped(t, z)
    BY <2>2 DEF On
  <2>5. Stopped(t, z) = [pairs |-> <<>>, at |-> z, past |-> past]
    BY DEF Stopped
  <2>6. past = FALSE
    BY <2>3
  <2> HIDE DEF past
  <2> QED BY <2>4, <2>5, <2>6
<1>4. \A q \in 1 .. Len(t), pair \in Pair :
        Spells(t, q + 1, Datum(style, pair)) /\ z = q + 1 + Len(Datum(style, pair)) =>
          f[q][TRUE] = [pairs |-> <<PairSent(pair)>>, at |-> z, past |-> FALSE]
  <2> SUFFICES ASSUME NEW q \in 1 .. Len(t), NEW pair \in Pair,
                      Spells(t, q + 1, Datum(style, pair)), z = q + 1 + Len(Datum(style, pair))
               PROVE  f[q][TRUE] = [pairs |-> <<PairSent(pair)>>, at |-> z, past |-> FALSE]
    OBVIOUS
  <2> DEFINE k == pair.key
             v == pair.value
             x == AsWritten(style, v)
  <2>1. k \in Names /\ Wrote(x, v)
    BY DatumIs
  <2>2. Spells(t, q + 1, Said(style, k, x)) /\ z = q + 1 + Len(Said(style, k, x))
    BY DEF Datum
  <2>3. t[z] \in Ends
    BY DEF Ends
  <2>4. PairSent(pair) = [key |-> <<k>>, value |-> v, child |-> <<>>]
    BY DEF PairSent
  <2> HIDE DEF k, v, x
  <2> DEFINE c == TRUE
  <2>5. f[q][c] = InFront([key |-> <<k>>, value |-> v, child |-> <<>>], On(t, f, c, z))
    <3>1. c \in BOOLEAN
      OBVIOUS
    <3> HIDE DEF c
    <3> QED BY <2>1, <2>2, <2>3, <3>1, SaidPair
  <2>6. <<PairSent(pair)>> \o <<>> = <<PairSent(pair)>>
    BY OneRest
  <2> HIDE DEF f
  <2> DEFINE y == On(t, f, c, z)
             g == f[q][c]
  <2>8. y = [pairs |-> <<>>, at |-> z, past |-> FALSE] /\ g = InFront(PairSent(pair), y)
    BY <1>3, <2>4, <2>5
  <2> HIDE DEF y, g
  <2>7. g = [pairs |-> <<PairSent(pair)>> \o <<>>, at |-> z, past |-> FALSE]
    BY ONLY <2>8, InFrontGives, ZenonT(40)
  <2> QED BY <2>6, <2>7 DEF g
<1>5. CASE Len(pairs) = 1
  <2>1. More(style, pairs) = <<>> /\ Len(More(style, pairs)) = 0
    BY <1>5 DEF More
  <2>2. z = b + 1 + l
    BY <1>1, <1>2, <2>1
  <2>3. PairsSent(pairs) = <<PairSent(pairs[1])>>
    BY <1>5 DEF PairsSent
  <2> HIDE DEF f
  <2>4. f[b][TRUE] = [pairs |-> <<PairSent(pairs[1])>>, at |-> z, past |-> FALSE]
    BY <1>1, <1>4, <2>2
  <2> QED BY <2>3, <2>4 DEF f
<1>6. CASE Len(pairs) = 2
  <2> DEFINE two == Datum(style, pairs[2])
             m == Len(two)
             c == <<Comma>>
             r == c \o two
             d == b + 1 + l
  <2>1. pairs[2] \in Pair /\ two \in Letters /\ m \in Nat
    BY <1>6, MessageIs, DatumIs, AtIs
  <2>2. c \in Letters /\ Len(c) = 1 /\ c = <<Comma>>
    BY NamesAre DEF Letters
  <2>3. More(style, pairs) = r
    <3>1. ~(Len(pairs) = 1)
      BY <1>6
    <3> QED BY <3>1 DEF More
  <2> HIDE DEF two, c
  <2>4. Len(r) = 1 + m /\ \A p \in Nat \ {0} : Spells(t, p, r) => Spells(t, p, c) /\ Spells(t, p + 1, two)
    BY <2>1, <2>2, Joins
  <2> HIDE DEF r
  <2>5. d \in Nat \ {0} /\ z = d + 1 + m
    <3> DEFINE n == Len(r)
    <3>1. n = 1 + m /\ z = b + 1 + l + n
      BY <2>3, <2>4
    <3> HIDE DEF n, l, m
    <3> QED BY <1>1, <1>2, <2>1, <3>1
  <2>6. Spells(t, d, c) /\ Spells(t, d + 1, two)
    BY <2>3, <2>4, <2>5
  <2> HIDE DEF d
  <2>7. d \in 1 .. Len(t) /\ t[d] = Comma
    BY <2>2, <2>5, <2>6, HasOne
  <2>8. f[d][TRUE] = [pairs |-> <<PairSent(pairs[2])>>, at |-> z, past |-> FALSE]
    <3> HIDE DEF f
    <3> QED BY <1>4, <2>1, <2>5, <2>6, <2>7 DEF two
  <2>9. On(t, f, TRUE, d) = f[d][TRUE]
    <3>1. At(t, d) = Comma
      BY <2>7, AtIs
    <3>2. ~Closes(t, TRUE, d)
      BY <3>1 DEF Closes, Comma
    <3>3. ~(d > Len(t) + 1)
      BY <1>2, <2>7
    <3> QED BY <3>2, <3>3 DEF On
  <2>10. f[b][TRUE] = InFront(PairSent(pairs[1]), On(t, f, TRUE, d))
    <3> DEFINE k == pairs[1].key
               v == pairs[1].value
               x == AsWritten(style, v)
    <3>1. k \in Names /\ Wrote(x, v)
      BY <1>1
    <3>2. Spells(t, b + 1, Said(style, k, x)) /\ d = b + 1 + Len(Said(style, k, x))
      BY DEF Datum, d
    <3>3. t[d] \in Ends
      BY <2>7 DEF Ends
    <3>4. PairSent(pairs[1]) = [key |-> <<k>>, value |-> v, child |-> <<>>]
      BY DEF PairSent
    <3> HIDE DEF k, v, x
    <3> DEFINE child == TRUE
    <3>5. child \in BOOLEAN
      OBVIOUS
    <3> HIDE DEF child
    <3>6. f[b][child] = InFront([key |-> <<k>>, value |-> v, child |-> <<>>], On(t, f, child, d))
      BY <2>7, <3>1, <3>2, <3>3, <3>5, SaidPair
    <3> QED BY <3>4, <3>6 DEF child
  <2>11. PairsSent(pairs) = <<PairSent(pairs[1])>> \o <<PairSent(pairs[2])>>
    BY <1>6, OneRest DEF PairsSent
  <2> HIDE DEF f
  <2> DEFINE y == f[d][TRUE]
             g == f[b][TRUE]
  <2>12. y = [pairs |-> <<PairSent(pairs[2])>>, at |-> z, past |-> FALSE]
         /\ g = InFront(PairSent(pairs[1]), y)
    BY <2>8, <2>9, <2>10
  <2> HIDE DEF y, g
  <2>13. g = [pairs |-> <<PairSent(pairs[1])>> \o <<PairSent(pairs[2])>>, at |-> z, past |-> FALSE]
    BY ONLY <2>12, InFrontGives, ZenonT(40)
  <2> QED BY <2>11, <2>13 DEF f, g
<1> QED BY <1>5, <1>6, MessageIs

(* How a message is laid out: the brace of data is at place b, and its end at  *)
(* place z.                                                                *)
All(style, pairs) ==
  Opened(style, DataWord) \o <<Opening>> \o Datum(style, pairs[1]) \o More(style, pairs)
    \o <<Closing>>

WithObject(t, style, pairs, b, z) ==
  /\ b \in 2 .. Len(t) /\ z \in b + 1 .. Len(t)
  /\ t[b] = Opening /\ t[z] = Closing
  /\ Spells(t, b + 1, Datum(style, pairs[1]))
  /\ Spells(t, b + 1 + Len(Datum(style, pairs[1])), More(style, pairs))
  /\ z = b + 1 + Len(Datum(style, pairs[1])) + Len(More(style, pairs))

OneObject(t, b) == \A i \in 2 .. Len(t) : t[i] = Opening => i = b

OpFirst(t, style, b, z) ==
  /\ Spells(t, 2, Op(style))
  /\ 2 + Len(Op(style)) \in 2 .. Len(t) /\ t[2 + Len(Op(style))] = Comma
  /\ Spells(t, 2 + Len(Op(style)) + 1, Opened(style, DataWord))
  /\ b = 2 + Len(Op(style)) + 1 + Len(Opened(style, DataWord))
  /\ z + 1 = Len(t) /\ t[z + 1] = Closing

DataFirst(t, style, b, z) ==
  /\ Spells(t, 2, Opened(style, DataWord))
  /\ b = 2 + Len(Opened(style, DataWord))
  /\ z + 1 \in 2 .. Len(t) /\ t[z + 1] = Comma
  /\ Spells(t, z + 1 + 1, Op(style))
  /\ z + 1 + 1 + Len(Op(style)) = Len(t) /\ t[z + 1 + 1 + Len(Op(style))] = Closing

LEMMA WrittenForm ==
  ASSUME NEW style \in Style, NEW pairs \in Message
  PROVE  Written(style, pairs) =
           <<Opening>> \o (IF style.dataFirst THEN All(style, pairs) \o <<Comma>> \o Op(style)
                           ELSE Op(style) \o <<Comma>> \o All(style, pairs)) \o <<Closing>>
BY DEF Written, All, Op, Opened, Said, Spaced, Name, Datum, AsWritten, Quoted, More, OpValue,
       SettingMark, Opening, Comma, Closing, OpWord, DataWord

LEMMA SpellsFree ==
  ASSUME NEW t, NEW p \in Nat, NEW s \in Letters, NEW y, Spells(t, p, s), Free(s, y),
         NEW i \in p .. p + Len(s) - 1
  PROVE  t[i] # y
<1>1. Len(s) \in Nat
  BY AtIs
<1>2. i - p + 1 \in 1 .. Len(s) /\ p + (i - p + 1) - 1 = i
  BY <1>1
<1>3. t[i] = s[i - p + 1] /\ s[i - p + 1] # y
  BY <1>2 DEF Spells, Free
<1> QED BY <1>3

LEMMA MoreIs ==
  ASSUME NEW style \in Style, NEW pairs \in Message
  PROVE  /\ More(style, pairs) \in Letters /\ Free(More(style, pairs), Opening)
         /\ Len(pairs) = 1 => Free(More(style, pairs), Comma)
         /\ Len(pairs) = 2 => \A i \in 1 .. Len(More(style, pairs)) :
                                More(style, pairs)[i] = Comma => i = 1
<1> DEFINE r == More(style, pairs)
<1>0. Opening \in Marks /\ Comma \in Marks /\ Comma # Opening
  BY MarksFree DEF Marks
<1>1. CASE Len(pairs) = 1
  <2>1. r = <<>>
    BY <1>1 DEF More
  <2>2. r \in Letters
    BY <2>1, EmptySeq DEF Letters
  <2>3. Free(r, Opening) /\ Free(r, Comma)
    <3> HIDE DEF r
    <3> QED BY <2>1, NoneFree
  <2> QED BY <1>1, <2>2, <2>3
<1>2. CASE Len(pairs) = 2
  <2> DEFINE c == <<Comma>>
             d == Datum(style, pairs[2])
             w == c \o d
  <2>1. r = w
    <3>1. ~(Len(pairs) = 1)
      BY <1>2
    <3> QED BY <3>1 DEF More
  <2>2. c \in Letters /\ Free(c, Opening) /\ Len(c) = 1
    BY <1>0, MarksFree, OneFree DEF Letters
  <2>3. d \in Letters /\ Free(d, Opening) /\ Free(d, Comma) /\ Len(d) \in Nat
    BY <1>0, <1>2, MessageIs, DatumIs, AtIs
  <2> HIDE DEF c, d
  <2>4. w \in Letters /\ Free(w, Opening)
    BY <2>2, <2>3, Joins
  <2>5. Len(w) = 1 + Len(d) /\ \A i \in 1 .. 1 + Len(d) : w[i] = IF i <= 1 THEN c[i] ELSE d[i - 1]
    <3>1. /\ Len(w) = Len(c) + Len(d)
          /\ \A i \in 1 .. Len(c) + Len(d) : w[i] = IF i <= Len(c) THEN c[i] ELSE d[i - Len(c)]
      BY <2>2, <2>3, ConcatProperties DEF Letters
    <3> HIDE DEF w
    <3> QED BY <2>2, <3>1
  <2> HIDE DEF w
  <2>6. ASSUME NEW i \in 1 .. Len(w), i # 1
        PROVE  w[i] # Comma
    <3>1. i - 1 \in 1 .. Len(d) /\ ~(i <= 1) /\ i \in 1 .. 1 + Len(d)
      BY <2>3, <2>5, <2>6
    <3> QED BY <2>3, <2>5, <3>1 DEF Free
  <2> HIDE DEF r
  <2>7. /\ r \in Letters /\ Free(r, Opening) /\ ~(Len(pairs) = 1)
        /\ \A i \in 1 .. Len(r) : r[i] = Comma => i = 1
    BY <1>2, <2>1, <2>4, <2>6
  <2> QED BY <2>7 DEF r
<1> QED BY <1>1, <1>2, MessageIs

LEMMA AllIs ==
  ASSUME NEW style \in Style, NEW pairs \in Message
  PROVE  /\ All(style, pairs) \in Letters /\ Opened(style, DataWord) \in Letters
         /\ Datum(style, pairs[1]) \in Letters /\ More(style, pairs) \in Letters
         /\ Len(All(style, pairs)) = Len(Opened(style, DataWord)) + 1
              + Len(Datum(style, pairs[1])) + Len(More(style, pairs)) + 1
         /\ \A t \in Letters : \A p \in Nat \ {0} : Spells(t, p, All(style, pairs)) =>
              \E b, z : /\ b = p + Len(Opened(style, DataWord)) /\ z = p + Len(All(style, pairs)) - 1
                        /\ Spells(t, p, Opened(style, DataWord))
                        /\ p >= 2 => WithObject(t, style, pairs, b, z)
<1> DEFINE o == Opened(style, DataWord)
           d == Datum(style, pairs[1])
           r == More(style, pairs)
           x == <<Opening>>
           y == <<Closing>>
           n1 == o \o x
           n2 == n1 \o d
           n3 == n2 \o r
           n4 == n3 \o y
<1>1. o \in Letters /\ d \in Letters /\ r \in Letters
  BY OpIs, OpenedIs, MessageIs, DatumIs, MoreIs
<1>2. x \in Letters /\ y \in Letters /\ Len(x) = 1 /\ Len(y) = 1 /\ x = <<Opening>> /\ y = <<Closing>>
  BY NamesAre DEF Letters
<1>3. All(style, pairs) = n4
  BY DEF All
<1> HIDE DEF o, d, r, x, y
<1>4. /\ n1 \in Letters /\ Len(n1) = Len(o) + Len(x) /\ Len(o) \in Nat
      /\ \A t \in Letters : \A p \in Nat \ {0} : Spells(t, p, n1) =>
           Spells(t, p, o) /\ Spells(t, p + Len(o), x)
  BY <1>1, <1>2, Joins
<1> HIDE DEF n1
<1>5. /\ n2 \in Letters /\ Len(n2) = Len(n1) + Len(d) /\ Len(d) \in Nat
      /\ \A t \in Letters : \A p \in Nat \ {0} : Spells(t, p, n2) =>
           Spells(t, p, n1) /\ Spells(t, p + Len(n1), d)
  BY <1>1, <1>4, Joins
<1> HIDE DEF n2
<1>6. /\ n3 \in Letters /\ Len(n3) = Len(n2) + Len(r) /\ Len(r) \in Nat
      /\ \A t \in Letters : \A p \in Nat \ {0} : Spells(t, p, n3) =>
           Spells(t, p, n2) /\ Spells(t, p + Len(n2), r)
  BY <1>1, <1>5, Joins
<1> HIDE DEF n3
<1>7. /\ n4 \in Letters /\ Len(n4) = Len(n3) + Len(y)
      /\ \A t \in Letters : \A p \in Nat \ {0} : Spells(t, p, n4) =>
           Spells(t, p, n3) /\ Spells(t, p + Len(n3), y)
  BY <1>2, <1>6, Joins
<1> HIDE DEF n4
<1>8. /\ Len(n1) = Len(o) + 1 /\ Len(n2) = Len(o) + 1 + Len(d)
      /\ Len(n3) = Len(o) + 1 + Len(d) + Len(r) /\ Len(n4) = Len(o) + 1 + Len(d) + Len(r) + 1
  BY <1>2, <1>4, <1>5, <1>6, <1>7
<1>9. ASSUME NEW t \in Letters, NEW p \in Nat \ {0}, Spells(t, p, n4)
      PROVE  /\ Spells(t, p, o)
             /\ p >= 2 => WithObject(t, style, pairs, p + Len(o), p + Len(n4) - 1)
  <2>1. Spells(t, p, n3) /\ Spells(t, p + Len(n3), y)
    BY <1>7, <1>9
  <2>2. Spells(t, p, n2) /\ Spells(t, p + Len(n2), r)
    BY <1>6, <2>1
  <2>3. Spells(t, p, n1) /\ Spells(t, p + Len(n1), d)
    BY <1>5, <2>2
  <2>4. Spells(t, p, o) /\ Spells(t, p + Len(o), x)
    BY <1>4, <2>3
  <2> DEFINE b == p + Len(o)
             z == p + Len(n4) - 1
  <2>5. /\ b \in Nat \ {0} /\ z \in Nat \ {0} /\ p + Len(n1) = b + 1
        /\ p + Len(n2) = b + 1 + Len(d) /\ p + Len(n3) = z
        /\ z = b + 1 + Len(d) + Len(r) /\ z >= b + 1
    <3> DEFINE lo == Len(o)
               ld == Len(d)
               lr == Len(r)
               l1 == Len(n1)
               l2 == Len(n2)
               l3 == Len(n3)
               l4 == Len(n4)
    <3>1. /\ lo \in Nat /\ ld \in Nat /\ lr \in Nat
          /\ l1 = lo + 1 /\ l2 = lo + 1 + ld /\ l3 = lo + 1 + ld + lr /\ l4 = lo + 1 + ld + lr + 1
          /\ b = p + lo /\ z = p + l4 - 1
      BY <1>4, <1>5, <1>6, <1>8
    <3> HIDE DEF b, z, lo, ld, lr, l1, l2, l3, l4
    <3>2. /\ b \in Nat \ {0} /\ z \in Nat \ {0} /\ p + l1 = b + 1
          /\ p + l2 = b + 1 + ld /\ p + l3 = z
          /\ z = b + 1 + ld + lr /\ z >= b + 1
      BY <3>1
    <3> QED BY <3>2 DEF ld, lr, l1, l2, l3
  <2> HIDE DEF b, z
  <2>6. b \in 1 .. Len(t) /\ t[b] = Opening
    BY <1>2, <2>4, <2>5, HasOne DEF b
  <2>7. z \in 1 .. Len(t) /\ t[z] = Closing
    BY <1>2, <2>1, <2>5, HasOne
  <2>8. Spells(t, b + 1, d) /\ Spells(t, b + 1 + Len(d), r)
    BY <2>2, <2>3, <2>5
  <2>9. p >= 2 => b \in 2 .. Len(t) /\ z \in b + 1 .. Len(t)
    <3>1. Len(t) \in Nat
      BY AtIs
    <3>2. p >= 2 => b >= 2
      BY <1>4 DEF b
    <3> QED BY <2>5, <2>6, <2>7, <3>1, <3>2
  <2>10. p >= 2 => WithObject(t, style, pairs, b, z)
    BY <2>5, <2>6, <2>7, <2>8, <2>9 DEF WithObject, d, r
  <2> QED BY <2>4, <2>10 DEF b, z
<1>10. \A t \in Letters : \A p \in Nat \ {0} : Spells(t, p, n4) =>
          \E b, z : /\ b = p + Len(o) /\ z = p + Len(n4) - 1
                    /\ Spells(t, p, o)
                    /\ p >= 2 => WithObject(t, style, pairs, b, z)
  BY <1>9
<1> QED BY <1>1, <1>3, <1>7, <1>8, <1>10 DEF o, d, r

LEMMA SpellsSelf ==
  ASSUME NEW t \in Letters
  PROVE  Spells(t, 1, t)
<1>1. \A i \in 1 .. Len(t) : 1 + i - 1 = i
  OBVIOUS
<1> QED BY <1>1 DEF Spells

(* Two parts in braces, with a comma between them.                          *)
LEMMA BracedIs ==
  ASSUME NEW u \in Letters, NEW v \in Letters, NEW t,
         t = <<Opening>> \o (u \o <<Comma>> \o v) \o <<Closing>>
  PROVE  /\ t \in Letters /\ Len(u) \in Nat /\ Len(v) \in Nat
         /\ Len(t) = 1 + Len(u) + 1 + Len(v) + 1
         /\ Spells(t, 2, u)
         /\ t[2 + Len(u)] = Comma
         /\ Spells(t, 2 + Len(u) + 1, v)
         /\ t[2 + Len(u) + 1 + Len(v)] = Closing
<1> DEFINE x == <<Opening>>
           y == <<Closing>>
           c == <<Comma>>
           n1 == u \o c
           n2 == n1 \o v
           n3 == x \o n2
           n4 == n3 \o y
<1>1. /\ x \in Letters /\ y \in Letters /\ c \in Letters /\ Len(x) = 1 /\ Len(y) = 1 /\ Len(c) = 1
      /\ x = <<Opening>> /\ y = <<Closing>> /\ c = <<Comma>>
  BY NamesAre DEF Letters
<1>2. t = n4
  OBVIOUS
<1> HIDE DEF x, y, c
<1>3. /\ n1 \in Letters /\ Len(n1) = Len(u) + Len(c) /\ Len(u) \in Nat
      /\ \A w \in Letters : \A p \in Nat \ {0} : Spells(w, p, n1) =>
           Spells(w, p, u) /\ Spells(w, p + Len(u), c)
  BY <1>1, Joins
<1> HIDE DEF n1
<1>4. /\ n2 \in Letters /\ Len(n2) = Len(n1) + Len(v) /\ Len(v) \in Nat
      /\ \A w \in Letters : \A p \in Nat \ {0} : Spells(w, p, n2) =>
           Spells(w, p, n1) /\ Spells(w, p + Len(n1), v)
  BY <1>3, Joins
<1> HIDE DEF n2
<1>5. /\ n3 \in Letters /\ Len(n3) = Len(x) + Len(n2)
      /\ \A w \in Letters : \A p \in Nat \ {0} : Spells(w, p, n3) =>
           Spells(w, p, x) /\ Spells(w, p + Len(x), n2)
  BY <1>1, <1>4, Joins
<1> HIDE DEF n3
<1>6. /\ n4 \in Letters /\ Len(n4) = Len(n3) + Len(y)
      /\ \A w \in Letters : \A p \in Nat \ {0} : Spells(w, p, n4) =>
           Spells(w, p, n3) /\ Spells(w, p + Len(n3), y)
  BY <1>1, <1>5, Joins
<1> HIDE DEF n4
<1>7. t \in Letters /\ Spells(t, 1, n4)
  BY <1>2, <1>6, SpellsSelf
<1> DEFINE lu == Len(u)
           lv == Len(v)
           l1 == Len(n1)
           l2 == Len(n2)
           l3 == Len(n3)
           l4 == Len(n4)
<1>8. lu \in Nat /\ lv \in Nat /\ l1 = lu + 1 /\ l2 = l1 + lv /\ l3 = 1 + l2 /\ l4 = l3 + 1
  BY <1>1, <1>3, <1>4, <1>5, <1>6
<1> HIDE DEF lu, lv, l1, l2, l3, l4
<1>9. /\ l4 = 1 + lu + 1 + lv + 1 /\ 1 + l3 = 2 + lu + 1 + lv /\ 2 + l1 = 2 + lu + 1
      /\ 2 + lu + 1 + lv \in Nat \ {0} /\ 2 + lu \in Nat \ {0}
  BY <1>8
<1>10. Spells(t, 1, n3) /\ Spells(t, 2 + lu + 1 + lv, y)
  <2>1. 1 \in Nat \ {0}
    OBVIOUS
  <2>2. Spells(t, 1, n3) /\ Spells(t, 1 + l3, y)
    BY ONLY <1>6, <1>7, <2>1 DEF l3
  <2> QED BY ONLY <1>9, <2>2
<1>11. Spells(t, 2, n2)
  <2>1. 1 \in Nat \ {0}
    OBVIOUS
  <2>2. Spells(t, 1 + Len(x), n2)
    BY ONLY <1>5, <1>7, <1>10, <2>1
  <2>3. 1 + Len(x) = 2
    BY <1>1
  <2> QED BY <2>2, <2>3
<1>12. Spells(t, 2, n1) /\ Spells(t, 2 + lu + 1, v)
  <2>1. 2 \in Nat \ {0}
    OBVIOUS
  <2>2. Spells(t, 2, n1) /\ Spells(t, 2 + l1, v)
    BY ONLY <1>4, <1>7, <1>11, <2>1 DEF l1
  <2> QED BY ONLY <1>9, <2>2
<1>13. Spells(t, 2, u) /\ Spells(t, 2 + lu, c)
  <2>1. 2 \in Nat \ {0}
    OBVIOUS
  <2> QED BY ONLY <1>3, <1>7, <1>12, <2>1 DEF lu
<1>14. t[2 + lu] = Comma /\ t[2 + lu + 1 + lv] = Closing
  <2>1. \A p \in Nat \ {0} : Spells(t, p, c) => t[p] = Comma
    BY <1>1, <1>7, HasOne
  <2>2. \A p \in Nat \ {0} : Spells(t, p, y) => t[p] = Closing
    BY <1>1, <1>7, HasOne
  <2> QED BY ONLY <1>9, <1>10, <1>13, <2>1, <2>2
<1>15. Len(t) = 1 + lu + 1 + lv + 1
  BY <1>2, <1>9 DEF l4
<1> QED BY <1>7, <1>8, <1>12, <1>13, <1>14, <1>15 DEF lu, lv

LEMMA ObjectFree ==
  ASSUME NEW t \in Letters, NEW style \in Style, NEW pairs \in Message, NEW b, NEW z,
         WithObject(t, style, pairs, b, z), NEW i \in b + 1 .. z
  PROVE  t[i] # Opening
<1> DEFINE d == Datum(style, pairs[1])
           r == More(style, pairs)
           ld == Len(d)
           lr == Len(r)
<1>1. d \in Letters /\ r \in Letters /\ Free(d, Opening) /\ Free(r, Opening)
  BY MessageIs, DatumIs, MoreIs DEF Marks
<1>2. ld \in Nat /\ lr \in Nat /\ Len(t) \in Nat
  BY <1>1, AtIs
<1>3. /\ b \in 2 .. Len(t) /\ t[z] = Closing
      /\ Spells(t, b + 1, d) /\ Spells(t, b + 1 + ld, r) /\ z = b + 1 + ld + lr
  BY DEF WithObject
<1> HIDE DEF d, r
<1>4. b + 1 \in Nat /\ b + 1 + ld \in Nat
  BY <1>2, <1>3
<1>5. CASE i \in b + 1 .. (b + 1) + Len(d) - 1
  BY <1>1, <1>3, <1>4, <1>5, SpellsFree
<1>6. CASE i \in b + 1 + ld .. (b + 1 + ld) + Len(r) - 1
  BY <1>1, <1>3, <1>4, <1>6, SpellsFree
<1>7. CASE i = z
  <2>1. Opening # Closing
    BY MarksFree
  <2> QED BY <1>3, <1>7, <2>1
<1>8. i \in b + 1 .. (b + 1) + ld - 1 \/ i \in b + 1 + ld .. (b + 1 + ld) + lr - 1 \/ i = z
  <2> HIDE DEF ld, lr
  <2> QED BY <1>2, <1>3
<1> QED BY <1>5, <1>6, <1>7, <1>8

LEMMA WrittenIs ==
  ASSUME NEW style \in Style, NEW pairs \in Message
  PROVE  \E b, z : /\ Written(style, pairs) \in Letters
                   /\ WithObject(Written(style, pairs), style, pairs, b, z)
                   /\ OneObject(Written(style, pairs), b)
                   /\ \/ OpFirst(Written(style, pairs), style, b, z)
                      \/ DataFirst(Written(style, pairs), style, b, z)
<1> DEFINE t == Written(style, pairs)
           all == All(style, pairs)
           op == Op(style)
           open == Opened(style, DataWord)
           la == Len(all)
           lp == Len(op)
           lo == Len(open)
<1>1. /\ all \in Letters /\ op \in Letters /\ open \in Letters
      /\ la \in Nat /\ lp \in Nat /\ lo \in Nat
  BY AllIs, OpIs, AtIs
<1>2. \A w \in Letters : \A p \in Nat \ {0} : Spells(w, p, all) /\ p >= 2 =>
        WithObject(w, style, pairs, p + lo, p + la - 1) /\ Spells(w, p, open)
  BY AllIs
<1>3. t = <<Opening>> \o (IF style.dataFirst THEN all \o <<Comma>> \o op
                          ELSE op \o <<Comma>> \o all) \o <<Closing>>
  BY WrittenForm
<1>4. Free(op, Opening) /\ Free(open, Opening) /\ Opening # Comma /\ Opening # Closing
  BY OpIs, StyleFree, MarksFree DEF Marks
<1> HIDE DEF t, all, op, open
<1>5. CASE style.dataFirst
  <2> DEFINE b == 2 + lo
             z == 1 + la
  <2>1. t = <<Opening>> \o (all \o <<Comma>> \o op) \o <<Closing>>
    BY <1>3, <1>5
  <2>2. /\ t \in Letters
        /\ Len(t) = 1 + la + 1 + lp + 1
        /\ Spells(t, 2, all)
        /\ t[2 + la] = Comma
        /\ Spells(t, 2 + la + 1, op)
        /\ t[2 + la + 1 + lp] = Closing
    BY <1>1, <2>1, BracedIs, ZenonT(40)
  <2> HIDE DEF la, lp, lo
  <2>3. WithObject(t, style, pairs, b, z) /\ Spells(t, 2, open)
    <3>1. 2 \in Nat \ {0} /\ 2 >= 2 /\ 2 + la - 1 = 1 + la
      BY <1>1
    <3>2. WithObject(t, style, pairs, 2 + lo, 2 + la - 1) /\ Spells(t, 2, open)
      BY <1>2, <2>2, <3>1
    <3> QED BY <3>1, <3>2
  <2>4. z + 1 = 2 + la /\ z + 1 + 1 = 2 + la + 1 /\ z + 1 + 1 + lp = Len(t)
        /\ z + 1 + 1 + lp = 2 + la + 1 + lp /\ z + 1 \in 2 .. Len(t)
    BY <1>1, <2>2
  <2>5. DataFirst(t, style, b, z)
    BY <2>2, <2>3, <2>4 DEF DataFirst, open, op, lo, lp
  <2>6. ASSUME NEW i \in 2 .. Len(t), i # b
        PROVE  t[i] # Opening
    <3>1. \/ i \in 2 .. 2 + lo - 1
          \/ i \in b + 1 .. z
          \/ i = z + 1
          \/ i \in 2 + la + 1 .. (2 + la + 1) + lp - 1
          \/ i = 2 + la + 1 + lp
      BY <1>1, <2>2, <2>4, <2>6
    <3>2. CASE i \in 2 .. 2 + lo - 1
      BY <1>1, <1>4, <2>3, <3>2, SpellsFree DEF lo
    <3>3. CASE i \in b + 1 .. z
      <4> HIDE DEF b, z
      <4> QED BY <2>2, <2>3, <3>3, ObjectFree
    <3>4. CASE i = z + 1
      BY <1>4, <2>2, <2>4, <3>4
    <3>5. CASE i \in 2 + la + 1 .. (2 + la + 1) + lp - 1
      <4>1. 2 + la + 1 \in Nat
        BY <1>1
      <4> QED BY <1>1, <1>4, <2>2, <3>5, <4>1, SpellsFree DEF lp
    <3>6. CASE i = 2 + la + 1 + lp
      BY <1>4, <2>2, <3>6
    <3> QED BY <3>1, <3>2, <3>3, <3>4, <3>5, <3>6
  <2>7. OneObject(t, b)
    BY <2>6 DEF OneObject
  <2> QED BY <2>2, <2>3, <2>5, <2>7 DEF t
<1>6. CASE ~style.dataFirst
  <2> DEFINE p == 2 + lp + 1
             b == p + lo
             z == p + la - 1
  <2>1. t = <<Opening>> \o (op \o <<Comma>> \o all) \o <<Closing>>
    BY <1>3, <1>6
  <2>2. /\ t \in Letters
        /\ Len(t) = 1 + lp + 1 + la + 1
        /\ Spells(t, 2, op)
        /\ t[2 + lp] = Comma
        /\ Spells(t, 2 + lp + 1, all)
        /\ t[2 + lp + 1 + la] = Closing
    BY <1>1, <2>1, BracedIs, ZenonT(40)
  <2> HIDE DEF la, lp, lo
  <2>3. WithObject(t, style, pairs, b, z) /\ Spells(t, 2 + lp + 1, open)
    <3>1. p \in Nat \ {0} /\ p >= 2
      BY <1>1
    <3> HIDE DEF p
    <3>2. WithObject(t, style, pairs, p + lo, p + la - 1) /\ Spells(t, p, open)
      BY <1>2, <2>2, <3>1 DEF p
    <3> QED BY <3>2 DEF p
  <2>4. z + 1 = 2 + lp + 1 + la /\ z + 1 = Len(t) /\ 2 + lp \in 2 .. Len(t)
    BY <1>1, <2>2
  <2>5. OpFirst(t, style, b, z)
    BY <2>2, <2>3, <2>4 DEF OpFirst, open, op, lo, lp
  <2>6. ASSUME NEW i \in 2 .. Len(t), i # b
        PROVE  t[i] # Opening
    <3>1. \/ i \in 2 .. 2 + lp - 1
          \/ i = 2 + lp
          \/ i \in 2 + lp + 1 .. (2 + lp + 1) + lo - 1
          \/ i \in b + 1 .. z
          \/ i = z + 1
      BY <1>1, <2>2, <2>4, <2>6
    <3>2. CASE i \in 2 .. 2 + lp - 1
      BY <1>1, <1>4, <2>2, <3>2, SpellsFree DEF lp
    <3>3. CASE i \in b + 1 .. z
      <4> HIDE DEF b, z
      <4> QED BY <2>2, <2>3, <3>3, ObjectFree
    <3>4. CASE i = 2 + lp
      BY <1>4, <2>2, <3>4
    <3>5. CASE i \in 2 + lp + 1 .. (2 + lp + 1) + lo - 1
      <4>1. 2 + lp + 1 \in Nat
        BY <1>1
      <4> QED BY <1>1, <1>4, <2>3, <3>5, <4>1, SpellsFree DEF lo
    <3>6. CASE i = z + 1
      BY <1>4, <2>2, <2>4, <3>6
    <3> QED BY <3>1, <3>2, <3>3, <3>4, <3>5, <3>6
  <2>7. OneObject(t, b)
    BY <2>6 DEF OneObject
  <2> QED BY <2>2, <2>3, <2>5, <2>7 DEF t
<1> QED BY <1>5, <1>6

----------------------------------------------------------------------------
(* What setSetting gets of a text.                                          *)
OpKey == <<OpWord>>
DataKey == <<DataWord>>
Child(t) ==
  IF ValueOf(Parse(t).pairs, OpKey) = OpValue /\ GetJsonValue(Parse(t).pairs, DataKey) # <<>>
  THEN GetJsonValue(Parse(t).pairs, DataKey)[1].child ELSE <<>>
Got(pairs) == [i \in DOMAIN pairs |-> [key |-> pairs[i].key[1], value |-> pairs[i].value]]

LEMMA ReadIs ==
  ASSUME NEW t
  PROVE  Read(t) = [pairs |-> Got(Child(t)),
                    past |-> Parse(t).past \/ ~HeadSet(Parse(t).pairs)]
BY DEF Read, Understood, DataOf, Got, Child, OpKey, DataKey, OpValue, SettingMark, OpWord, DataWord

LEMMA KeysDiffer ==
  OpKey # DataKey /\ OpWord \in Names /\ DataWord \in Names
<1>1. OpWord # DataWord
  BY DEF OpWord, DataWord
<1>2. OpKey[1] = OpWord /\ DataKey[1] = DataWord
  BY DEF OpKey, DataKey
<1>3. OpWord \in Names /\ DataWord \in Names
  BY DEF Names, OpWord, DataWord
<1> QED BY <1>1, <1>2, <1>3

LEMMA FirstOf ==
  ASSUME NEW x, NEW y, NEW k
  PROVE  /\ x.key = k /\ y.key # k => GetJsonValue(<<x, y>>, k) = <<x>>
         /\ x.key # k /\ y.key = k => GetJsonValue(<<x, y>>, k) = <<y>>
<1> DEFINE u == <<x, y>>
           T == {i \in DOMAIN u : u[i].key = k}
<1>1. DOMAIN u = {1, 2} /\ u[1] = x /\ u[2] = y
  <2>1. Len(u) = 2 /\ u[1] = x /\ u[2] = y
    OBVIOUS
  <2>2. DOMAIN u = 1 .. 2
    OBVIOUS
  <2> HIDE DEF u
  <2> QED BY <2>1, <2>2
<1>2. GetJsonValue(u, k) = IF T = {} THEN <<>> ELSE <<u[Min(T)]>>
  BY DEF GetJsonValue
<1> HIDE DEF u
<1>3. ASSUME NEW i \in {1, 2}, T = {i}
      PROVE  GetJsonValue(u, k) = <<u[i]>>
  <2>1. T \in SUBSET Nat /\ T # {}
    BY <1>3
  <2> DEFINE m == Min(T)
  <2>2. m \in T
    BY <2>1, MinIs
  <2> HIDE DEF T, m
  <2>3. m = i
    BY <1>3, <2>2
  <2> QED BY <1>2, <2>1, <2>3 DEF m
<1>4. x.key = k /\ y.key # k => T = {1}
  BY <1>1
<1>5. x.key # k /\ y.key = k => T = {2}
  BY <1>1
<1> HIDE DEF T
<1>6. x.key = k /\ y.key # k => GetJsonValue(u, k) = <<x>>
  BY <1>1, <1>3, <1>4
<1>7. x.key # k /\ y.key = k => GetJsonValue(u, k) = <<y>>
  BY <1>1, <1>3, <1>5
<1> QED BY <1>6, <1>7 DEF u

LEMMA GotEntries ==
  ASSUME NEW pairs \in Message
  PROVE  Got(PairsSent(pairs)) = pairs
<1> DEFINE e == PairsSent(pairs)
           g == Got(e)
<1>1. \A pair \in Pair : [key |-> PairSent(pair).key[1], value |-> PairSent(pair).value] = pair
  <2> SUFFICES ASSUME NEW pair \in Pair
               PROVE  [key |-> PairSent(pair).key[1], value |-> PairSent(pair).value] = pair
    OBVIOUS
  <2>1. pair = [key |-> pair.key, value |-> pair.value]
    BY DEF Pair
  <2> DEFINE k == pair.key
             v == pair.value
  <2>2. PairSent(pair).key = <<k>> /\ PairSent(pair).value = v
    BY DEF PairSent
  <2>3. <<k>>[1] = k
    OBVIOUS
  <2> HIDE DEF k, v
  <2>4. PairSent(pair).key[1] = k
    BY <2>2, <2>3
  <2> QED BY <2>1, <2>2, <2>4 DEF k, v
<1>2. Len(pairs) \in {1, 2} /\ DOMAIN pairs = 1 .. Len(pairs) /\ \A i \in 1 .. Len(pairs) : pairs[i] \in Pair
  <2>1. \A i \in 1 .. Len(pairs) : i = 1 \/ (i = 2 /\ Len(pairs) = 2)
    <3> DEFINE n == Len(pairs)
    <3>1. n \in {1, 2}
      BY MessageIs
    <3> HIDE DEF n
    <3>2. \A i \in 1 .. n : i = 1 \/ (i = 2 /\ n = 2)
      BY <3>1
    <3> QED BY <3>2 DEF n
  <2> QED BY <2>1, MessageIs
<1>3. DOMAIN e = 1 .. Len(pairs) /\ \A i \in 1 .. Len(pairs) : e[i] = PairSent(pairs[i])
  <2>1. CASE Len(pairs) = 1
    <3> DEFINE x == PairSent(pairs[1])
    <3>1. e = <<x>>
      BY <2>1 DEF PairsSent
    <3> HIDE DEF e, x
    <3>2. DOMAIN e = 1 .. 1 /\ e[1] = x
      BY <3>1
    <3>3. \A i \in 1 .. 1 : e[i] = PairSent(pairs[i])
      BY <3>2 DEF x
    <3> QED BY <2>1, <3>2, <3>3
  <2>2. CASE Len(pairs) = 2
    <3> DEFINE x == PairSent(pairs[1])
               y == PairSent(pairs[2])
    <3>1. e = <<x, y>>
      <4>1. ~(Len(pairs) = 1)
        BY <2>2
      <4> QED BY <4>1 DEF PairsSent
    <3> HIDE DEF e, x, y
    <3>2. DOMAIN e = 1 .. 2 /\ e[1] = x /\ e[2] = y
      BY <3>1
    <3>3. \A i \in 1 .. 2 : e[i] = PairSent(pairs[i])
      <4>1. \A i \in 1 .. 2 : i = 1 \/ i = 2
        OBVIOUS
      <4> QED BY <3>2, <4>1 DEF x, y
    <3> QED BY <2>2, <3>2, <3>3
  <2> QED BY <1>2, <2>1, <2>2
<1>4. g = [i \in DOMAIN e |-> [key |-> e[i].key[1], value |-> e[i].value]]
  BY DEF Got
<1> HIDE DEF e
<1>5. \A i \in 1 .. Len(pairs) : [key |-> e[i].key[1], value |-> e[i].value] = pairs[i]
  <2> TAKE i \in 1 .. Len(pairs)
  <2> DEFINE x == e[i]
  <2>1. x = PairSent(pairs[i]) /\ pairs[i] \in Pair
    BY <1>2, <1>3
  <2> HIDE DEF x
  <2>2. [key |-> x.key[1], value |-> x.value] = pairs[i]
    BY <1>1, <2>1
  <2> QED BY <2>2 DEF x
<1> HIDE DEF g
<1>6. g = [i \in 1 .. Len(pairs) |-> pairs[i]]
  BY <1>3, <1>4, <1>5
<1>7. pairs = [i \in 1 .. Len(pairs) |-> pairs[i]]
  <2>1. CASE \E x \in Pair : pairs = <<x>>
    BY <2>1
  <2>2. CASE \E x, y \in Pair : pairs = <<x, y>>
    BY <2>2
  <2> QED BY <2>1, <2>2 DEF Message
<1> QED BY <1>6, <1>7 DEF g, e

LEMMA AtTheEnd ==
  ASSUME NEW t \in Letters, Len(t) >= 1
  PROVE  On(t, Pairs(t), FALSE, Len(t)) = [pairs |-> <<>>, at |-> Len(t) + 1, past |-> FALSE]
<1> DEFINE f == Pairs(t)
           n == Len(t)
           key == KeyAt(t, n + 1)
           at == key.at
           ok == key.ok
           c == FALSE
<1>1. n \in Nat /\ n \in 1 .. n + 1 /\ n + 1 \in 1 .. n + 1
  BY AtIs
<1>2. at \in n + 1 .. n + 1 /\ (ok => at \in n + 1 .. n)
  BY <1>1, KeyAtIs
<1>3. ~Closes(t, c, n + 1) /\ ~Closes(t, c, n) /\ c \in BOOLEAN
  BY DEF Closes
<1>4. PairsStep(t, f)[n][c] = Stopped(t, at)
  <2> HIDE DEF at, ok
  <2>1. at = n + 1 /\ ~ok /\ n <= n
    BY <1>1, <1>2
  <2>2. n \in 1 .. Len(t) + 1 /\ n <= Len(t) /\ ~Closes(t, c, n + 1) /\ ~KeyAt(t, n + 1).ok
    BY <1>1, <1>3, <2>1 DEF ok
  <2> HIDE DEF f, n, c
  <2>3. PairsStep(t, f)[n][c] = Stopped(t, KeyAt(t, n + 1).at)
    BY <1>3, <2>2, PairsStepIs
  <2> QED BY <2>3 DEF at
<1>5. f[n][c] = PairsStep(t, f)[n][c]
  BY <1>1, PairsIs
<1>6. at = n + 1
  <2> HIDE DEF at, ok
  <2> QED BY <1>1, <1>2
<1>7. On(t, f, c, n) = f[n][c]
  <2>1. ~(n > n + 1)
    BY <1>1
  <2> QED BY <1>3, <2>1 DEF On
<1>8. Stopped(t, n + 1) = [pairs |-> <<>>, at |-> n + 1, past |-> FALSE]
  <2> DEFINE past == n + 1 > Len(t) + 1
  <2>1. past = FALSE
    BY <1>1
  <2>2. Stopped(t, n + 1) = [pairs |-> <<>>, at |-> n + 1, past |-> past]
    BY DEF Stopped
  <2> HIDE DEF past
  <2> QED BY <2>1, <2>2
<1> QED BY <1>4, <1>5, <1>6, <1>7, <1>8

DataEntry(pairs) == [key |-> DataKey, value |-> None, child |-> PairsSent(pairs)]
OpEntry == [key |-> OpKey, value |-> OpValue, child |-> <<>>]

(* The two pairs of a message, at the place behind which each is written.     *)
LEMMA ReadsData ==
  ASSUME NEW t \in Letters, NEW style \in Style, NEW pairs \in Message, NEW b, NEW z,
         WithObject(t, style, pairs, b, z), NEW p \in 1 .. Len(t), NEW q \in 1 .. Len(t),
         Spells(t, p + 1, Opened(style, DataWord)), b = p + 1 + Len(Opened(style, DataWord)),
         q = z + 1
  PROVE  Pairs(t)[p][FALSE] = InFront(DataEntry(pairs), On(t, Pairs(t), FALSE, q))
<1> DEFINE f == Pairs(t)
           k == DataWord
           c == FALSE
           o == f[b][TRUE]
<1>1. /\ b \in 1 .. Len(t) /\ z \in 1 .. Len(t) /\ t[b] = Opening /\ t[z] = Closing
      /\ Spells(t, b + 1, Datum(style, pairs[1]))
      /\ Spells(t, b + 1 + Len(Datum(style, pairs[1])), More(style, pairs))
      /\ z = b + 1 + Len(Datum(style, pairs[1])) + Len(More(style, pairs))
  <2>1. b \in 2 .. Len(t) /\ z \in b + 1 .. Len(t) /\ Len(t) \in Nat
    BY AtIs DEF WithObject
  <2>2. b \in 1 .. Len(t) /\ z \in 1 .. Len(t)
    BY <2>1
  <2> QED BY <2>2 DEF WithObject
<1>2. o = [pairs |-> PairsSent(pairs), at |-> z, past |-> FALSE]
  <2> DEFINE d == Datum(style, pairs[1])
             r == More(style, pairs)
  <2>1. \A i \in 1 .. Len(t) : \A j \in 1 .. Len(t) :
          /\ Spells(t, i + 1, d) /\ Spells(t, i + 1 + Len(d), r)
          /\ j = i + 1 + Len(d) + Len(r) /\ t[j] = Closing
          => Pairs(t)[i][TRUE] = [pairs |-> PairsSent(pairs), at |-> j, past |-> FALSE]
    BY InnerReads
  <2> HIDE DEF d, r
  <2> QED BY ONLY <1>1, <2>1 DEF d, r
<1>3. k \in Names /\ c \in BOOLEAN
  BY KeysDiffer
<1>4. Spells(t, p + 1, Opened(style, k)) /\ b = p + 1 + Len(Opened(style, k))
  OBVIOUS
<1>5. DataEntry(pairs) = [key |-> <<k>>, value |-> None, child |-> PairsSent(pairs)]
  BY DEF DataEntry, DataKey
<1> HIDE DEF k, c
<1>6. f[p][c] = InFront([key |-> <<k>>, value |-> None, child |-> o.pairs], On(t, f, c, o.at + 1))
  <2>1. Pairs(t)[p][c] = WithPairs(t, k, c, b)
    BY <1>1, <1>3, <1>4, OpenedPair
  <2> QED BY <2>1 DEF WithPairs
<1> HIDE DEF f, o
<1>7. o.pairs = PairsSent(pairs) /\ o.at = z
  BY <1>2
<1>8. f[p][c] = InFront(DataEntry(pairs), On(t, f, c, q))
  BY <1>5, <1>6, <1>7
<1> QED BY <1>8 DEF f, c

LEMMA ReadsOp ==
  ASSUME NEW t \in Letters, NEW style \in Style, NEW p \in 1 .. Len(t),
         Spells(t, p + 1, Op(style)), NEW e, e = p + 1 + Len(Op(style)),
         e \in 1 .. Len(t), t[e] \in Ends
  PROVE  Pairs(t)[p][FALSE] = InFront(OpEntry, On(t, Pairs(t), FALSE, e))
<1> DEFINE k == OpWord
           x == Quoted(OpValue)
           c == FALSE
<1>1. k \in Names /\ Wrote(x, OpValue) /\ c \in BOOLEAN
  BY OpIs
<1>2. Spells(t, p + 1, Said(style, k, x)) /\ e = p + 1 + Len(Said(style, k, x))
  BY DEF Op
<1>3. OpEntry = [key |-> <<k>>, value |-> OpValue, child |-> <<>>]
  BY DEF OpEntry, OpKey
<1> HIDE DEF k, x, c
<1>4. Pairs(t)[p][c] = InFront([key |-> <<k>>, value |-> OpValue, child |-> <<>>],
                               On(t, Pairs(t), c, e))
  BY <1>1, <1>2, SaidPair
<1> QED BY <1>3, <1>4 DEF c

LEMMA TwoRead ==
  ASSUME NEW x, NEW y, NEW n, NEW rest, rest = [pairs |-> <<>>, at |-> n, past |-> FALSE]
  PROVE  InFront(x, InFront(y, rest)) = [pairs |-> <<x, y>>, at |-> n, past |-> FALSE]
<1> DEFINE g == InFront(y, rest)
<1>1. g = [pairs |-> <<y>> \o <<>>, at |-> n, past |-> FALSE]
  BY InFrontGives, ZenonT(40)
<1>2. <<y>> \o <<>> = <<y>> /\ <<x>> \o <<y>> = <<x, y>>
  BY OneRest
<1> DEFINE u == <<y>>
<1>3. g = [pairs |-> u, at |-> n, past |-> FALSE]
  BY <1>1, <1>2
<1> HIDE DEF g, u
<1>4. InFront(x, g) = [pairs |-> <<x>> \o u, at |-> n, past |-> FALSE]
  BY ONLY <1>3, InFrontGives, ZenonT(40)
<1> QED BY <1>2, <1>4 DEF g, u

(* simple_json.hpp: whichever way a client writes a 'set setting' message, with *)
(* values of any length, parseString takes it apart into what was meant, and   *)
(* reads nothing past its end.                                             *)
THEOREM WholeReads ==
  ASSUME NEW style \in Style, NEW pairs \in Message
  PROVE  Read(Written(style, pairs)) = [pairs |-> pairs, past |-> FALSE]
<1> DEFINE t == Written(style, pairs)
           f == Pairs(t)
           op == OpEntry
           data == DataEntry(pairs)
           end == On(t, f, FALSE, Len(t))
<1>1. PICK b, z : /\ t \in Letters
                  /\ WithObject(t, style, pairs, b, z)
                  /\ OpFirst(t, style, b, z) \/ DataFirst(t, style, b, z)
  BY WrittenIs
<1>2. Len(t) \in Nat /\ 1 \in 1 .. Len(t) /\ z \in 2 .. Len(t)
  <2>1. b \in 2 .. Len(t) /\ z \in b + 1 .. Len(t) /\ Len(t) \in Nat
    BY <1>1, AtIs DEF WithObject
  <2> HIDE DEF t
  <2> QED BY <2>1
<1>3. end = [pairs |-> <<>>, at |-> Len(t) + 1, past |-> FALSE]
  <2>1. Len(t) >= 1
    BY <1>2
  <2> QED BY <1>1, <2>1, AtTheEnd
<1>4. Parse(t) = f[1][FALSE]
  BY DEF Parse
<1> HIDE DEF t
<1>5. \A q \in 1 .. Len(t) : At(t, q) = t[q]
  BY <1>1, AtIs
<1>6. \A q \in 1 .. Len(t) : On(t, f, FALSE, q) = f[q][FALSE]
  <2> SUFFICES ASSUME NEW q \in 1 .. Len(t) PROVE On(t, f, FALSE, q) = f[q][FALSE]
    OBVIOUS
  <2>1. ~(q > Len(t) + 1) /\ ~Closes(t, FALSE, q)
    BY <1>2 DEF Closes
  <2> HIDE DEF f
  <2> QED BY <2>1 DEF On
<1>7. Len(t) - 1 \in Nat
  BY <1>2
<1>8. Comma \in Ends /\ Closing \in Ends
  BY DEF Ends
<1>9. Parse(t) = [pairs |-> <<op, data>>, at |-> Len(t) + 1, past |-> FALSE]
      \/ Parse(t) = [pairs |-> <<data, op>>, at |-> Len(t) + 1, past |-> FALSE]
  <2>1. CASE OpFirst(t, style, b, z)
    <3> DEFINE c == 2 + Len(Op(style))
    <3>1. /\ c \in 1 .. Len(t) /\ t[c] = Comma /\ z + 1 = Len(t)
          /\ Spells(t, 1 + 1, Op(style)) /\ c = 1 + 1 + Len(Op(style))
          /\ Spells(t, c + 1, Opened(style, DataWord))
          /\ b = c + 1 + Len(Opened(style, DataWord))
      <4>1. Spells(t, 1 + 1, Op(style)) /\ c = 1 + 1 + Len(Op(style))
        <5>1. 1 + 1 = 2
          OBVIOUS
        <5> QED BY <2>1, <5>1 DEF OpFirst
      <4>2. c \in 2 .. Len(t) /\ t[c] = Comma /\ z + 1 = Len(t)
            /\ Spells(t, c + 1, Opened(style, DataWord))
            /\ b = c + 1 + Len(Opened(style, DataWord))
        BY <2>1 DEF OpFirst
      <4>3. c \in 1 .. Len(t)
        <5> HIDE DEF c
        <5> QED BY <4>2
      <4> QED BY <4>1, <4>2, <4>3
    <3> HIDE DEF c
    <3>2. f[1][FALSE] = InFront(op, On(t, f, FALSE, c))
      BY <1>1, <1>2, <1>8, <3>1, ReadsOp
    <3>3. f[c][FALSE] = InFront(data, On(t, f, FALSE, Len(t)))
      <4> DEFINE n == Len(t)
      <4>1. n \in 1 .. Len(t) /\ n = z + 1
        BY <1>2, <3>1
      <4> HIDE DEF n
      <4>2. f[c][FALSE] = InFront(data, On(t, f, FALSE, n))
        BY <1>1, <3>1, <4>1, ReadsData
      <4> QED BY <4>2 DEF n
    <3>4. On(t, f, FALSE, c) = f[c][FALSE]
      BY <1>6, <3>1
    <3> HIDE DEF f, op, data
    <3>5. Parse(t) = InFront(op, InFront(data, end))
      BY <1>4, <3>2, <3>3, <3>4
    <3> HIDE DEF end
    <3> DEFINE n == Len(t) + 1
    <3>6. end = [pairs |-> <<>>, at |-> n, past |-> FALSE]
      BY <1>3
    <3> HIDE DEF n
    <3>7. InFront(op, InFront(data, end)) = [pairs |-> <<op, data>>, at |-> n, past |-> FALSE]
      BY ONLY <3>6, TwoRead
    <3> QED BY <3>5, <3>7 DEF n
  <2>2. CASE DataFirst(t, style, b, z)
    <3> DEFINE c == z + 1
               e == c + 1 + Len(Op(style))
    <3>1. /\ c \in 1 .. Len(t) /\ t[c] = Comma /\ e = Len(t) /\ t[e] = Closing
          /\ Spells(t, 1 + 1, Opened(style, DataWord)) /\ b = 1 + 1 + Len(Opened(style, DataWord))
          /\ Spells(t, c + 1, Op(style))
      <4>1. Spells(t, 1 + 1, Opened(style, DataWord)) /\ b = 1 + 1 + Len(Opened(style, DataWord))
        <5>1. 1 + 1 = 2
          OBVIOUS
        <5> QED BY <2>2, <5>1 DEF DataFirst
      <4>2. /\ c \in 2 .. Len(t) /\ t[c] = Comma /\ e = Len(t) /\ t[e] = Closing
            /\ Spells(t, c + 1, Op(style))
        BY <2>2 DEF DataFirst
      <4>3. c \in 1 .. Len(t)
        <5> HIDE DEF c
        <5> QED BY <4>2
      <4> QED BY <4>1, <4>2, <4>3
    <3>2. f[1][FALSE] = InFront(data, On(t, f, FALSE, c))
      BY <1>1, <1>2, <3>1, ReadsData
    <3> HIDE DEF c
    <3>3. f[c][FALSE] = InFront(op, On(t, f, FALSE, Len(t)))
      <4>1. Len(t) \in 1 .. Len(t)
        BY <1>2
      <4> QED BY <1>1, <1>2, <1>8, <3>1, <4>1, ReadsOp
    <3>4. On(t, f, FALSE, c) = f[c][FALSE]
      BY <1>6, <3>1
    <3> HIDE DEF f, op, data
    <3>5. Parse(t) = InFront(data, InFront(op, end))
      BY <1>4, <3>2, <3>3, <3>4
    <3> HIDE DEF end
    <3> DEFINE n == Len(t) + 1
    <3>6. end = [pairs |-> <<>>, at |-> n, past |-> FALSE]
      BY <1>3
    <3> HIDE DEF n
    <3>7. InFront(data, InFront(op, end)) = [pairs |-> <<data, op>>, at |-> n, past |-> FALSE]
      BY ONLY <3>6, TwoRead
    <3> QED BY <3>5, <3>7 DEF n
  <2> QED BY <1>1, <2>1, <2>2
<1>10. op.key = OpKey /\ op.value = OpValue /\ data.key = DataKey /\ data.child = PairsSent(pairs)
  BY DEF OpEntry, DataEntry
<1> HIDE DEF op, data
<1> DEFINE u == Parse(t).pairs
<1>11. (u = <<op, data>> \/ u = <<data, op>>) /\ Parse(t).past = FALSE
  BY <1>9
<1> HIDE DEF u
<1>12. GetJsonValue(u, OpKey) = <<op>> /\ GetJsonValue(u, DataKey) = <<data>>
  BY <1>10, <1>11, KeysDiffer, FirstOf
<1>13. Child(t) = PairsSent(pairs)
  <2>1. <<op>> # <<>> /\ <<data>> # <<>> /\ <<op>>[1] = op /\ <<data>>[1] = data
    OBVIOUS
  <2>2. ValueOf(u, OpKey) = OpValue
    BY <1>10, <1>12, <2>1 DEF ValueOf
  <2>3. Child(t) = IF ValueOf(u, OpKey) = OpValue /\ GetJsonValue(u, DataKey) # <<>>
                   THEN GetJsonValue(u, DataKey)[1].child ELSE <<>>
    BY DEF Child, u
  <2> QED BY <1>10, <1>12, <2>1, <2>2, <2>3
<1>14. HeadSet(u)
  BY <1>11 DEF HeadSet
<1> DEFINE past == Parse(t).past \/ ~HeadSet(u)
<1>15. Read(t) = [pairs |-> Got(Child(t)), past |-> past]
  BY ReadIs DEF u
<1>16. past = FALSE
  BY <1>11, <1>14
<1> HIDE DEF past
<1>17. Read(t) = [pairs |-> pairs, past |-> FALSE]
  BY <1>13, <1>15, <1>16, GotEntries
<1> QED BY <1>17 DEF t

(* A text that is read past its end although it has all pairs of the message   *)
(* is one whose object is cut off behind them.                              *)
LEMMA PastReads ==
  ASSUME NEW t \in Letters, NEW pairs \in Message, Read(t).pairs = pairs, Read(t).past
  PROVE  /\ Got(Child(t)) = pairs
         /\ Broken(t)
         /\ \E b \in 2 .. Len(t) : t[b] = Opening /\ Child(t) = Pairs(t)[b][TRUE].pairs
<1> DEFINE x == Parse(t)
           u == x.pairs
           data == GetJsonValue(u, DataKey)
           child == Child(t)
           behind == x.past \/ ~HeadSet(u)
           T == {i \in DOMAIN u : u[i].key = DataKey}
<1>1. Read(t) = [pairs |-> Got(child), past |-> behind]
  BY ReadIs
<1>2. child = IF ValueOf(u, OpKey) = OpValue /\ data # <<>> THEN data[1].child ELSE <<>>
  BY DEF Child
<1>3. data = IF T = {} THEN <<>> ELSE <<u[Min(T)]>>
  BY DEF GetJsonValue
<1>4. Inside(t, x)
  <2>1. 1 \in 1 .. Len(t) + 1
    BY AtIs
  <2> QED BY <2>1, AllInside DEF Parse
<1>5. \E S : u \in Seq(S)
  <2>1. 1 \in 1 .. Len(t) + 1 /\ FALSE \in BOOLEAN
    BY AtIs
  <2>2. Runs(Pairs(t), FALSE, 1)
    BY <2>1, PairsIs
  <2> QED BY <2>2 DEF Runs, Parse
<1> HIDE DEF child, behind, u
<1>6. Got(child) = pairs /\ behind
  BY <1>1
<1>7. child # <<>>
  <2>1. DOMAIN Got(child) = DOMAIN child
    BY DEF Got
  <2>2. 1 \in DOMAIN pairs
    <3> DEFINE n == Len(pairs)
    <3>1. n \in {1, 2} /\ DOMAIN pairs = 1 .. n
      BY MessageIs
    <3> HIDE DEF n
    <3> QED BY <3>1
  <2> QED BY <1>6, <2>1, <2>2
<1>8. data # <<>> /\ child = data[1].child
  BY <1>2, <1>7
<1>9. T # {} /\ data = <<u[Min(T)]>>
  BY <1>3, <1>8
<1>10. Min(T) \in DOMAIN u
  <2>1. DOMAIN u \subseteq Nat
    BY <1>5
  <2>2. T \in SUBSET Nat /\ T # {}
    BY <1>9, <2>1
  <2> DEFINE m == Min(T)
  <2>3. m \in T
    BY <2>2, MinIs
  <2> HIDE DEF m
  <2>4. m \in DOMAIN u
    BY <2>3
  <2> QED BY <2>4 DEF m
<1> DEFINE m == Min(T)
<1> HIDE DEF data, T, m
<1>11. child = u[m].child /\ m \in DOMAIN u
  <2> DEFINE y == u[m]
  <2>1. data = <<y>>
    BY <1>9 DEF m
  <2> HIDE DEF y
  <2>2. data[1] = y
    BY <2>1
  <2> QED BY <1>8, <1>10, <2>2 DEF y, m
<1>12. (x.past => Broken(t)) /\ Object(t, child)
  BY <1>4, <1>11 DEF Inside, u
<1>13. HeadSet(u)
  <2>1. u # <<>>
    BY <1>11
  <2> QED BY <2>1 DEF HeadSet
<1>14. x.past
  BY <1>6, <1>13 DEF behind
<1> HIDE DEF x
<1>15. \E b \in 2 .. Len(t) : t[b] = Opening /\ child = Pairs(t)[b][TRUE].pairs
  BY <1>7, <1>12 DEF Object
<1> QED BY <1>6, <1>12, <1>14, <1>15 DEF child

LEMMA ObjectComma ==
  ASSUME NEW t \in Letters, NEW style \in Style, NEW pairs \in Message, NEW b, NEW z,
         WithObject(t, style, pairs, b, z), NEW i \in b + 1 .. z, t[i] = Comma
  PROVE  Len(pairs) = 2 /\ i = b + 1 + Len(Datum(style, pairs[1]))
<1> DEFINE d == Datum(style, pairs[1])
           r == More(style, pairs)
           ld == Len(d)
           lr == Len(r)
<1>1. d \in Letters /\ r \in Letters /\ Free(d, Comma)
  BY MessageIs, DatumIs, MoreIs DEF Marks
<1>2. ld \in Nat /\ lr \in Nat /\ Len(t) \in Nat
  BY <1>1, AtIs
<1>3. /\ b \in 2 .. Len(t) /\ t[z] = Closing
      /\ Spells(t, b + 1, d) /\ Spells(t, b + 1 + ld, r) /\ z = b + 1 + ld + lr
  BY DEF WithObject
<1>4. /\ Len(pairs) = 1 => Free(r, Comma)
      /\ Len(pairs) = 2 => \A j \in 1 .. lr : r[j] = Comma => j = 1
      /\ Len(pairs) = 1 \/ Len(pairs) = 2
  BY MoreIs, MessageIs
<1> HIDE DEF d, r
<1>5. b + 1 \in Nat /\ b + 1 + ld \in Nat
  BY <1>2, <1>3
<1>6. ~(i \in b + 1 .. (b + 1) + Len(d) - 1)
  BY <1>1, <1>3, <1>5, SpellsFree
<1>7. i # z
  BY <1>3 DEF Comma, Closing
<1>8. i \in b + 1 + ld .. (b + 1 + ld) + lr - 1
  <2>1. ~(i \in b + 1 .. (b + 1) + ld - 1)
    BY <1>6
  <2> HIDE DEF ld, lr
  <2> QED BY <1>2, <1>3, <1>7, <2>1
<1>9. Len(pairs) = 2
  <2>1. Len(pairs) = 1 => t[i] # Comma
    BY <1>1, <1>3, <1>4, <1>5, <1>8, SpellsFree
  <2> QED BY <1>4, <2>1
<1>10. i = b + 1 + ld
  <2> DEFINE j == i - (b + 1 + ld) + 1
  <2>1. j \in 1 .. lr /\ (b + 1 + ld) + j - 1 = i
    <3> HIDE DEF ld, lr
    <3> QED BY <1>2, <1>3, <1>8
  <2>2. t[i] = r[j]
    <3> HIDE DEF j
    <3> QED BY <1>3, <2>1 DEF Spells
  <2>3. j = 1
    <3> HIDE DEF j
    <3> QED BY <1>4, <1>9, <2>1, <2>2
  <2> HIDE DEF ld, lr
  <2> QED BY <1>2, <1>3, <2>3
<1> QED BY <1>9, <1>10 DEF d

LEMMA CutIs ==
  ASSUME NEW w \in Letters, NEW n \in 0 .. Len(w)
  PROVE  /\ SubSeq(w, 1, n) \in Letters /\ Len(SubSeq(w, 1, n)) = n
         /\ \A j \in 1 .. n : SubSeq(w, 1, n)[j] = w[j]
<1> DEFINE u == SubSeq(w, 1, n)
<1>1. Len(w) \in Nat /\ \A j \in 1 .. n : w[j] \in Letter
  <2>1. Len(w) \in Nat /\ \A j \in 1 .. Len(w) : w[j] \in Letter
    BY AtIs
  <2>2. \A j \in 1 .. n : j \in 1 .. Len(w)
    BY <2>1
  <2> QED BY <2>1, <2>2
<1>2. /\ u \in Seq(Letter)
      /\ Len(u) = IF 1 <= n THEN n - 1 + 1 ELSE 0
      /\ \A j \in 1 .. n - 1 + 1 : u[j] = w[1 + j - 1]
  <2>1. 1 \in Int /\ n \in Int
    BY <1>1
  <2> QED BY <1>1, <2>1, SubSeqProperties
<1> HIDE DEF u
<1>3. Len(u) = n
  BY <1>1, <1>2
<1>4. \A j \in 1 .. n : u[j] = w[j]
  <2>1. \A j \in 1 .. n : j \in 1 .. n - 1 + 1 /\ 1 + j - 1 = j
    BY <1>1
  <2> QED BY <1>2, <2>1
<1> QED BY <1>2, <1>3, <1>4 DEF u, Letters

(* A message without an empty value that is cut is not read past its end      *)
(* when setSetting gets all its pairs.                                       *)
LEMMA CutReads ==
  ASSUME NEW style \in Style, NEW pairs \in Message,
         \A i \in DOMAIN pairs : pairs[i].value # None,
         NEW n \in 0 .. Len(Written(style, pairs)) - 1, NEW t,
         t = SubSeq(Written(style, pairs), 1, n),
         Read(t).pairs = pairs, Read(t).past
  PROVE  FALSE
<1> DEFINE w == Written(style, pairs)
           f == Pairs(t)
           d == Datum(style, pairs[1])
           r == More(style, pairs)
<1>1. PICK b, z : w \in Letters /\ WithObject(w, style, pairs, b, z) /\ OneObject(w, b)
  BY WrittenIs
<1>2. n \in 0 .. Len(w) - 1 /\ t = SubSeq(w, 1, n)
  OBVIOUS
<1> HIDE DEF w
<1>3. Len(w) \in Nat /\ n \in 0 .. Len(w)
  <2>1. Len(w) \in Nat
    BY <1>1, AtIs
  <2> QED BY <1>2, <2>1
<1>4. t \in Letters /\ Len(t) = n /\ \A j \in 1 .. n : t[j] = w[j]
  BY <1>1, <1>2, <1>3, CutIs
<1>5. /\ Got(Child(t)) = pairs
      /\ Broken(t)
      /\ \E q \in 2 .. Len(t) : t[q] = Opening /\ Child(t) = Pairs(t)[q][TRUE].pairs
  BY <1>4, PastReads
<1>6. \A q \in 2 .. Len(t) : t[q] = Opening => q = b
  <2>1. \A q \in 2 .. Len(t) : q \in 2 .. Len(w) /\ t[q] = w[q]
    BY <1>3, <1>4
  <2> QED BY <1>1, <2>1 DEF OneObject
<1>7. b \in 2 .. n /\ f[b][TRUE].at > Len(t) /\ Child(t) = f[b][TRUE].pairs
  <2>1. \E q \in 2 .. Len(t) : t[q] = Opening /\ f[q][TRUE].at > Len(t)
    BY <1>5 DEF Broken
  <2> HIDE DEF f
  <2>2. b \in 2 .. Len(t) /\ f[b][TRUE].at > Len(t)
    BY <1>6, <2>1
  <2>3. Child(t) = f[b][TRUE].pairs
    BY <1>5, <1>6 DEF f
  <2> QED BY <1>4, <2>2, <2>3
<1>8. /\ b \in 2 .. Len(w) /\ z \in b + 1 .. Len(w)
      /\ w[b] = Opening /\ w[z] = Closing
      /\ Spells(w, b + 1, d) /\ Spells(w, b + 1 + Len(d), r)
      /\ z = b + 1 + Len(d) + Len(r)
  BY <1>1 DEF WithObject
<1>9. d \in Letters /\ r \in Letters /\ Len(d) \in Nat /\ Len(r) \in Nat
  BY MessageIs, DatumIs, MoreIs, AtIs
<1>10. ASSUME z <= n PROVE FALSE
  <2> HIDE DEF d, r
  <2>1. b \in 1 .. Len(t) /\ z \in 1 .. Len(t) /\ t[z] = Closing
    BY <1>3, <1>4, <1>7, <1>8, <1>10
  <2>2. Spells(t, b + 1, d) /\ Spells(t, b + 1 + Len(d), r)
    <3>1. \A p \in Nat \ {0} : \A s \in Letters : Spells(w, p, s) /\ p + Len(s) <= n + 1 => Spells(t, p, s)
      <4> SUFFICES ASSUME NEW p \in Nat \ {0}, NEW s \in Letters, Spells(w, p, s), p + Len(s) <= n + 1
                   PROVE  Spells(t, p, s)
        OBVIOUS
      <4> DEFINE l == Len(s)
      <4>1. l \in Nat
        BY AtIs
      <4>2. \A i \in 1 .. l : p + i - 1 \in 1 .. n
        <5>1. p + l <= n + 1
          OBVIOUS
        <5> HIDE DEF l
        <5> QED BY <1>3, <4>1, <5>1
      <4>3. \A i \in 1 .. l : w[p + i - 1] = s[i]
        BY DEF Spells
      <4> QED BY <1>4, <4>2, <4>3 DEF Spells
    <3> DEFINE ld == Len(d)
               lr == Len(r)
    <3>2. b + 1 \in Nat \ {0} /\ b + 1 + ld \in Nat \ {0} /\ (b + 1) + ld <= n + 1 /\ (b + 1 + ld) + lr <= n + 1
      <4>1. ld \in Nat /\ lr \in Nat /\ z = b + 1 + ld + lr
        BY <1>8, <1>9
      <4> HIDE DEF ld, lr
      <4> QED BY <1>7, <1>10, <4>1
    <3> QED BY <1>8, <1>9, <3>1, <3>2
  <2>3. f[b][TRUE] = [pairs |-> PairsSent(pairs), at |-> z, past |-> FALSE]
    <3>1. t \in Letters /\ style \in Style /\ pairs \in Message /\ z = b + 1 + Len(d) + Len(r)
      BY <1>4, <1>8
    <3> QED BY ONLY <2>1, <2>2, <3>1, InnerReads DEF d, r
  <2> DEFINE at == f[b][TRUE].at
  <2>4. at = z
    <3> HIDE DEF f
    <3> QED BY <2>3
  <2>5. at > Len(t) /\ Len(t) = n
    BY <1>4, <1>7
  <2> HIDE DEF at
  <2> QED BY <1>3, <1>8, <1>10, <2>4, <2>5
<1>11. ASSUME z > n PROVE FALSE
  <2> DEFINE child == f[b][TRUE].pairs
             l == Len(pairs)
  <2>1. l \in {1, 2} /\ DOMAIN pairs = 1 .. l
    BY MessageIs
  <2>2. PICK S : child \in Seq(S)
    <3>1. b \in 1 .. Len(t) + 1 /\ TRUE \in BOOLEAN
      BY <1>3, <1>4, <1>7
    <3>2. Runs(Pairs(t), TRUE, b)
      BY <1>4, <3>1, PairsIs
    <3> QED BY <3>2 DEF Runs
  <2>3. Got(child) = pairs
    BY <1>5, <1>7
  <2> HIDE DEF child
  <2>4. DOMAIN child = 1 .. l /\ \A i \in 1 .. l : child[i].value # None
    <3>1. DOMAIN Got(child) = DOMAIN child
      BY DEF Got
    <3>2. \A i \in DOMAIN child : Got(child)[i].value = child[i].value
      BY DEF Got
    <3>3. \A i \in DOMAIN pairs : pairs[i].value # None
      OBVIOUS
    <3> HIDE DEF l
    <3> QED BY <2>1, <2>3, <3>1, <3>2, <3>3
  <2>5. child # <<>> /\ child[1].value # None /\ Len(child) = l
    <3> HIDE DEF l
    <3>1. 1 \in 1 .. l
      BY <2>1
    <3> QED BY <2>1, <2>2, <2>4, <3>1
  <2> PICK e \in b + 1 .. Len(t) :
        \E pair :
          /\ t[e] = Comma
          /\ child = <<pair>> \o f[e][TRUE].pairs
          /\ f[e][TRUE].at > Len(t)
    <3>1. b \in 1 .. Len(t) + 1 /\ f[b][TRUE].at > Len(t) /\ t \in Letters
      <4>1. b \in 1 .. Len(t) + 1
        BY <1>3, <1>4, <1>7
      <4> QED BY ONLY <1>4, <1>7, <4>1
    <3>2. Pairs(t)[b][TRUE].pairs # <<>> /\ Pairs(t)[b][TRUE].pairs[1].value # None
      BY <2>5 DEF child
    <3>3. \E e \in b + 1 .. Len(t) : \E pair :
            /\ t[e] = Comma
            /\ Pairs(t)[b][TRUE].pairs = <<pair>> \o Pairs(t)[e][TRUE].pairs
            /\ Pairs(t)[e][TRUE].at > Len(t)
      BY ONLY <3>1, <3>2, CommaBehind
    <3> QED BY <3>3 DEF child
  <2>6. PICK pair :
          /\ t[e] = Comma
          /\ child = <<pair>> \o f[e][TRUE].pairs
          /\ f[e][TRUE].at > Len(t)
    OBVIOUS
  <2>7. \A i \in b + 1 .. Len(t) : t[i] = Comma => l = 2 /\ i = b + 1 + Len(d)
    <3> SUFFICES ASSUME NEW i \in b + 1 .. Len(t), t[i] = Comma
                 PROVE  l = 2 /\ i = b + 1 + Len(d)
      OBVIOUS
    <3>1. i \in b + 1 .. z /\ w[i] = Comma
      <4>1. i \in 1 .. n /\ i \in b + 1 .. z
        BY <1>3, <1>4, <1>7, <1>8, <1>11
      <4> QED BY <1>4, <4>1
    <3> QED BY <1>1, <3>1, ObjectComma
  <2> DEFINE rest == f[e][TRUE].pairs
  <2>8. PICK R : rest \in Seq(R)
    <3>1. e \in 1 .. Len(t) + 1 /\ TRUE \in BOOLEAN
      BY <1>3, <1>4, <1>7
    <3>2. Runs(Pairs(t), TRUE, e)
      BY <1>4, <3>1, PairsIs
    <3> QED BY <3>2 DEF Runs
  <2> HIDE DEF rest
  <2>9. rest # <<>> /\ rest[1].value # None
    <3> DEFINE Q == R \cup {pair}
               one == <<pair>>
    <3>1. one \in Seq(Q) /\ rest \in Seq(Q) /\ Len(one) = 1
      BY <2>8, SeqMonotonic
    <3>2. child = one \o rest
      BY <2>6 DEF rest
    <3> HIDE DEF Q, one
    <3>3. /\ Len(child) = Len(one) + Len(rest)
          /\ \A i \in 1 .. Len(one) + Len(rest) : child[i] = IF i <= Len(one) THEN one[i] ELSE rest[i - Len(one)]
      BY ONLY <3>1, <3>2, ConcatProperties
    <3>4. l = 2
      BY <2>6, <2>7
    <3>5. Len(rest) = 1
      <4> DEFINE k == Len(rest)
      <4>1. k \in Nat
        BY <3>1
      <4>2. Len(child) = 1 + k /\ Len(child) = 2
        BY ONLY <2>5, <3>1, <3>3, <3>4
      <4>3. k = 1
        <5> DEFINE m == Len(child)
        <5>1. k \in Nat /\ m = 1 + k /\ m = 2
          BY <4>1, <4>2
        <5> HIDE DEF k, m
        <5> QED BY ONLY <5>1
      <4> QED BY ONLY <4>3 DEF k
    <3>6. child[2] = rest[1]
      <4>1. 2 \in 1 .. Len(one) + Len(rest) /\ ~(2 <= Len(one)) /\ 2 - Len(one) = 1
        BY <3>1, <3>5
      <4> QED BY <3>3, <4>1
    <3>7. child[2].value # None
      <4>1. 2 \in 1 .. l
        BY <3>4
      <4> QED BY <2>4, <4>1
    <3>8. rest # <<>>
      <4>1. Len(<<>>) # 1
        BY EmptySeq
      <4> QED BY ONLY <3>5, <4>1
    <3> QED BY ONLY <3>6, <3>7, <3>8
  <2>10. PICK g \in e + 1 .. Len(t) : t[g] = Comma
    <3>1. e \in 1 .. Len(t) + 1 /\ f[e][TRUE].at > Len(t) /\ t \in Letters
      <4>1. e \in 1 .. Len(t) + 1
        BY <1>3, <1>4, <1>7
      <4> QED BY ONLY <1>4, <2>6, <4>1
    <3>2. Pairs(t)[e][TRUE].pairs # <<>> /\ Pairs(t)[e][TRUE].pairs[1].value # None
      BY <2>9 DEF rest
    <3>3. \E g \in e + 1 .. Len(t) : \E y :
            /\ t[g] = Comma
            /\ Pairs(t)[e][TRUE].pairs = <<y>> \o Pairs(t)[g][TRUE].pairs
            /\ Pairs(t)[g][TRUE].at > Len(t)
      BY ONLY <3>1, <3>2, CommaBehind
    <3> QED BY <3>3
  <2>11. e = b + 1 + Len(d)
    BY <2>6, <2>7
  <2>12. g \in b + 1 .. Len(t)
    BY <1>3, <1>4, <1>7
  <2>13. g = b + 1 + Len(d)
    BY <2>7, <2>10, <2>12
  <2>14. g > e
    BY <1>3, <1>4, <1>7
  <2> QED BY <1>7, <2>11, <2>13, <2>14, SMTT(30)
<1>12. z \in Nat /\ n \in Nat
  BY <1>3, <1>8
<1> QED BY <1>10, <1>11, <1>12

----------------------------------------------------------------------------
(* Only a length of 127, or one that does not fit a byte, is misread.       *)
LEMMA LengthsRead ==
  ASSUME NEW n \in 1 .. 1015
  PROVE  /\ ReadAgain(n) => n = 127 \/ n > 255
         /\ LengthRead(n) < n => n > 255
<1>1. n \div 256 \in 0 .. 3 /\ n % 256 \in 0 .. 255 /\ (n <= 255 => n % 256 = n)
  OBVIOUS
<1>2. HighByte(n) = 0
  BY <1>1 DEF HighByte
<1>3. LengthRead(n) = IF n < 126 THEN n ELSE n % 256
  BY <1>1, <1>2 DEF LengthRead, LowByte
<1> QED BY <1>1, <1>3 DEF ReadAgain

(* Nothing of a message of another length is in it that is read behind.     *)
LEMMA OtherReads ==
  ASSUME NEW pairs \in Message, Read(<<"other">>).pairs = pairs, Read(<<"other">>).past
  PROVE  FALSE
<1> DEFINE t == <<"other">>
<1>1. t \in Letters /\ Len(t) = 1
  BY DEF Letters, Letter
<1>2. Read(t).pairs = pairs /\ Read(t).past
  OBVIOUS
<1> HIDE DEF t
<1>3. \E b \in 2 .. Len(t) : t[b] = Opening /\ Child(t) = Pairs(t)[b][TRUE].pairs
  BY ONLY <1>1, <1>2, PastReads, pairs \in Message
<1> QED BY <1>1, <1>3

(* A message arrives whole, or has one of the lengths that are misread; and  *)
(* of one that arrives whole nothing is read past, but for a value that is    *)
(* empty.                                                                  *)
LEMMA ArrivalIs ==
  ASSUME NEW arrival \in Arrivals
  PROVE  /\ arrival.length \in Lengths
         /\ arrival.read.pairs # arrival.sent => arrival.length = 127 \/ arrival.length > 255
         /\ (/\ arrival.read.pairs = arrival.sent
             /\ arrival.read.past \/ Strlen(arrival.read.pairs))
              => \E i \in DOMAIN arrival.sent : arrival.sent[i].value = None
<1>1. PICK n \in Lengths, pairs \in Message :
        \E t \in UNION {Cut(Written(style, pairs), n) : style \in Style} :
          arrival = [length |-> n, sent |-> pairs, read |-> Read(t)]
  BY DEF Arrivals
<1> PICK style \in Style :
        \E t \in Cut(Written(style, pairs), n) :
          arrival = [length |-> n, sent |-> pairs, read |-> Read(t)]
  BY <1>1
<1> PICK t \in Cut(Written(style, pairs), n) :
        arrival = [length |-> n, sent |-> pairs, read |-> Read(t)]
  OBVIOUS
<1>2. arrival.length = n /\ arrival.sent = pairs /\ arrival.read = Read(t)
  OBVIOUS
<1>3. n \in 1 .. 1015
  BY SettingsAssumption
<1>4. Read(Written(style, pairs)) = [pairs |-> pairs, past |-> FALSE]
  BY WholeReads
<1>5. \/ ReadAgain(n) /\ t = <<"other">>
      \/ LengthRead(n) < n /\ \E i \in 0 .. Len(Written(style, pairs)) - 1 :
                                 t = SubSeq(Written(style, pairs), 1, i)
      \/ t = Written(style, pairs)
  BY DEF Cut
<1>6. Read(t).pairs # pairs => n = 127 \/ n > 255
  <2>1. t = Written(style, pairs) => Read(t).pairs = pairs
    BY <1>4
  <2>2. ReadAgain(n) \/ LengthRead(n) < n => n = 127 \/ n > 255
    BY <1>3, LengthsRead
  <2> QED BY ONLY <1>5, <2>1, <2>2
<1>7. ASSUME Read(t).pairs = pairs, Read(t).past, \A i \in DOMAIN pairs : pairs[i].value # None
      PROVE  FALSE
  <2>1. CASE t = <<"other">>
    BY <1>7, <2>1, OtherReads
  <2>2. ASSUME NEW i \in 0 .. Len(Written(style, pairs)) - 1,
               t = SubSeq(Written(style, pairs), 1, i)
        PROVE  FALSE
    BY <1>7, <2>2, CutReads
  <2>3. CASE t = Written(style, pairs)
    <3> DEFINE read == Read(t)
    <3>1. read = [pairs |-> pairs, past |-> FALSE]
      BY <1>4, <2>3
    <3>2. read.past = FALSE
      <4> HIDE DEF read
      <4> QED BY <3>1
    <3> QED BY <1>7, <3>2
  <2> QED BY <1>5, <2>1, <2>2, <2>3
<1>8. Strlen(pairs) => \E i \in DOMAIN pairs : pairs[i].value = None
  BY DEF Strlen
<1> QED BY <1>2, <1>6, <1>7, <1>8

(* mystring.h:38, 43 and simple_json.hpp: whatever values an administrator    *)
(* sends, and wherever a message is cut, setSetting gets all of it unless its  *)
(* length is 127 or above 255; and no text or NULL is read past but after     *)
(* such a message, an empty value or an empty line in user_level.           *)
THEOREM ArrivesSafe == SettingsSpec => []ArrivesWhole
<1>1. Unset => ArrivesWhole
  BY DEF Unset, ArrivesWhole
<1>2. ArrivesWhole /\ [Construct \/ SettingsNext]_settingVars => ArrivesWhole'
  <2> SUFFICES ASSUME ArrivesWhole, [Construct \/ SettingsNext]_settingVars
               PROVE  ArrivesWhole'
    OBVIOUS
  <2>1. CASE Construct
    <3>1. fault' = EmptyLine(text') /\ shortened' = shortened
      BY <2>1 DEF Construct, LoadSystem
    <3> QED BY <3>1 DEF ArrivesWhole
  <2>2. ASSUME NEW arrival \in Arrivals, Receive(arrival)
        PROVE  ArrivesWhole'
    <3> DEFINE pairs == arrival.read.pairs
               empty == \E i \in DOMAIN arrival.sent : arrival.sent[i].value = None
    <3>1. shortened' = IF pairs = arrival.sent THEN shortened ELSE arrival.length
      BY <2>2 DEF Receive
    <3>2. empty => sentEmpty'
      BY <2>2 DEF Receive
    <3>3. fault' => arrival.read.past \/ Strlen(pairs)
      BY <2>2 DEF Receive
    <3>4. arrival.length # 0
      BY ArrivalIs, SettingsAssumption
    <3>5. shortened' # 0 => shortened' = 127 \/ shortened' > 255
      BY <3>1, ArrivalIs DEF ArrivesWhole
    <3>6. fault' => shortened' # 0 \/ sentEmpty'
      <4>1. CASE pairs = arrival.sent
        BY <3>2, <3>3, <4>1, ArrivalIs
      <4>2. CASE pairs # arrival.sent
        BY <3>1, <3>4, <4>2
      <4> QED BY <4>1, <4>2
    <3> QED BY <3>5, <3>6 DEF ArrivesWhole
  <2>3. ASSUME NEW n \in Lengths, ReceivePast(n)
        PROVE  ArrivesWhole'
    <3>1. n \in 1 .. 1015 /\ ReadAgain(n) /\ shortened' = n
      BY <2>3, SettingsAssumption DEF ReceivePast
    <3> QED BY <3>1, LengthsRead DEF ArrivesWhole
  <2>4. CASE UNCHANGED settingVars
    BY <2>4 DEF settingVars, ArrivesWhole, EmptyLine
  <2> QED BY <2>1, <2>2, <2>3, <2>4 DEF SettingsNext
<1> QED BY <1>1, <1>2, PTL DEF SettingsSpec
=============================================================================
