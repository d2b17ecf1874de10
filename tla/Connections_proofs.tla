------------------------- MODULE Connections_proofs -------------------------
(***************************************************************************)
(* What Connections promises, for any number of slots, any limits and any     *)
(* clients: whom the select loop closes and waits for, whom the accept       *)
(* thread turns away, and what a client reads.                              *)
(***************************************************************************)
EXTENDS Connections, FiniteSetTheorems, WellFoundedInduction, TLAPS

----------------------------------------------------------------------------
(* The inductive invariant, in parts.                                      *)

Occupied == {s \in Slot : socket[s] # "free"}

TypesCount ==
  len \in Int /\ counting \subseteq Counter /\ register \in [Counter -> Int]

TypesSlots ==
  /\ socket \in [Slot -> {"free", "open", "closed"}]
  /\ inTime \in [Slot -> Int] /\ opTime \in [Slot -> Int]
  /\ shaken \subseteq Slot /\ verified \subseteq Slot /\ playing \subseteq Slot
  /\ verifying \subseteq Slot

TypesClients ==
  /\ frame \in [Slot -> {"none", "text", "short", "full", "bye"}]
  /\ left \subseteq Slot
  /\ reader \in [Slot -> {"new", "message", "part", "nothing"}]
  /\ since \in [Slot -> Int]

TypesLoop ==
  /\ clock \in Int /\ clock >= 0 /\ noOp \in Int
  /\ adding \in Slot \cup {0}
  /\ at \in {"fill", "select", "serve", "one-more", "view", "view-end"}
  /\ i \in Slot
  /\ viewer \in Slot \cup {0} /\ (viewer # 0 <=> at \in {"view", "view-end"})
  /\ fdread \subseteq Slot

TypeOK == TypesCount /\ TypesSlots /\ TypesClients /\ TypesLoop

(* Parts are under way to the viewer only, who is logged in, and until the    *)
(* select thread is through with them nobody else comes to his slot.        *)
PartsToViewer ==
  \A s \in Slot : reader[s] = "part" => socket[s] = "open" /\ s \in verified

(* Unless two threads count at once, len is the number of slots with a        *)
(* socket, but for the slot that is being added or counted; or less, after   *)
(* a kick by copy.                                                         *)
Owed == IF adding # 0 \/ "accept" \in counting THEN 1 ELSE 0
Due == IF "select" \in counting \/ "verify" \in counting THEN 1 ELSE 0
LenCounts ==
  /\ adding # 0 => "accept" \notin counting
  /\ "counted-at-once" \notin mishaps =>
       /\ \A c, d \in counting : c = d
       /\ \A c \in counting : register[c] = len
       /\ len + Owed <= Cardinality(Occupied) + Due

(* A slot is stamped after its client has come.                             *)
StampedLater ==
  /\ \A s \in Slot : since[s] <= clock
  /\ "half-added" \notin mishaps =>
       \A s \in Slot : socket[s] # "free" /\ s # adding => since[s] <= inTime[s]

(* A slot in the set of select is not free: it leaves the set when it is      *)
(* cleared, and while the set is filled it is behind the loop.              *)
SetIsTaken ==
  /\ \A s \in fdread : socket[s] # "free"
  /\ at = "fill" => \A s \in fdread : s < i

(* What may be wrong with a handle in the set of select.                    *)
BadHandle == {"copy-kicked", "accept-failed", "closed-under-select"}
SetIsReadable ==
  /\ \A s \in Slot : socket[s] = "closed" => mishaps \cap BadHandle # {}
  /\ bad => mishaps \cap BadHandle # {}
  /\ at = "serve" => \A s \in fdread : frame[s] # "none" \/ s \in left
                                       \/ mishaps \cap BadHandle # {}
  /\ at = "serve" /\ gone /\ fdread # {} => "others-readable" \in mishaps
  /\ at = "one-more" => "full-buffer" \in mishaps

ConnectionsInv ==
  /\ TypeOK
  /\ FramesWhole
  /\ PartsToViewer
  /\ LenCounts
  /\ StampedLater
  /\ SetIsTaken
  /\ SetIsReadable

----------------------------------------------------------------------------
(* Frames, slots and what a step leaves alone.                             *)

LEMMA ExpectsIs ==
  /\ \A now : Expects(now, Whole) = IF now = "message" THEN "message" ELSE "nothing"
  /\ \A now : Expects(now, FirstPart) = IF now = "message" THEN "part" ELSE "nothing"
  /\ \A now : Expects(now, Part) = IF now = "part" THEN "part" ELSE "nothing"
  /\ \A now : Expects(now, LastPart) = IF now = "part" THEN "message" ELSE "nothing"
BY DEF Expects, Whole, FirstPart, Part, LastPart

LEMMA SlotsFinite ==
  ASSUME NEW S, S \subseteq Slot
  PROVE  IsFiniteSet(S) /\ Cardinality(S) \in Nat
<1>1. IsFiniteSet(Slot)
  BY ConnectionsAssumption, FS_Interval DEF Slot
<1> QED BY <1>1, FS_Subset, FS_CardinalityType

LEMMA SlotsCount == Cardinality(Slot) = MaxPlayers
BY ConnectionsAssumption, FS_Interval DEF Slot

(* A set of numbers has a least one: a smallest interval below one of them.  *)
LEMMA Least ==
  ASSUME NEW S \in SUBSET Nat, S # {}
  PROVE  \E n \in S : \A m \in S : n <= m
<1> DEFINE Below(n) == 0 .. n - 1
           Belows == {Below(n) : n \in S}
           R == StrictSubsetOrdering(Nat)
<1>1. Belows \subseteq FiniteSubsetsOf(Nat) /\ Belows # {}
  <2>1. \A n \in S : IsFiniteSet(Below(n)) /\ Below(n) \subseteq Nat
    BY FS_Interval
  <2> QED BY <2>1 DEF FiniteSubsetsOf
<1>2. PICK B \in Belows : \A C \in Belows : <<C, B>> \notin R
  <2> HIDE DEF R, Belows
  <2> QED BY <1>1, FS_StrictSubsetOrderingWellFounded, WFMin DEF R
<1>3. PICK n \in S : B = Below(n)
  OBVIOUS
<1>4. ASSUME NEW m \in S, m < n PROVE FALSE
  <2>1. Below(m) \subseteq Below(n) /\ m \in Below(n) /\ m \notin Below(m)
    BY <1>4
  <2>2. Below(m) \in SUBSET Nat /\ Below(n) \in SUBSET Nat /\ Below(m) # Below(n)
    BY <2>1
  <2>3. <<Below(m), Below(n)>> \in R
    <3> HIDE DEF Below
    <3> QED BY <2>1, <2>2 DEF StrictSubsetOrdering
  <2> QED BY <1>2, <1>3, <2>3
<1> QED BY <1>4

LEMMA MinIsIn ==
  ASSUME NEW S, S \subseteq Slot, S # {}
  PROVE  Min(S) \in S
<1>1. S \in SUBSET Nat
  BY ConnectionsAssumption DEF Slot
<1>2. \E n \in S : \A m \in S : n <= m
  BY <1>1, Least
<1> QED BY <1>2 DEF Min

LEMMA Frame ==
  /\ TypesCount /\ UNCHANGED <<len, counting, register>> => TypesCount'
  /\ TypesSlots /\ UNCHANGED <<socket, inTime, opTime, shaken, verified, playing, verifying>>
       => TypesSlots'
  /\ TypesClients /\ UNCHANGED <<frame, left, reader, since>> => TypesClients'
  /\ TypesLoop /\ UNCHANGED <<clock, noOp, adding, at, i, viewer, fdread>> => TypesLoop'
  /\ FramesWhole /\ UNCHANGED <<reader, viewer, shaken>> /\ mishaps \subseteq mishaps'
       => FramesWhole'
  /\ PartsToViewer /\ UNCHANGED <<reader, socket, verified>> => PartsToViewer'
  /\ LenCounts /\ UNCHANGED <<len, counting, register, adding, socket>>
       /\ mishaps \subseteq mishaps' => LenCounts'
  /\ StampedLater /\ UNCHANGED <<clock, since, inTime, socket, adding>>
       /\ mishaps \subseteq mishaps' => StampedLater'
  /\ SetIsTaken /\ UNCHANGED <<socket, fdread, at, i>> => SetIsTaken'
  /\ SetIsReadable /\ UNCHANGED <<socket, bad, at, fdread, frame, left, gone>>
       /\ mishaps \subseteq mishaps' => SetIsReadable'
<1>1. TypesCount /\ UNCHANGED <<len, counting, register>> => TypesCount'
  BY DEF TypesCount
<1>2. TypesSlots /\ UNCHANGED <<socket, inTime, opTime, shaken, verified, playing, verifying>>
        => TypesSlots'
  BY DEF TypesSlots
<1>3. TypesClients /\ UNCHANGED <<frame, left, reader, since>> => TypesClients'
  BY DEF TypesClients
<1>4. TypesLoop /\ UNCHANGED <<clock, noOp, adding, at, i, viewer, fdread>> => TypesLoop'
  BY DEF TypesLoop
<1>5. FramesWhole /\ UNCHANGED <<reader, viewer, shaken>> /\ mishaps \subseteq mishaps'
        => FramesWhole'
  BY DEF FramesWhole
<1>6. PartsToViewer /\ UNCHANGED <<reader, socket, verified>> => PartsToViewer'
  BY DEF PartsToViewer
<1>7. LenCounts /\ UNCHANGED <<len, counting, register, adding, socket>>
        /\ mishaps \subseteq mishaps' => LenCounts'
  BY DEF LenCounts, Owed, Due, Occupied
<1>8. StampedLater /\ UNCHANGED <<clock, since, inTime, socket, adding>>
        /\ mishaps \subseteq mishaps' => StampedLater'
  BY DEF StampedLater
<1>9. SetIsReadable /\ UNCHANGED <<socket, bad, at, fdread, frame, left, gone>>
        /\ mishaps \subseteq mishaps' => SetIsReadable'
  <2> SUFFICES ASSUME SetIsReadable, UNCHANGED <<socket, bad, at, fdread, frame, left, gone>>,
                      mishaps \subseteq mishaps'
               PROVE  SetIsReadable'
    OBVIOUS
  <2>1. mishaps \cap BadHandle # {} => mishaps' \cap BadHandle # {}
    OBVIOUS
  <2> QED BY <2>1 DEF SetIsReadable
<1>10. SetIsTaken /\ UNCHANGED <<socket, fdread, at, i>> => SetIsTaken'
  BY DEF SetIsTaken
<1> QED BY <1>1, <1>2, <1>3, <1>4, <1>5, <1>6, <1>7, <1>8, <1>9, <1>10

LEMMA ConnectionsInit == Init => ConnectionsInv
<1> SUFFICES ASSUME Init PROVE ConnectionsInv
  OBVIOUS
<1> USE ConnectionsAssumption DEF Init
<1>1. TypesCount /\ TypesSlots /\ TypesClients
  BY DEF TypesCount, TypesSlots, TypesClients, Counter
<1>2. TypesLoop
  BY DEF TypesLoop, Slot
<1>3. FramesWhole /\ PartsToViewer /\ SetIsTaken /\ SetIsReadable
  BY DEF FramesWhole, PartsToViewer, SetIsTaken, SetIsReadable
<1>4. LenCounts
  <2>1. Occupied = {} /\ Cardinality(Occupied) \in Nat
    BY SlotsFinite DEF Occupied
  <2> QED BY <2>1 DEF LenCounts, Owed, Due
<1>5. StampedLater
  BY DEF StampedLater
<1> QED BY <1>1, <1>2, <1>3, <1>4, <1>5 DEF ConnectionsInv, TypeOK

----------------------------------------------------------------------------
(* Counting.                                                               *)

(* Who begins to count alone knows len.                                    *)
LEMMA BeginCountIs ==
  ASSUME ConnectionsInv, NEW c \in Counter, c \notin counting, BeginCount(c),
         mishaps \cup Crossed(c) \subseteq mishaps'
  PROVE  /\ counting' \subseteq Counter /\ register' \in [Counter -> Int]
         /\ "counted-at-once" \notin mishaps' =>
              counting = {} /\ counting' = {c} /\ register'[c] = len
<1>1. counting' = counting \cup {c} /\ register' = [register EXCEPT ![c] = len]
  BY DEF BeginCount
<1>2. "counted-at-once" \notin mishaps' => counting = {}
  BY DEF Crossed, Met
<1> QED BY <1>1, <1>2 DEF ConnectionsInv, TypeOK, TypesCount

LEMMA EndCountKeeps ==
  ASSUME ConnectionsInv, NEW c \in Counter, EndCount(c)
  PROVE  ConnectionsInv'
<1>1. /\ c \in counting
      /\ len' = IF c = "accept" THEN register[c] + 1 ELSE register[c] - 1
      /\ counting' = counting \ {c} /\ register' = [register EXCEPT ![c] = 0]
      /\ UNCHANGED <<world, verifying, socket, fields, clients, adding, loop, refused, mishaps>>
  BY DEF EndCount, More, Fewer
<1>2. TypesCount'
  <2>1. register[c] \in Int
    BY DEF ConnectionsInv, TypeOK, TypesCount
  <2>2. len' \in Int
    BY <1>1, <2>1
  <2> QED BY <1>1, <2>2 DEF ConnectionsInv, TypeOK, TypesCount
<1>3. LenCounts'
  <2> SUFFICES ASSUME "counted-at-once" \notin mishaps
               PROVE  /\ \A a, d \in counting' : a = d
                      /\ \A d \in counting' : register'[d] = len'
                      /\ len' + Owed' <= Cardinality(Occupied) + Due'
    <3>1. /\ mishaps' = mishaps /\ Occupied' = Occupied
          /\ adding' # 0 => "accept" \notin counting'
      BY <1>1 DEF Occupied, ConnectionsInv, LenCounts
    <3> QED BY <3>1 DEF LenCounts
  <2>1. /\ counting = {c} /\ register[c] = len
        /\ len + Owed <= Cardinality(Occupied) + Due
    BY <1>1 DEF ConnectionsInv, LenCounts
  <2>2. Cardinality(Occupied) \in Nat /\ len \in Int
    BY SlotsFinite DEF Occupied, ConnectionsInv, TypeOK, TypesCount
  <2>3. counting' = {} /\ adding' = adding
    BY <1>1, <2>1
  <2>4. CASE c = "accept"
    <3>1. Due = 0 /\ Owed = 1 /\ Due' = 0 /\ Owed' = 0
      BY <2>1, <2>3, <2>4 DEF Due, Owed, ConnectionsInv, LenCounts
    <3>2. len' = len + 1
      BY <1>1, <2>1, <2>4
    <3> QED BY <2>1, <2>2, <2>3, <3>1, <3>2
  <2>5. CASE c # "accept"
    <3>1. c \in {"select", "verify"}
      BY <2>5 DEF Counter
    <3>2. Due = 1 /\ Due' = 0 /\ Owed' = Owed /\ Owed \in Int
      BY <2>1, <2>3, <2>5, <3>1 DEF Due, Owed
    <3>3. len' = len - 1
      BY <1>1, <2>1, <2>5
    <3> QED BY <2>1, <2>2, <2>3, <3>2, <3>3
  <2> QED BY <2>4, <2>5
<1> QED BY <1>1, <1>2, <1>3, Frame
        DEF ConnectionsInv, TypeOK, world, fields, clients, loop

(* A slot that is cleared.                                                 *)
LEMMA RemoveKeeps ==
  ASSUME ConnectionsInv, NEW c \in {"select", "verify"}, c \notin counting,
         NEW s \in Slot, socket[s] # "free", Remove(c, s), viewer' = viewer,
         mishaps \cup Crossed(c) \subseteq mishaps'
  PROVE  /\ TypesCount' /\ TypesSlots' /\ TypesClients'
         /\ FramesWhole' /\ PartsToViewer' /\ LenCounts' /\ StampedLater'
         /\ UNCHANGED <<clock, noOp, adding>>
         /\ socket'[s] = "free"
         /\ \A r \in Slot \ {s} : /\ socket'[r] = socket[r] /\ frame'[r] = frame[r]
                                  /\ r \in left' <=> r \in left
<1>1. /\ socket' = [socket EXCEPT ![s] = "free"]
      /\ inTime' = [inTime EXCEPT ![s] = 0] /\ opTime' = [opTime EXCEPT ![s] = 0]
      /\ shaken' = shaken \ {s}
      /\ verified' = verified \ {s} /\ playing' = playing \ {s}
      /\ frame' = [frame EXCEPT ![s] = "none"] /\ left' = left \ {s}
      /\ reader' = [reader EXCEPT ![s] = "new"]
      /\ since' = [since EXCEPT ![s] = 0]
      /\ BeginCount(c)
      /\ UNCHANGED <<clock, noOp, verifying, len, adding>>
  BY DEF Remove, world
<1>2. /\ counting' \subseteq Counter /\ register' \in [Counter -> Int]
      /\ "counted-at-once" \notin mishaps' =>
           counting = {} /\ counting' = {c} /\ register'[c] = len
  BY <1>1, BeginCountIs DEF Counter
<1>3. TypesCount'
  BY <1>1, <1>2 DEF ConnectionsInv, TypeOK, TypesCount
<1>4. TypesSlots'
  BY <1>1 DEF ConnectionsInv, TypeOK, TypesSlots
<1>5. TypesClients'
  BY <1>1 DEF ConnectionsInv, TypeOK, TypesClients
<1>6. /\ socket'[s] = "free" /\ reader'[s] = "new" /\ since'[s] = 0
      /\ \A r \in Slot \ {s} : /\ socket'[r] = socket[r] /\ frame'[r] = frame[r]
                               /\ r \in left' <=> r \in left
                               /\ reader'[r] = reader[r] /\ since'[r] = since[r]
                               /\ inTime'[r] = inTime[r]
                               /\ r \in shaken' <=> r \in shaken
                               /\ r \in verified' <=> r \in verified
  BY <1>1 DEF ConnectionsInv, TypeOK, TypesSlots, TypesClients
<1>7. FramesWhole'
  <2>1. s \notin shaken'
    BY <1>1
  <2> QED BY <1>6, <2>1 DEF ConnectionsInv, FramesWhole
<1>8. PartsToViewer'
  BY <1>6 DEF ConnectionsInv, PartsToViewer
<1>9. StampedLater'
  <2>1. clock \in Int /\ clock >= 0
    BY DEF ConnectionsInv, TypeOK, TypesLoop
  <2>2. \A r \in Slot : since'[r] <= clock
    BY <1>6, <2>1 DEF ConnectionsInv, StampedLater
  <2> QED BY <1>1, <1>6, <2>2 DEF ConnectionsInv, StampedLater
<1>10. LenCounts'
  <2> SUFFICES ASSUME "counted-at-once" \notin mishaps'
               PROVE  /\ counting' = {c} /\ register'[c] = len'
                      /\ len' + Owed' <= Cardinality(Occupied') + Due'
    <3>1. adding' # 0 => "accept" \notin counting'
      BY <1>1 DEF BeginCount, ConnectionsInv, LenCounts
    <3> QED BY <3>1 DEF LenCounts
  <2>1. counting = {} /\ counting' = {c} /\ register'[c] = len'
    BY <1>1, <1>2
  <2>2. Owed' = Owed /\ Owed \in Int /\ Due' = 1 /\ Due = 0
    BY <1>1, <2>1 DEF Owed, Due
  <2>3. len + Owed <= Cardinality(Occupied) + Due
    BY <2>1 DEF ConnectionsInv, LenCounts
  <2>4. Occupied' = Occupied \ {s} /\ s \in Occupied
    BY <1>6 DEF Occupied
  <2>5. IsFiniteSet(Occupied) /\ Cardinality(Occupied) \in Nat
    BY SlotsFinite DEF Occupied
  <2>6. Cardinality(Occupied') = Cardinality(Occupied) - 1
    BY <2>4, <2>5, FS_RemoveElement
  <2>7. len \in Int /\ len' = len
    BY <1>1 DEF ConnectionsInv, TypeOK, TypesCount
  <2>8. len + Owed <= Cardinality(Occupied)
    BY <2>2, <2>3, <2>5, <2>7
  <2>9. len' + Owed' <= Cardinality(Occupied') + Due'
    BY <2>2, <2>5, <2>6, <2>7, <2>8
  <2> QED BY <2>1, <2>9
<1> QED BY <1>1, <1>3, <1>4, <1>5, <1>6, <1>7, <1>8, <1>9, <1>10

----------------------------------------------------------------------------
(* The accept thread.                                                      *)

LEMMA ConnectKeeps ==
  ASSUME ConnectionsInv, Connect
  PROVE  ConnectionsInv'
<1>1. /\ UNCHANGED <<clock, noOp, verifying, count, fields, frame, left, reader, sends, loop>>
      /\ adding = 0 /\ "accept" \notin counting
  BY DEF Connect
<1>2. CASE UNCHANGED <<adding, socket, since, mishaps>>
  BY <1>1, <1>2, Frame DEF ConnectionsInv, TypeOK, count, fields, loop
<1>3. ASSUME NEW accepted \in Accepted, ~Full, Free # {}, adding' = Min(Free),
             socket' = [socket EXCEPT ![adding'] = accepted],
             since' = [since EXCEPT ![adding'] = clock],
             mishaps' = mishaps \cup Met("accept-failed", accepted = "closed")
      PROVE  ConnectionsInv'
  <2> DEFINE s == adding'
  <2>1. s \in Slot /\ socket[s] = "free" /\ s # 0
    BY <1>3, MinIsIn, ConnectionsAssumption DEF Free, Slot
  <2> HIDE DEF s
  <2>2. /\ socket'[s] = accepted /\ since'[s] = clock
        /\ \A r \in Slot \ {s} : socket'[r] = socket[r] /\ since'[r] = since[r]
        /\ socket' \in [Slot -> {"free", "open", "closed"}]
        /\ since' \in [Slot -> Int]
        /\ accepted # "free"
        /\ mishaps \subseteq mishaps'
        /\ accepted = "closed" => "accept-failed" \in mishaps'
        /\ clock \in Int
    BY <1>3, <2>1 DEF ConnectionsInv, TypeOK, TypesSlots, TypesClients, TypesLoop, Accepted, Met, s
  <2>3. TypesCount' /\ FramesWhole'
    BY <1>1, <2>2, Frame DEF ConnectionsInv, TypeOK, count, fields, loop
  <2>4. TypesSlots' /\ TypesClients'
    BY <1>1, <2>2 DEF ConnectionsInv, TypeOK, TypesSlots, TypesClients, fields
  <2>5. TypesLoop'
    BY <1>1, <2>1 DEF ConnectionsInv, TypeOK, TypesLoop, loop, s
  <2>6. PartsToViewer'
    BY <1>1, <2>1, <2>2 DEF ConnectionsInv, PartsToViewer, fields
  <2>7. StampedLater'
    <3>1. 0 \notin Slot /\ clock <= clock /\ inTime' = inTime /\ clock' = clock
      BY <1>1, <2>2 DEF Slot, fields
    <3>2. \A r \in Slot : since'[r] <= clock
      BY <2>2, <3>1 DEF ConnectionsInv, StampedLater
    <3>3. \A r \in Slot : r # s => r # adding /\ socket'[r] = socket[r] /\ since'[r] = since[r]
      BY <1>1, <2>2, <3>1
    <3>4. s = adding' /\ mishaps \subseteq mishaps'
      BY <2>2 DEF s
    <3> QED BY <3>1, <3>2, <3>3, <3>4 DEF ConnectionsInv, StampedLater
  <2>8. LenCounts'
    <3> SUFFICES ASSUME "counted-at-once" \notin mishaps
                 PROVE  /\ \A c, d \in counting : c = d
                        /\ \A c \in counting : register[c] = len
                        /\ len + Owed' <= Cardinality(Occupied') + Due'
      BY <1>1, <2>2 DEF LenCounts, count
    <3>1. len + Owed <= Cardinality(Occupied) + Due
      BY DEF ConnectionsInv, LenCounts
    <3>2. Owed = 0 /\ Owed' = 1 /\ Due' = Due /\ Due \in Int
      BY <1>1, <2>1 DEF Owed, Due, count, s
    <3>3. Occupied' = Occupied \cup {s} /\ s \notin Occupied
      BY <2>1, <2>2 DEF Occupied
    <3>4. IsFiniteSet(Occupied) /\ Cardinality(Occupied) \in Nat
      BY SlotsFinite DEF Occupied
    <3>5. Cardinality(Occupied') = Cardinality(Occupied) + 1
      BY <3>3, <3>4, FS_AddElement
    <3>6. len \in Int
      BY DEF ConnectionsInv, TypeOK, TypesCount
    <3>7. len + Owed' <= Cardinality(Occupied') + Due'
      BY <3>1, <3>2, <3>4, <3>5, <3>6
    <3> QED BY <3>7 DEF ConnectionsInv, LenCounts
  <2>9. SetIsReadable'
    <3>1. mishaps \cap BadHandle # {} => mishaps' \cap BadHandle # {}
      BY <2>2
    <3>2. \A r \in Slot : socket'[r] = "closed" => mishaps' \cap BadHandle # {}
      BY <2>2, <3>1 DEF ConnectionsInv, SetIsReadable, BadHandle
    <3> QED BY <1>1, <2>2, <3>1, <3>2 DEF ConnectionsInv, SetIsReadable, loop
  <2>10. SetIsTaken'
    <3>1. \A r \in fdread : r \in Slot /\ socket'[r] # "free"
      BY <2>2 DEF ConnectionsInv, SetIsTaken, TypeOK, TypesLoop
    <3> QED BY <1>1, <3>1 DEF ConnectionsInv, SetIsTaken, loop
  <2> QED BY <2>3, <2>4, <2>5, <2>6, <2>7, <2>8, <2>9, <2>10 DEF ConnectionsInv, TypeOK
<1> QED BY <1>2, <1>3 DEF Connect

LEMMA StampKeeps ==
  ASSUME ConnectionsInv, Stamp
  PROVE  ConnectionsInv'
<1>1. /\ adding # 0 /\ adding' = 0
      /\ inTime' = [inTime EXCEPT ![adding] = clock]
      /\ BeginCount("accept")
      /\ mishaps' = mishaps \cup Crossed("accept")
      /\ UNCHANGED <<world, verifying, len, socket, opTime, shaken, verified, playing,
                     clients, loop>>
  BY DEF Stamp
<1>2. UNCHANGED <<clock, noOp, frame, left, reader, since, at, i, viewer, fdread, bad, gone>>
  BY <1>1 DEF world, clients, loop
<1>3. adding \in Slot /\ "accept" \notin counting
  BY <1>1 DEF ConnectionsInv, TypeOK, TypesLoop, LenCounts
<1>4. /\ counting' \subseteq Counter /\ register' \in [Counter -> Int]
      /\ "counted-at-once" \notin mishaps' =>
           counting = {} /\ counting' = {"accept"} /\ register'["accept"] = len
  BY <1>1, <1>3, BeginCountIs DEF Counter
<1>5. TypesCount'
  BY <1>1, <1>4 DEF ConnectionsInv, TypeOK, TypesCount
<1>6. TypesSlots'
  BY <1>1, <1>3 DEF ConnectionsInv, TypeOK, TypesSlots, TypesLoop
<1>7. TypesLoop'
  BY <1>1, <1>2 DEF ConnectionsInv, TypeOK, TypesLoop
<1>8. StampedLater'
  <2>1. \A r \in Slot : inTime'[r] = IF r = adding THEN clock ELSE inTime[r]
    BY <1>1 DEF ConnectionsInv, TypeOK, TypesSlots
  <2> QED BY <1>1, <1>2, <2>1 DEF ConnectionsInv, StampedLater
<1>9. LenCounts'
  <2> SUFFICES ASSUME "counted-at-once" \notin mishaps'
               PROVE  /\ counting' = {"accept"} /\ register'["accept"] = len'
                      /\ len' + Owed' <= Cardinality(Occupied') + Due'
    BY <1>1 DEF LenCounts
  <2>1. counting = {} /\ counting' = {"accept"} /\ register'["accept"] = len'
    BY <1>1, <1>4
  <2>2. len + Owed <= Cardinality(Occupied) + Due
    BY <2>1, <1>1 DEF ConnectionsInv, LenCounts
  <2>3. Owed = 1 /\ Owed' = 1 /\ Due = 0 /\ Due' = 0
    BY <1>1, <2>1 DEF Owed, Due
  <2>4. Occupied' = Occupied /\ len' = len
    BY <1>1 DEF Occupied
  <2>5. len' + Owed' <= Cardinality(Occupied') + Due'
    BY <2>2, <2>3, <2>4
  <2> QED BY <2>1, <2>5
<1> QED BY <1>1, <1>2, <1>5, <1>6, <1>7, <1>8, <1>9, Frame DEF ConnectionsInv, TypeOK

----------------------------------------------------------------------------
(* The select loop.                                                        *)

(* A step of the loop that touches no client.                               *)
LEMMA LoopKeeps ==
  ASSUME ConnectionsInv, NoClient, viewer' = viewer, TypesLoop', SetIsTaken', SetIsReadable'
  PROVE  ConnectionsInv'
<1>1. /\ UNCHANGED <<clock, len, counting, register, socket, inTime, opTime, shaken, verified>>
      /\ UNCHANGED <<playing, verifying, frame, left, reader, since, adding, mishaps>>
  BY DEF NoClient, world, count, fields, clients
<1> QED BY <1>1, Frame DEF ConnectionsInv, TypeOK

LEMMA NextSlotIs ==
  ASSUME ConnectionsInv, NextSlot
  PROVE  /\ i' \in Slot /\ at' \in {at, "select"}
         /\ (i' = i + 1 /\ i < i') \/ at' = "select"
<1>1. i \in 1 .. MaxPlayers /\ MaxPlayers \in Nat \ {0}
  BY ConnectionsAssumption DEF ConnectionsInv, TypeOK, TypesLoop, Slot
<1>2. i' \in 1 .. MaxPlayers
  BY <1>1 DEF NextSlot
<1>3. at' \in {at, "select"} /\ ((i' = i + 1 /\ i < i') \/ at' = "select")
  BY <1>1 DEF NextSlot
<1> QED BY <1>2, <1>3 DEF Slot

LEMMA FillKeeps ==
  ASSUME ConnectionsInv, Fill
  PROVE  ConnectionsInv'
<1>1. at = "fill" /\ "select" \notin counting /\ UNCHANGED <<viewer, gone>>
  BY DEF Fill, Looping
<1>2. /\ i' \in Slot /\ at' \in {"fill", "select"} /\ i \in Slot
      /\ (i' = i + 1 /\ i < i') \/ at' = "select"
  BY <1>1, NextSlotIs DEF Fill, ConnectionsInv, TypeOK, TypesLoop
<1>3. ASSUME NoClient, fdread' = fdread \/ (fdread' = fdread \cup {i} /\ socket[i] # "free"),
             bad' => bad \/ socket[i] = "closed"
      PROVE  ConnectionsInv'
  <2>1. UNCHANGED <<clock, noOp, adding, socket, frame, left, mishaps>>
    BY <1>3 DEF NoClient, world, clients
  <2>2. TypesLoop'
    BY <1>1, <1>2, <1>3, <2>1 DEF ConnectionsInv, TypeOK, TypesLoop
  <2>3. SetIsReadable'
    BY <1>2, <1>3, <2>1 DEF ConnectionsInv, SetIsReadable
  <2>4. SetIsTaken'
    <3>1. \A s \in fdread : s < i /\ s \in Int
      BY <1>1 DEF ConnectionsInv, SetIsTaken, TypeOK, TypesLoop, Slot
    <3>2. i \in Int
      BY <1>2 DEF Slot
    <3>3. at' = "fill" => \A s \in fdread' : s < i'
      BY <1>2, <1>3, <3>1, <3>2
    <3> QED BY <1>3, <2>1, <3>3 DEF ConnectionsInv, SetIsTaken
  <2> QED BY <1>1, <1>3, <2>2, <2>3, <2>4, LoopKeeps
<1>4. ASSUME socket[i] # "free", Remove("select", i), mishaps \cup Crossed("select") \subseteq mishaps',
             UNCHANGED <<fdread, bad>>
      PROVE  ConnectionsInv'
  <2>1. /\ TypesCount' /\ TypesSlots' /\ TypesClients'
        /\ FramesWhole' /\ PartsToViewer' /\ LenCounts' /\ StampedLater'
        /\ UNCHANGED <<clock, noOp, adding>>
        /\ socket'[i] = "free"
        /\ \A r \in Slot \ {i} : /\ socket'[r] = socket[r] /\ frame'[r] = frame[r]
                                 /\ r \in left' <=> r \in left
    BY <1>1, <1>2, <1>4, RemoveKeeps
  <2>2. TypesLoop'
    BY <1>1, <1>2, <1>4, <2>1 DEF ConnectionsInv, TypeOK, TypesLoop
  <2>3. SetIsReadable'
    <3>1. mishaps \cap BadHandle # {} => mishaps' \cap BadHandle # {}
      BY <1>4
    <3>2. \A r \in Slot : socket'[r] = "closed" => socket[r] = "closed"
      BY <2>1
    <3> QED BY <1>2, <1>4, <3>1, <3>2 DEF ConnectionsInv, SetIsReadable
  <2>4. SetIsTaken'
    <3>1. \A s \in fdread : s < i /\ s \in Int
      BY <1>1 DEF ConnectionsInv, SetIsTaken, TypeOK, TypesLoop, Slot
    <3>2. i \in Int
      BY <1>2 DEF Slot
    <3>3. at' = "fill" => \A s \in fdread' : s < i'
      BY <1>2, <1>4, <3>1, <3>2
    <3>4. \A s \in fdread : s \in Slot \ {i}
      BY <3>1, <3>2 DEF ConnectionsInv, TypeOK, TypesLoop
    <3> QED BY <1>4, <2>1, <3>3, <3>4 DEF ConnectionsInv, SetIsTaken
  <2> QED BY <2>1, <2>2, <2>3, <2>4 DEF ConnectionsInv, TypeOK
<1>5. CASE UNCHANGED <<fdread, bad>> /\ NoClient
  <2>1. bad' => bad \/ socket[i] = "closed"
    BY <1>5, Zenon
  <2>2. NoClient /\ (fdread' = fdread \/ (fdread' = fdread \cup {i} /\ socket[i] # "free"))
    BY <1>5
  <2> QED BY <1>3, <2>1, <2>2, Zenon
<1>6. CASE /\ socket[i] # "free" /\ fdread' = fdread \cup {i}
           /\ bad' = (bad \/ socket[i] = "closed") /\ NoClient
  <2>1. bad' => bad \/ socket[i] = "closed"
    BY <1>6, Zenon
  <2> QED BY <1>3, <1>6, <2>1
<1> QED BY <1>4, <1>5, <1>6 DEF Fill

LEMMA SelectReturnsKeeps ==
  ASSUME ConnectionsInv, SelectReturns
  PROVE  ConnectionsInv'
<1>1. /\ at = "select" /\ at' \in {"serve", "fill"}
      /\ NoClient /\ UNCHANGED <<i, viewer>> /\ ~gone' /\ ~bad'
      /\ (bad /\ fdread' = fdread) \/ fdread' = Readable
      /\ at' = "fill" => fdread' = {}
  BY DEF SelectReturns, Looping
<1>2. UNCHANGED <<clock, noOp, adding, socket, frame, left, mishaps>>
  BY <1>1 DEF NoClient, world, clients
<1>3. fdread' \subseteq fdread /\ fdread \subseteq Slot
  BY <1>1 DEF Readable, ConnectionsInv, TypeOK, TypesLoop
<1>4. TypesLoop'
  BY <1>1, <1>2, <1>3 DEF ConnectionsInv, TypeOK, TypesLoop
<1>5. SetIsReadable'
  <2>1. \A s \in fdread' : frame[s] # "none" \/ s \in left \/ mishaps \cap BadHandle # {}
    BY <1>1 DEF Readable, ConnectionsInv, SetIsReadable
  <2> QED BY <1>1, <1>2, <2>1 DEF ConnectionsInv, SetIsReadable
<1>6. SetIsTaken'
  BY <1>1, <1>2, <1>3 DEF ConnectionsInv, SetIsTaken
<1> QED BY <1>1, <1>4, <1>5, <1>6, LoopKeeps

LEMMA NextRoundIs ==
  ASSUME ConnectionsInv, NextRound
  PROVE  at' = "fill" /\ i' \in Slot /\ fdread' = {} /\ UNCHANGED <<viewer, bad, gone>>
BY ConnectionsAssumption DEF NextRound, Slot

LEMMA ServedKeeps ==
  ASSUME ConnectionsInv, Served
  PROVE  ConnectionsInv'
<1>1. NoClient /\ at = "serve" /\ at' = "fill" /\ i' \in Slot /\ fdread' = {}
      /\ UNCHANGED <<viewer, bad, gone>>
  BY NextRoundIs DEF Served, Looping
<1>2. UNCHANGED <<clock, noOp, adding, socket, frame, left, mishaps>>
  BY <1>1 DEF NoClient, world, clients
<1>3. TypesLoop'
  BY <1>1, <1>2 DEF ConnectionsInv, TypeOK, TypesLoop
<1>4. SetIsReadable'
  BY <1>1, <1>2 DEF ConnectionsInv, SetIsReadable
<1>5. SetIsTaken'
  BY <1>1 DEF SetIsTaken
<1> QED BY <1>1, <1>3, <1>4, <1>5, LoopKeeps

LEMMA ServingIs ==
  ASSUME ConnectionsInv, NEW s, Serving(s)
  PROVE  /\ s \in Slot /\ s \in fdread /\ socket[s] # "free"
         /\ at = "serve" /\ "select" \notin counting /\ viewer = 0
<1>1. fdread \subseteq Slot /\ fdread # {} /\ s = Min(fdread) /\ at = "serve"
      /\ "select" \notin counting
  BY DEF Serving, Looping, ConnectionsInv, TypeOK, TypesLoop
<1>2. s \in fdread
  BY <1>1, MinIsIn
<1> QED BY <1>1, <1>2 DEF ConnectionsInv, TypeOK, TypesLoop, SetIsTaken

(* A client of the set is closed.                                          *)
LEMMA ServedOneKeeps ==
  ASSUME ConnectionsInv, NEW s \in Slot, Serving(s), Remove("select", s),
         mishaps \cup Crossed("select") \subseteq mishaps', ServedOne(s),
         gone' /\ fdread' # {} => "others-readable" \in mishaps'
  PROVE  ConnectionsInv'
<1>1. /\ s \in Slot /\ s \in fdread /\ socket[s] # "free"
      /\ at = "serve" /\ "select" \notin counting
  BY ServingIs
<1>2. fdread' = fdread \ {s} /\ UNCHANGED <<at, i, viewer, bad>>
  BY DEF ServedOne
<1>3. /\ TypesCount' /\ TypesSlots' /\ TypesClients'
      /\ FramesWhole' /\ PartsToViewer' /\ LenCounts' /\ StampedLater'
      /\ UNCHANGED <<clock, noOp, adding>>
      /\ socket'[s] = "free"
      /\ \A r \in Slot \ {s} : /\ socket'[r] = socket[r] /\ frame'[r] = frame[r]
                               /\ r \in left' <=> r \in left
  BY <1>1, <1>2, RemoveKeeps
<1>4. TypesLoop'
  BY <1>2, <1>3 DEF ConnectionsInv, TypeOK, TypesLoop
<1>5. \A r \in fdread' : r \in Slot \ {s} /\ r \in fdread
  BY <1>2 DEF ConnectionsInv, TypeOK, TypesLoop
<1>6. SetIsTaken'
  BY <1>1, <1>2, <1>3, <1>5 DEF ConnectionsInv, SetIsTaken
<1>7. SetIsReadable'
  <2>1. mishaps \cap BadHandle # {} => mishaps' \cap BadHandle # {}
    OBVIOUS
  <2>2. \A r \in Slot : socket'[r] = "closed" => socket[r] = "closed"
    BY <1>3
  <2> QED BY <1>1, <1>2, <1>3, <1>5, <2>1, <2>2 DEF ConnectionsInv, SetIsReadable
<1> QED BY <1>3, <1>4, <1>6, <1>7 DEF ConnectionsInv, TypeOK

LEMMA CloseNextKeeps ==
  ASSUME ConnectionsInv, NEW s \in Slot, CloseNext(s)
  PROVE  ConnectionsInv'
<1>1. /\ Serving(s) /\ gone /\ Remove("select", s) /\ ServedOne(s) /\ UNCHANGED gone
      /\ mishaps \cup Crossed("select") \subseteq mishaps'
  BY DEF CloseNext
<1>2. "others-readable" \in mishaps
  BY <1>1 DEF Serving, Looping, ConnectionsInv, SetIsReadable
<1> QED BY <1>1, <1>2, ServedOneKeeps

LEMMA ReceiveEndKeeps ==
  ASSUME ConnectionsInv, NEW s \in Slot, ReceiveEnd(s)
  PROVE  ConnectionsInv'
<1>1. /\ Serving(s) /\ Remove("select", s) /\ ServedOne(s)
      /\ mishaps' = mishaps \cup Crossed("select")
                      \cup Met("others-readable", gone' /\ fdread # {s})
  BY DEF ReceiveEnd, Receiving
<1>2. gone' /\ fdread' # {} => "others-readable" \in mishaps'
  BY <1>1 DEF ServedOne, Met
<1> QED BY <1>1, <1>2, ServedOneKeeps

(* A frame is taken.                                                       *)
LEMMA TypesTook ==
  ASSUME ConnectionsInv, NEW s \in Slot, frame' = [frame EXCEPT ![s] = "none"]
  PROVE  /\ frame' \in [Slot -> {"none", "text", "short", "full", "bye"}]
BY DEF ConnectionsInv, TypeOK, TypesClients

LEMMA ReceiveFullKeeps ==
  ASSUME ConnectionsInv, NEW s \in Slot, ReceiveFull(s)
  PROVE  ConnectionsInv'
<1>1. /\ frame' = [frame EXCEPT ![s] = "none"]
      /\ mishaps' = mishaps \cup {"full-buffer"}
      /\ at = "serve" /\ at' = "one-more" /\ i' = s
      /\ UNCHANGED <<world, verifying, count, socket, fields, left, since, reader, adding,
                     viewer, fdread, bad, gone>>
  BY DEF ReceiveFull, Receiving, Serving, Looping
<1>2. UNCHANGED <<clock, noOp, len, counting, register, inTime, opTime, shaken, verified,
                  playing>>
  BY <1>1 DEF world, count, fields
<1>3. TypesClients'
  BY <1>1, TypesTook DEF ConnectionsInv, TypeOK, TypesClients
<1>4. TypesLoop'
  BY <1>1, <1>2 DEF ConnectionsInv, TypeOK, TypesLoop
<1>5. SetIsTaken'
  BY <1>1 DEF ConnectionsInv, SetIsTaken
<1>6. SetIsReadable'
  <2>1. mishaps \cap BadHandle # {} => mishaps' \cap BadHandle # {}
    BY <1>1
  <2> QED BY <1>1, <2>1 DEF ConnectionsInv, SetIsReadable
<1> QED BY <1>1, <1>2, <1>3, <1>4, <1>5, <1>6, Frame DEF ConnectionsInv, TypeOK

(* The last step of a round: the set is emptied, and no slot is.            *)
LEMMA RoundEnds ==
  ASSUME ConnectionsInv, at \notin {"view", "view-end"}, NextRound, socket' = socket,
         UNCHANGED <<clock, noOp, adding>>, mishaps \subseteq mishaps'
  PROVE  TypesLoop' /\ SetIsTaken' /\ SetIsReadable'
<1>1. at' = "fill" /\ i' \in Slot /\ fdread' = {} /\ UNCHANGED <<viewer, bad, gone>>
  BY NextRoundIs
<1>2. TypesLoop'
  BY <1>1 DEF ConnectionsInv, TypeOK, TypesLoop
<1>3. mishaps \cap BadHandle # {} => mishaps' \cap BadHandle # {}
  OBVIOUS
<1>4. SetIsTaken' /\ SetIsReadable'
  BY <1>1, <1>3 DEF ConnectionsInv, SetIsTaken, SetIsReadable
<1> QED BY <1>2, <1>4

LEMMA ShakeKeeps ==
  ASSUME ConnectionsInv, NEW s \in Slot, s \notin shaken, Shake(s), UNCHANGED <<viewer, socket, verified>>,
         mishaps \subseteq mishaps'
  PROVE  /\ shaken' \subseteq Slot
         /\ reader' \in [Slot -> {"new", "message", "part", "nothing"}]
         /\ FramesWhole' /\ PartsToViewer'
<1>1. /\ shaken' = shaken \cup {s}
      /\ reader' = [reader EXCEPT ![s] = IF @ = "new" THEN "message" ELSE "nothing"]
  BY DEF Shake
<1>2. /\ shaken' \subseteq Slot
      /\ reader' \in [Slot -> {"new", "message", "part", "nothing"}]
      /\ reader'[s] = IF reader[s] = "new" THEN "message" ELSE "nothing"
      /\ \A r \in Slot \ {s} : reader'[r] = reader[r] /\ (r \in shaken' <=> r \in shaken)
      /\ s \in shaken'
  BY <1>1 DEF ConnectionsInv, TypeOK, TypesSlots, TypesClients
<1>3. reader[s] \in {"new", "nothing"}
  BY DEF ConnectionsInv, FramesWhole, TypeOK, TypesClients
<1>4. FramesWhole'
  BY <1>2, <1>3 DEF ConnectionsInv, FramesWhole
<1>5. PartsToViewer'
  BY <1>2 DEF ConnectionsInv, PartsToViewer
<1> QED BY <1>2, <1>4, <1>5

LEMMA ReceiveOneMoreKeeps ==
  ASSUME ConnectionsInv, ReceiveOneMore
  PROVE  ConnectionsInv'
<1>1. at = "one-more" /\ NextRound /\ i \in Slot
  BY DEF ReceiveOneMore, Looping, ConnectionsInv, TypeOK, TypesLoop
<1>2. viewer' = viewer
  BY <1>1 DEF NextRound
<1>3. CASE NoClient
  <2>1. UNCHANGED <<clock, noOp, adding, socket, mishaps>>
    BY <1>3 DEF NoClient, world
  <2> QED BY <1>1, <1>2, <1>3, <2>1, RoundEnds, LoopKeeps
<1>4. CASE /\ i \notin shaken /\ Shake(i)
           /\ UNCHANGED <<world, verifying, count, socket, inTime, opTime, verified,
                          playing, frame, left, since, adding, mishaps>>
  <2>1. UNCHANGED <<clock, noOp, len, counting, register>>
    BY <1>4 DEF world, count
  <2>2. /\ shaken' \subseteq Slot
        /\ reader' \in [Slot -> {"new", "message", "part", "nothing"}]
        /\ FramesWhole' /\ PartsToViewer'
    BY <1>1, <1>2, <1>4, ShakeKeeps
  <2>3. TypesSlots' /\ TypesClients'
    BY <1>4, <2>2 DEF ConnectionsInv, TypeOK, TypesSlots, TypesClients
  <2>4. TypesLoop' /\ SetIsTaken' /\ SetIsReadable'
    BY <1>1, <1>4, <2>1, RoundEnds
  <2> QED BY <1>4, <2>1, <2>2, <2>3, <2>4, Frame DEF ConnectionsInv, TypeOK
<1> QED BY <1>3, <1>4 DEF ReceiveOneMore

(* A frame that only its slot, and nothing of what the others read, sees.    *)
LEMMA TakenKeeps ==
  ASSUME ConnectionsInv, NEW s \in Slot, Receiving(s), Took(s), NextRound,
         UNCHANGED <<count, socket, inTime, shaken, verified, reader, mishaps>>,
         TypesSlots'
  PROVE  ConnectionsInv'
<1>1. /\ at \notin {"view", "view-end"}
      /\ frame' = [frame EXCEPT ![s] = "none"]
      /\ UNCHANGED <<clock, noOp, left, since, adding, len, counting, register>>
  BY DEF Receiving, Serving, Looping, Took, world, count
<1>2. viewer' = viewer
  BY DEF NextRound
<1>3. TypesClients'
  BY <1>1, TypesTook DEF ConnectionsInv, TypeOK, TypesClients
<1>4. TypesLoop' /\ SetIsTaken' /\ SetIsReadable'
  BY <1>1, RoundEnds
<1> QED BY <1>1, <1>2, <1>3, <1>4, Frame DEF ConnectionsInv, TypeOK

LEMMA ReceiveHeaderKeeps ==
  ASSUME ConnectionsInv, NEW s \in Slot, ReceiveHeader(s)
  PROVE  ConnectionsInv'
<1>1. /\ Receiving(s) /\ s \notin shaken /\ Took(s) /\ NextRound
      /\ UNCHANGED <<count, socket, inTime, opTime, verifying, verified, playing, mishaps>>
  BY DEF ReceiveHeader
<1>2. CASE UNCHANGED <<shaken, reader>>
  <2>1. TypesSlots'
    BY <1>1, <1>2, Frame DEF ConnectionsInv, TypeOK
  <2> QED BY <1>1, <1>2, <2>1, TakenKeeps
<1>3. CASE Shake(s)
  <2>1. /\ at \notin {"view", "view-end"}
        /\ frame' = [frame EXCEPT ![s] = "none"]
        /\ UNCHANGED <<clock, noOp, left, since, adding, len, counting, register, viewer>>
    BY <1>1 DEF Receiving, Serving, Looping, Took, NextRound, world, count
  <2>2. /\ shaken' \subseteq Slot
        /\ reader' \in [Slot -> {"new", "message", "part", "nothing"}]
        /\ FramesWhole' /\ PartsToViewer'
    BY <1>1, <1>3, <2>1, ShakeKeeps
  <2>3. TypesSlots'
    BY <1>1, <2>2 DEF ConnectionsInv, TypeOK, TypesSlots
  <2>4. TypesClients'
    BY <2>1, <2>2, TypesTook DEF ConnectionsInv, TypeOK, TypesClients
  <2>5. TypesLoop' /\ SetIsTaken' /\ SetIsReadable'
    BY <1>1, <2>1, RoundEnds
  <2> QED BY <1>1, <2>1, <2>2, <2>3, <2>4, <2>5, Frame DEF ConnectionsInv, TypeOK
<1> QED BY <1>2, <1>3 DEF ReceiveHeader

LEMMA ReceiveFrameKeeps ==
  ASSUME ConnectionsInv, NEW s \in Slot, ReceiveFrame(s)
  PROVE  ConnectionsInv'
<1>1. /\ Receiving(s) /\ Took(s) /\ NextRound /\ playing' \subseteq playing \cup {s}
      /\ UNCHANGED <<count, socket, inTime, opTime, shaken, verifying, verified, reader, mishaps>>
  BY DEF ReceiveFrame, Message
<1>2. TypesSlots'
  BY <1>1 DEF ConnectionsInv, TypeOK, TypesSlots
<1> QED BY <1>1, <1>2, TakenKeeps

LEMMA ReceiveShotKeeps ==
  ASSUME ConnectionsInv, NEW s \in Slot, ReceiveShot(s)
  PROVE  ConnectionsInv'
<1>1. /\ Receiving(s) /\ Took(s) /\ NextRound /\ opTime' = [opTime EXCEPT ![s] = clock]
      /\ UNCHANGED <<count, socket, inTime, shaken, verifying, verified, playing, reader, mishaps>>
  BY DEF ReceiveShot, Message
<1>2. TypesSlots'
  BY <1>1 DEF ConnectionsInv, TypeOK, TypesSlots, TypesLoop
<1> QED BY <1>1, <1>2, TakenKeeps

LEMMA ReceiveVerifyKeeps ==
  ASSUME ConnectionsInv, NEW s \in Slot, ReceiveVerify(s)
  PROVE  ConnectionsInv'
<1>1. /\ Receiving(s) /\ Took(s) /\ NextRound /\ verifying' = verifying \cup {s}
      /\ UNCHANGED <<count, socket, fields, reader, mishaps>>
  BY DEF ReceiveVerify, Message
<1>2. TypesSlots'
  BY <1>1 DEF fields, ConnectionsInv, TypeOK, TypesSlots
<1> QED BY <1>1, <1>2, TakenKeeps DEF fields

(* Outside of a view nobody expects a part.                                 *)
LEMMA NoParts ==
  ASSUME ConnectionsInv, viewer = 0
  PROVE  \A s \in Slot : reader[s] # "part"
BY DEF ConnectionsInv, FramesWhole, Slot

LEMMA ReceiveKickKeeps ==
  ASSUME ConnectionsInv, NEW s \in Slot, ReceiveKick(s)
  PROVE  ConnectionsInv'
<1>1. /\ Receiving(s) /\ Took(s) /\ NextRound
      /\ BeginCount("select")
      /\ mishaps' = mishaps \cup Crossed("select") \cup {"copy-kicked"}
      /\ UNCHANGED <<len, fields, verifying, reader>>
  BY DEF ReceiveKick, Message
<1>2. PICK r \in Slot : socket[r] # "free" /\ socket' = [socket EXCEPT ![r] = "closed"]
  BY DEF ReceiveKick
<1>3. /\ at = "serve" /\ "select" \notin counting /\ viewer = 0
      /\ at' = "fill" /\ i' \in Slot /\ fdread' = {} /\ UNCHANGED <<viewer, bad, gone>>
  BY <1>1, ServingIs, NextRoundIs DEF Receiving
<1>4. /\ frame' = [frame EXCEPT ![s] = "none"]
      /\ UNCHANGED <<clock, noOp, left, since, adding, inTime, opTime, shaken, verified, playing>>
  BY <1>1 DEF Took, world, fields
<1>5. /\ counting' \subseteq Counter /\ register' \in [Counter -> Int]
      /\ "counted-at-once" \notin mishaps' =>
           counting = {} /\ counting' = {"select"} /\ register'["select"] = len
  BY <1>1, <1>3, BeginCountIs DEF Counter
<1>6. \A t \in Slot : socket'[t] # "free" <=> socket[t] # "free"
  BY <1>2 DEF ConnectionsInv, TypeOK, TypesSlots
<1>7. TypesCount'
  BY <1>1, <1>5 DEF ConnectionsInv, TypeOK, TypesCount
<1>8. TypesSlots'
  BY <1>1, <1>2, <1>4 DEF ConnectionsInv, TypeOK, TypesSlots
<1>9. TypesClients'
  BY <1>1, <1>4, TypesTook DEF ConnectionsInv, TypeOK, TypesClients
<1>10. TypesLoop'
  BY <1>3, <1>4 DEF ConnectionsInv, TypeOK, TypesLoop
<1>11. PartsToViewer'
  BY <1>1, <1>3, NoParts DEF PartsToViewer
<1>12. StampedLater'
  BY <1>1, <1>4, <1>6 DEF ConnectionsInv, StampedLater
<1>13. SetIsTaken' /\ SetIsReadable'
  <2>1. "copy-kicked" \in mishaps' \cap BadHandle
    BY <1>1 DEF BadHandle
  <2>2. mishaps' \cap BadHandle # {}
    BY <2>1
  <2> QED BY <1>3, <2>2 DEF SetIsTaken, SetIsReadable
<1>14. LenCounts'
  <2> SUFFICES ASSUME "counted-at-once" \notin mishaps'
               PROVE  /\ counting' = {"select"} /\ register'["select"] = len'
                      /\ len' + Owed' <= Cardinality(Occupied') + Due'
    <3>1. adding' # 0 => "accept" \notin counting'
      BY <1>1, <1>4 DEF BeginCount, ConnectionsInv, LenCounts
    <3> QED BY <3>1 DEF LenCounts
  <2>1. counting = {} /\ counting' = {"select"} /\ register'["select"] = len'
    BY <1>1, <1>5
  <2>2. Owed' = Owed /\ Owed \in Int /\ Due' = 1 /\ Due = 0
    BY <1>4, <2>1 DEF Owed, Due
  <2>3. len + Owed <= Cardinality(Occupied) + Due
    BY <1>1, <2>1 DEF ConnectionsInv, LenCounts
  <2>4. Occupied' = Occupied
    BY <1>6 DEF Occupied
  <2>5. Cardinality(Occupied) \in Nat /\ len \in Int /\ len' = len
    BY <1>1, SlotsFinite DEF Occupied, ConnectionsInv, TypeOK, TypesCount
  <2>6. len' + Owed' <= Cardinality(Occupied') + Due'
    BY <2>2, <2>3, <2>4, <2>5
  <2> QED BY <2>1, <2>6
<1> QED BY <1>1, <1>3, <1>4, <1>7, <1>8, <1>9, <1>10, <1>11, <1>12, <1>13, <1>14, Frame
        DEF ConnectionsInv, TypeOK

LEMMA ReceiveByeKeeps ==
  ASSUME ConnectionsInv, NEW s \in Slot, ReceiveBye(s)
  PROVE  ConnectionsInv'
<1>1. /\ Receiving(s) /\ Remove("select", s) /\ NextRound
      /\ mishaps' = mishaps \cup Crossed("select")
  BY DEF ReceiveBye
<1>2. /\ at = "serve" /\ "select" \notin counting /\ socket[s] # "free"
      /\ at' = "fill" /\ i' \in Slot /\ fdread' = {} /\ UNCHANGED <<viewer, bad, gone>>
  BY <1>1, ServingIs, NextRoundIs DEF Receiving
<1>3. /\ TypesCount' /\ TypesSlots' /\ TypesClients'
      /\ FramesWhole' /\ PartsToViewer' /\ LenCounts' /\ StampedLater'
      /\ UNCHANGED <<clock, noOp, adding>>
      /\ socket'[s] = "free"
      /\ \A r \in Slot \ {s} : socket'[r] = socket[r]
  BY <1>1, <1>2, RemoveKeeps
<1>4. TypesLoop'
  BY <1>2, <1>3 DEF ConnectionsInv, TypeOK, TypesLoop
<1>5. SetIsTaken' /\ SetIsReadable'
  <2>1. mishaps \cap BadHandle # {} => mishaps' \cap BadHandle # {}
    BY <1>1
  <2>2. \A r \in Slot : socket'[r] = "closed" => socket[r] = "closed"
    BY <1>3
  <2> QED BY <1>2, <2>1, <2>2 DEF ConnectionsInv, SetIsTaken, SetIsReadable
<1> QED BY <1>3, <1>4, <1>5 DEF ConnectionsInv, TypeOK

----------------------------------------------------------------------------
(* What is sent to a client.                                               *)

LEMMA SentIs ==
  ASSUME ConnectionsInv, NEW s \in Slot \cup {0}, NEW f, SendTo(s, f)
  PROVE  \A r \in Slot :
           reader'[r] = IF r = s /\ socket[s] = "open" THEN Expects(reader[r], f) ELSE reader[r]
BY DEF SendTo, ConnectionsInv, TypeOK, TypesClients

LEMMA SendTypes ==
  ASSUME ConnectionsInv, NEW s \in Slot, NEW f, SendTo(s, f)
  PROVE  reader' \in [Slot -> {"new", "message", "part", "nothing"}]
BY DEF SendTo, Expects, ConnectionsInv, TypeOK, TypesClients

LEMMA SendKeeps ==
  ASSUME ConnectionsInv, NEW s \in Slot, NEW f \in {Whole, Part, LastPart}, SendTo(s, f),
         NEW kind \in {"frame-between", "slot-reused"}, Broke(kind),
         viewer' = viewer \/ (f = LastPart /\ s = viewer),
         UNCHANGED <<socket, shaken, verified>>
  PROVE  /\ reader' \in [Slot -> {"new", "message", "part", "nothing"}]
         /\ FramesWhole' /\ PartsToViewer' /\ mishaps \subseteq mishaps'
<1>1. reader' \in [Slot -> {"new", "message", "part", "nothing"}]
  BY SendTypes
<1>2. \A r \in Slot :
        reader'[r] = IF r = s /\ socket[s] = "open" THEN Expects(reader[r], f) ELSE reader[r]
  BY SentIs
<1>3. /\ mishaps \subseteq mishaps'
      /\ \A r \in Slot : reader'[r] = "nothing" /\ reader[r] # "nothing" => kind \in mishaps'
  BY DEF Broke, Met
<1>4. ASSUME NEW r \in Slot
      PROVE  /\ reader'[r] = "part" => reader[r] = "part" /\ ~(f = LastPart /\ r = s)
             /\ reader'[r] = "message" => reader[r] \in {"message", "part"}
             /\ reader'[r] = "new" => reader[r] = "new"
  <2>1. CASE r = s /\ socket[s] = "open"
    <3>1. reader'[r] = Expects(reader[r], f)
      BY <1>2, <2>1
    <3>2. CASE f = Whole
      <4>1. LastPart # Whole
        BY DEF LastPart, Whole
      <4> QED BY <3>1, <3>2, <4>1, ExpectsIs
    <3>3. CASE f = Part
      <4>1. LastPart # Part
        BY DEF LastPart, Part
      <4> QED BY <3>1, <3>3, <4>1, ExpectsIs
    <3>4. CASE f = LastPart
      BY <3>1, <3>4, ExpectsIs
    <3> QED BY <3>2, <3>3, <3>4
  <2>2. CASE r # s \/ socket[s] # "open"
    <3>1. reader'[r] = reader[r]
      BY <1>2, <2>2
    <3>2. reader[r] = "part" => socket[r] = "open"
      BY DEF ConnectionsInv, PartsToViewer
    <3> QED BY <2>2, <3>1, <3>2
  <2> QED BY <2>1, <2>2
<1>5. ASSUME NEW r \in Slot
      PROVE  /\ reader'[r] = "part" => r = viewer'
             /\ reader'[r] \in {"message", "part"} => r \in shaken'
             /\ reader'[r] = "new" => r \notin shaken'
             /\ reader'[r] = "nothing" => mishaps' \cap {"frame-between", "slot-reused"} # {}
  <2>1. /\ reader[r] = "part" => r = viewer
        /\ reader[r] \in {"message", "part"} => r \in shaken
        /\ reader[r] = "new" => r \notin shaken
        /\ reader[r] = "nothing" => mishaps \cap {"frame-between", "slot-reused"} # {}
    BY DEF ConnectionsInv, FramesWhole
  <2>2. reader'[r] = "part" => r = viewer'
    BY <1>4, <2>1
  <2>3. reader'[r] = "nothing" => mishaps' \cap {"frame-between", "slot-reused"} # {}
    BY <1>3, <2>1
  <2> QED BY <1>4, <2>1, <2>2, <2>3
<1>6. FramesWhole'
  BY <1>5 DEF FramesWhole
<1>7. PartsToViewer'
  BY <1>4 DEF ConnectionsInv, PartsToViewer
<1> QED BY <1>1, <1>3, <1>6, <1>7

LEMMA ReceiveViewKeeps ==
  ASSUME ConnectionsInv, NEW s \in Slot, ReceiveView(s)
  PROVE  ConnectionsInv'
<1>1. /\ Receiving(s) /\ s \in shaken /\ s \in verified /\ Took(s)
      /\ SendTo(s, FirstPart)
      /\ at' = "view" /\ i' = 1 /\ viewer' = s
      /\ UNCHANGED <<fdread, bad, gone, count, socket, fields, verifying, mishaps>>
  BY DEF ReceiveView, Message
<1>2. at = "serve" /\ viewer = 0
  BY <1>1, ServingIs DEF Receiving
<1>3. /\ frame' = [frame EXCEPT ![s] = "none"] /\ socket[s] = "open"
      /\ UNCHANGED <<clock, noOp, left, since, adding, len, counting, register,
                     inTime, opTime, shaken, verified, playing>>
  BY <1>1 DEF Took, world, count, fields
<1>4. reader' \in [Slot -> {"new", "message", "part", "nothing"}]
  BY <1>1, SendTypes
<1>5. \A r \in Slot : reader[r] # "part"
  BY <1>2, NoParts
<1>6. /\ reader'[s] = IF reader[s] = "message" THEN "part" ELSE "nothing"
      /\ \A r \in Slot \ {s} : reader'[r] = reader[r]
  BY <1>1, <1>3, SentIs, ExpectsIs
<1>7. reader[s] \in {"message", "nothing"}
  BY <1>1, <1>5 DEF ConnectionsInv, FramesWhole, TypeOK, TypesClients
<1>8. FramesWhole'
  BY <1>1, <1>3, <1>5, <1>6, <1>7 DEF ConnectionsInv, FramesWhole
<1>9. PartsToViewer'
  BY <1>1, <1>3, <1>5, <1>6 DEF PartsToViewer
<1>10. TypesClients'
  BY <1>3, <1>4, TypesTook DEF ConnectionsInv, TypeOK, TypesClients
<1>11. TypesLoop'
  <2>1. 1 \in Slot /\ s # 0
    BY ConnectionsAssumption DEF Slot
  <2> QED BY <1>1, <1>3, <2>1 DEF ConnectionsInv, TypeOK, TypesLoop
<1>12. SetIsTaken' /\ SetIsReadable'
  BY <1>1 DEF ConnectionsInv, SetIsTaken, SetIsReadable
<1> QED BY <1>1, <1>3, <1>8, <1>9, <1>10, <1>11, <1>12, Frame DEF ConnectionsInv, TypeOK

(* A step that only sends, and maybe moves the loop.                        *)
LEMMA SendingKeeps ==
  ASSUME ConnectionsInv, TypesSlots', reader' \in [Slot -> {"new", "message", "part", "nothing"}],
         FramesWhole', PartsToViewer', mishaps \subseteq mishaps',
         UNCHANGED <<world, count, socket, inTime, frame, left, since, adding>>,
         TypesLoop', SetIsTaken', SetIsReadable'
  PROVE  ConnectionsInv'
<1>1. UNCHANGED <<clock, noOp, len, counting, register>>
  BY DEF world, count
<1>2. TypesClients'
  BY DEF ConnectionsInv, TypeOK, TypesClients
<1> QED BY <1>1, <1>2, Frame DEF ConnectionsInv, TypeOK

LEMMA ViewKeeps ==
  ASSUME ConnectionsInv, View
  PROVE  ConnectionsInv'
<1>1. /\ at = "view" /\ viewer \in Slot
      /\ Broke("slot-reused")
      /\ UNCHANGED <<viewer, fdread, bad, gone, world, verifying, count, socket, fields,
                     frame, left, since, sends, adding, refused>>
  BY DEF View, Looping, ConnectionsInv, TypeOK, TypesLoop
<1>2. UNCHANGED <<clock, noOp, inTime, opTime, shaken, verified, playing>>
  BY <1>1 DEF world, fields
<1>3. i' \in Slot /\ at' \in {"view", "view-end"}
  <2>1. i \in 1 .. MaxPlayers /\ MaxPlayers \in Nat \ {0}
    BY ConnectionsAssumption DEF ConnectionsInv, TypeOK, TypesLoop, Slot
  <2>2. i' \in 1 .. MaxPlayers
    BY <2>1 DEF View
  <2> QED BY <1>1, <2>2 DEF View, Slot
<1>4. /\ reader' \in [Slot -> {"new", "message", "part", "nothing"}]
      /\ FramesWhole' /\ PartsToViewer' /\ mishaps \subseteq mishaps'
  <2>1. CASE SendTo(viewer, Part)
    BY <1>1, <1>2, <2>1, SendKeeps
  <2>2. CASE reader' = reader
    <3>1. mishaps \subseteq mishaps'
      BY <1>1 DEF Broke
    <3> QED BY <1>1, <1>2, <2>2, <3>1, Frame DEF ConnectionsInv, TypeOK, TypesClients
  <2> QED BY <2>1, <2>2 DEF View
<1>5. TypesSlots'
  BY <1>1, <1>2, Frame DEF ConnectionsInv, TypeOK
<1>6. TypesLoop'
  BY <1>1, <1>2, <1>3 DEF ConnectionsInv, TypeOK, TypesLoop
<1>7. SetIsTaken' /\ SetIsReadable'
  <2>1. mishaps \cap BadHandle # {} => mishaps' \cap BadHandle # {}
    BY <1>4
  <2> QED BY <1>1, <1>3, <1>4, <2>1 DEF ConnectionsInv, SetIsTaken, SetIsReadable
<1> QED BY <1>1, <1>2, <1>4, <1>5, <1>6, <1>7, SendingKeeps

LEMMA ViewEndKeeps ==
  ASSUME ConnectionsInv, ViewEnd
  PROVE  ConnectionsInv'
<1>1. /\ at = "view-end" /\ viewer \in Slot
      /\ SendTo(viewer, LastPart)
      /\ at' = "fill" /\ i' = 1 /\ viewer' = 0 /\ fdread' = {}
      /\ Broke("slot-reused")
      /\ UNCHANGED <<bad, gone, world, verifying, count, socket, fields,
                     frame, left, since, sends, adding, refused>>
  BY DEF ViewEnd, Looping, ConnectionsInv, TypeOK, TypesLoop
<1>2. UNCHANGED <<clock, noOp, inTime, opTime, shaken, verified, playing>>
  BY <1>1 DEF world, fields
<1>3. /\ reader' \in [Slot -> {"new", "message", "part", "nothing"}]
      /\ FramesWhole' /\ PartsToViewer' /\ mishaps \subseteq mishaps'
  BY <1>1, <1>2, SendKeeps
<1>4. TypesSlots'
  BY <1>1, <1>2, Frame DEF ConnectionsInv, TypeOK
<1>5. TypesLoop'
  BY <1>1, <1>2, ConnectionsAssumption DEF ConnectionsInv, TypeOK, TypesLoop, Slot
<1>6. SetIsTaken' /\ SetIsReadable'
  <2>1. mishaps \cap BadHandle # {} => mishaps' \cap BadHandle # {}
    BY <1>3
  <2> QED BY <1>1, <1>3, <2>1 DEF ConnectionsInv, SetIsTaken, SetIsReadable
<1> QED BY <1>1, <1>2, <1>3, <1>4, <1>5, <1>6, SendingKeeps

LEMMA SendFishKeeps ==
  ASSUME ConnectionsInv, NEW s \in Slot, SendFish(s)
  PROVE  ConnectionsInv'
<1>1. /\ SendTo(s, Whole) /\ Broke("frame-between")
      /\ UNCHANGED <<world, verifying, count, socket, fields, frame, left, since, sends,
                     adding, loop, refused>>
  BY DEF SendFish, SendMsg
<1>2. UNCHANGED <<clock, noOp, inTime, opTime, shaken, verified, playing, at, i, viewer,
                  fdread, bad, gone>>
  BY <1>1 DEF world, fields, loop
<1>3. /\ reader' \in [Slot -> {"new", "message", "part", "nothing"}]
      /\ FramesWhole' /\ PartsToViewer' /\ mishaps \subseteq mishaps'
  BY <1>1, <1>2, SendKeeps
<1>4. TypesSlots' /\ TypesLoop' /\ SetIsTaken' /\ SetIsReadable'
  BY <1>1, <1>2, <1>3, Frame DEF ConnectionsInv, TypeOK
<1> QED BY <1>1, <1>2, <1>3, <1>4, SendingKeeps

LEMMA AnswerKeeps ==
  ASSUME ConnectionsInv, NEW s \in Slot, Answer(s)
  PROVE  ConnectionsInv'
<1>1. /\ SendTo(s, Whole) /\ verifying' = verifying \ {s}
      /\ Broke(IF s \in shaken THEN "frame-between" ELSE "slot-reused")
      /\ UNCHANGED <<world, count, socket, fields, frame, left, since, sends,
                     adding, loop, refused>>
  BY DEF Answer, SendMsg
<1>2. UNCHANGED <<clock, noOp, inTime, opTime, shaken, verified, playing, at, i, viewer,
                  fdread, bad, gone>>
  BY <1>1 DEF world, fields, loop
<1>3. /\ reader' \in [Slot -> {"new", "message", "part", "nothing"}]
      /\ FramesWhole' /\ PartsToViewer' /\ mishaps \subseteq mishaps'
  <2>1. PICK kind \in {"frame-between", "slot-reused"} : Broke(kind)
    BY <1>1
  <2> QED BY <1>1, <1>2, <2>1, SendKeeps
<1>4. TypesSlots'
  BY <1>1, <1>2 DEF ConnectionsInv, TypeOK, TypesSlots
<1>5. TypesLoop' /\ SetIsTaken' /\ SetIsReadable'
  BY <1>1, <1>2, <1>3, Frame DEF ConnectionsInv, TypeOK
<1> QED BY <1>1, <1>2, <1>3, <1>4, <1>5, SendingKeeps

----------------------------------------------------------------------------
(* Verifiers, clients, and time.                                           *)

LEMMA VerifyKeeps ==
  ASSUME ConnectionsInv, NEW s \in Slot, Verify(s)
  PROVE  ConnectionsInv'
<1>1. /\ socket[s] = "open" /\ s \in shaken /\ s \notin verified
      /\ verifying' = verifying \ {s} /\ verified' = verified \cup {s}
      /\ SendTo(s, Whole)
      /\ UNCHANGED <<world, count, socket, inTime, opTime, shaken, playing,
                     frame, left, since, sends, adding, loop, refused, mishaps>>
  BY DEF Verify, SendMsg
<1>2. UNCHANGED <<clock, noOp, at, i, viewer, fdread, bad, gone>>
  BY <1>1 DEF world, loop
<1>3. reader[s] \in {"message", "nothing"}
  BY <1>1 DEF ConnectionsInv, FramesWhole, PartsToViewer, TypeOK, TypesClients
<1>4. \A r \in Slot : reader'[r] = reader[r]
  BY <1>1, <1>3, SentIs, ExpectsIs
<1>5. reader' \in [Slot -> {"new", "message", "part", "nothing"}]
  BY <1>1, SendTypes
<1>6. FramesWhole' /\ PartsToViewer'
  BY <1>1, <1>2, <1>4 DEF ConnectionsInv, FramesWhole, PartsToViewer
<1>7. TypesSlots'
  BY <1>1 DEF ConnectionsInv, TypeOK, TypesSlots
<1>8. TypesLoop' /\ SetIsTaken' /\ SetIsReadable'
  BY <1>1, <1>2, Frame DEF ConnectionsInv, TypeOK
<1> QED BY <1>1, <1>2, <1>5, <1>6, <1>7, <1>8, SendingKeeps

LEMMA ThrowOutKeeps ==
  ASSUME ConnectionsInv, NEW s \in Slot, ThrowOut(s)
  PROVE  ConnectionsInv'
<1>1. /\ "verify" \notin counting /\ socket[s] # "free"
      /\ Remove("verify", s)
      /\ fdread' = fdread \ {s}
      /\ mishaps' = mishaps \cup Crossed("verify")
                      \cup Met("closed-under-select", s \in fdread)
      /\ UNCHANGED <<at, i, viewer, gone>>
  BY DEF ThrowOut
<1>2. bad' => bad \/ s \in fdread
  BY Zenon DEF ThrowOut
<1>3. mishaps \cup Crossed("verify") \subseteq mishaps'
  BY <1>1
<1>4. /\ TypesCount' /\ TypesSlots' /\ TypesClients'
      /\ FramesWhole' /\ PartsToViewer' /\ LenCounts' /\ StampedLater'
      /\ UNCHANGED <<clock, noOp, adding>>
      /\ socket'[s] = "free"
      /\ \A r \in Slot \ {s} : /\ socket'[r] = socket[r] /\ frame'[r] = frame[r]
                               /\ r \in left' <=> r \in left
  BY <1>1, <1>3, RemoveKeeps
<1>5. TypesLoop'
  BY <1>1, <1>4 DEF ConnectionsInv, TypeOK, TypesLoop
<1>6. \A r \in fdread' : r \in Slot \ {s} /\ r \in fdread
  BY <1>1 DEF ConnectionsInv, TypeOK, TypesLoop
<1>7. SetIsTaken'
  BY <1>1, <1>4, <1>6 DEF ConnectionsInv, SetIsTaken
<1>8. SetIsReadable'
  <2>1. mishaps \cap BadHandle # {} => mishaps' \cap BadHandle # {}
    BY <1>1
  <2>2. \A r \in Slot : socket'[r] = "closed" => socket[r] = "closed"
    BY <1>4
  <2>3. s \in fdread => mishaps' \cap BadHandle # {}
    BY <1>1 DEF Met, BadHandle
  <2>4. bad' => mishaps' \cap BadHandle # {}
    BY <1>2, <2>1, <2>3 DEF ConnectionsInv, SetIsReadable
  <2>5. mishaps \subseteq mishaps'
    BY <1>1
  <2> QED BY <1>1, <1>4, <1>6, <2>1, <2>2, <2>4, <2>5 DEF ConnectionsInv, SetIsReadable
<1> QED BY <1>4, <1>5, <1>7, <1>8 DEF ConnectionsInv, TypeOK

LEMMA SendFrameKeeps ==
  ASSUME ConnectionsInv, NEW s \in Slot, NEW f \in {"text", "short", "full", "bye"}, Send(s, f)
  PROVE  ConnectionsInv'
<1>1. /\ frame' = [frame EXCEPT ![s] = f]
      /\ UNCHANGED <<world, verifying, count, socket, fields, left, reader, since, adding,
                     loop, refused, mishaps>>
  BY DEF Send
<1>2. UNCHANGED <<clock, noOp, inTime, opTime, shaken, verified, playing, at, i, viewer,
                  fdread, bad, gone, len, counting, register>>
  BY <1>1 DEF world, count, fields, loop
<1>3. TypesClients'
  BY <1>1 DEF ConnectionsInv, TypeOK, TypesClients
<1>4. SetIsReadable'
  <2>1. \A r \in Slot : frame[r] # "none" => frame'[r] # "none"
    BY <1>1 DEF ConnectionsInv, TypeOK, TypesClients
  <2>2. fdread \subseteq Slot
    BY DEF ConnectionsInv, TypeOK, TypesLoop
  <2> QED BY <1>1, <1>2, <2>1, <2>2 DEF ConnectionsInv, SetIsReadable
<1> QED BY <1>1, <1>2, <1>3, <1>4, Frame DEF ConnectionsInv, TypeOK

LEMMA GoAwayKeeps ==
  ASSUME ConnectionsInv, NEW s \in Slot, GoAway(s)
  PROVE  ConnectionsInv'
<1>1. /\ left' = left \cup {s}
      /\ UNCHANGED <<world, verifying, count, socket, fields, frame, reader, since, adding,
                     loop, refused, mishaps>>
  BY DEF GoAway
<1>2. UNCHANGED <<clock, noOp, inTime, opTime, shaken, verified, playing, at, i, viewer,
                  fdread, bad, gone, len, counting, register>>
  BY <1>1 DEF world, count, fields, loop
<1>3. TypesClients'
  BY <1>1 DEF ConnectionsInv, TypeOK, TypesClients
<1>4. SetIsReadable'
  BY <1>1, <1>2 DEF ConnectionsInv, SetIsReadable
<1> QED BY <1>1, <1>2, <1>3, <1>4, Frame DEF ConnectionsInv, TypeOK

LEMMA TickKeeps ==
  ASSUME ConnectionsInv, Tick
  PROVE  ConnectionsInv'
<1>1. /\ clock' = clock + 1
      /\ UNCHANGED <<noOp, verifying, count, socket, fields, clients, adding, loop, mishaps>>
  BY DEF Tick
<1>2. UNCHANGED <<inTime, opTime, shaken, verified, playing, at, i, viewer, frame, left,
                  reader, since, fdread, bad, gone, len, counting, register>>
  BY <1>1 DEF clients, count, fields, loop
<1>3. TypesLoop'
  BY <1>1, <1>2 DEF ConnectionsInv, TypeOK, TypesLoop
<1>4. StampedLater'
  <2>1. clock \in Int /\ \A r \in Slot : since[r] \in Int /\ since[r] <= clock
    BY DEF ConnectionsInv, StampedLater, TypeOK, TypesLoop, TypesClients
  <2>2. \A r \in Slot : since[r] <= clock'
    BY <1>1, <2>1
  <2> QED BY <1>1, <1>2, <2>2 DEF ConnectionsInv, StampedLater
<1> QED BY <1>1, <1>2, <1>3, <1>4, Frame DEF ConnectionsInv, TypeOK

----------------------------------------------------------------------------
(* All steps.                                                              *)

LEMMA SelectKeeps ==
  ASSUME ConnectionsInv, Select
  PROVE  ConnectionsInv'
<1>1. ASSUME NEW s \in Slot,
             \/ CloseNext(s) \/ ReceiveEnd(s) \/ ReceiveFull(s)
             \/ ReceiveHeader(s) \/ ReceiveView(s)
             \/ ReceiveFrame(s) \/ ReceiveShot(s) \/ ReceiveVerify(s)
             \/ ReceiveKick(s) \/ ReceiveBye(s)
      PROVE  ConnectionsInv'
  BY <1>1, CloseNextKeeps, ReceiveEndKeeps, ReceiveFullKeeps, ReceiveHeaderKeeps,
     ReceiveViewKeeps, ReceiveFrameKeeps, ReceiveShotKeeps, ReceiveVerifyKeeps,
     ReceiveKickKeeps, ReceiveByeKeeps
<1> QED BY <1>1, FillKeeps, SelectReturnsKeeps, ServedKeeps, ReceiveOneMoreKeeps,
           ViewKeeps, ViewEndKeeps DEF Select

LEMMA ConnectionsStep == ConnectionsInv /\ [Next]_vars => ConnectionsInv'
<1> SUFFICES ASSUME ConnectionsInv, [Next]_vars PROVE ConnectionsInv'
  OBVIOUS
<1>1. CASE Connect \/ Stamp
  BY <1>1, ConnectKeeps, StampKeeps
<1>2. CASE Select
  BY <1>2, SelectKeeps
<1>3. CASE \E c \in Counter : EndCount(c)
  BY <1>3, EndCountKeeps
<1>4. CASE \E s \in Slot : SendFish(s) \/ Verify(s) \/ Answer(s) \/ ThrowOut(s) \/ GoAway(s)
  BY <1>4, SendFishKeeps, VerifyKeeps, AnswerKeeps, ThrowOutKeeps, GoAwayKeeps
<1>5. CASE \E s \in Slot, f \in {"text", "short", "full", "bye"} : Send(s, f)
  BY <1>5, SendFrameKeeps
<1>6. CASE Tick
  BY <1>6, TickKeeps
<1>7. CASE UNCHANGED vars
  <2>1. /\ UNCHANGED <<world, count, socket, fields, verifying, clients, adding, loop>>
        /\ mishaps' = mishaps
    BY <1>7 DEF vars
  <2>2. UNCHANGED <<clock, noOp, inTime, opTime, shaken, verified, playing, at, i, viewer,
                    frame, left, reader, since, fdread, bad, gone, len, counting, register>>
    BY <2>1 DEF world, clients, count, fields, loop
  <2> QED BY <2>1, <2>2, Frame DEF ConnectionsInv, TypeOK
<1> QED BY <1>1, <1>2, <1>3, <1>4, <1>5, <1>6, <1>7 DEF Next

(* The inductive invariant holds of the slots and their threads, for any      *)
(* number of slots and any limits.                                         *)
THEOREM ConnectionsSafe == Spec => []ConnectionsInv
<1>1. Init => ConnectionsInv
  BY ConnectionsInit
<1>2. ConnectionsInv /\ [Next]_vars => ConnectionsInv'
  BY ConnectionsStep
<1> QED BY <1>1, <1>2, PTL DEF Spec

----------------------------------------------------------------------------
(* What a client of the program sees of it.                                *)

(* A client reads whole messages after the answer to its handshake           *)
(* (sendmsg, entry.hpp:372), unless one of the two orders named in            *)
(* FramesWhole has happened.                                               *)
THEOREM FramesAlwaysWhole == Spec => []FramesWhole
<1>1. ConnectionsInv => FramesWhole
  BY DEF ConnectionsInv
<1> QED BY <1>1, ConnectionsSafe, PTL

(* The select thread waits outside of select (websocket.hpp:83) only after    *)
(* one of the four mishaps named in WaitsOnlyInSelect.                      *)
THEOREM NeverWaitsElsewhere == Spec => []WaitsOnlyInSelect
<1>1. ConnectionsInv => WaitsOnlyInSelect
  <2> SUFFICES ASSUME ConnectionsInv, NEW s \in Slot, WaitsForOne(s)
               PROVE  mishaps \cap {"copy-kicked", "closed-under-select", "accept-failed",
                                    "full-buffer"} # {}
    BY DEF WaitsOnlyInSelect
  <2>1. frame[s] = "none" /\ s \notin left
    BY DEF WaitsForOne
  <2>2. CASE Receiving(s)
    <3>1. s \in fdread /\ at = "serve"
      BY <2>2, ServingIs DEF Receiving
    <3> QED BY <2>1, <3>1 DEF ConnectionsInv, SetIsReadable, BadHandle
  <2>3. CASE Looping("one-more")
    BY <2>3 DEF Looping, ConnectionsInv, SetIsReadable
  <2> QED BY <2>2, <2>3 DEF WaitsForOne
<1> QED BY <1>1, ConnectionsSafe, PTL

(* The select loop frees the slot of an open connection in four steps only.  *)
LEMMA ClosedIn ==
  ASSUME ConnectionsInv, [Next]_vars, NEW s \in Slot, socket[s] = "open", socket'[s] = "free",
         "select" \in counting' \ counting
  PROVE  Fill \/ \E r \in Slot : CloseNext(r) \/ ReceiveEnd(r) \/ ReceiveBye(r)
<1>1. ~Connect
  <2> SUFFICES ASSUME Connect PROVE FALSE
    OBVIOUS
  <2>1. counting' = counting
    BY DEF Connect, count
  <2> QED BY <2>1
<1>2. ~Stamp
  BY DEF Stamp
<1>3. ASSUME NEW c \in Counter, EndCount(c) PROVE FALSE
  BY <1>3 DEF EndCount
<1>4. ASSUME NEW r \in Slot, SendFish(r) \/ Verify(r) \/ Answer(r) \/ GoAway(r) PROVE FALSE
  BY <1>4 DEF SendFish, Verify, Answer, GoAway, count
<1>5. ASSUME NEW r \in Slot, ThrowOut(r) PROVE FALSE
  BY <1>5 DEF ThrowOut, Remove, BeginCount
<1>6. ASSUME NEW r \in Slot, NEW f, Send(r, f) PROVE FALSE
  BY <1>6 DEF Send
<1>7. ~Tick /\ ~UNCHANGED vars
  BY DEF Tick, vars
<1>8. ~SelectReturns /\ ~Served
  BY DEF SelectReturns, Served, NoClient
<1>9. ~ReceiveOneMore /\ ~View /\ ~ViewEnd
  BY DEF ReceiveOneMore, NoClient, View, ViewEnd
<1>10. ASSUME NEW r \in Slot,
              \/ ReceiveFull(r) \/ ReceiveHeader(r) \/ ReceiveView(r)
              \/ ReceiveFrame(r) \/ ReceiveShot(r) \/ ReceiveVerify(r)
       PROVE  FALSE
  <2>1. UNCHANGED socket
    BY <1>10 DEF ReceiveFull, ReceiveHeader, ReceiveView, ReceiveFrame, ReceiveShot, ReceiveVerify
  <2> QED BY <2>1
<1>11. ASSUME NEW r \in Slot, ReceiveKick(r) PROVE FALSE
  <2>1. PICK t \in Slot : socket' = [socket EXCEPT ![t] = "closed"]
    BY <1>11 DEF ReceiveKick
  <2> QED BY <2>1 DEF ConnectionsInv, TypeOK, TypesSlots
<1>12. Select
  BY <1>1, <1>2, <1>3, <1>4, <1>5, <1>6, <1>7 DEF Next
<1> QED BY <1>8, <1>9, <1>10, <1>11, <1>12 DEF Select

(* The select loop closes a connection only for what its client did or did    *)
(* not do, with the exceptions that NobodyClosedForNothing names: the          *)
(* no_op_timeout of those who do not play (websocket.hpp:242), a slot that    *)
(* is not stamped yet and a set with more than one end in it.                *)
THEOREM NoUnjustClose == Spec => NobodyClosedForNothing
<1>1. ASSUME ConnectionsInv, [Next]_vars, NEW s \in Slot, socket[s] = "open", socket'[s] = "free",
             "select" \in counting' \ counting
      PROVE  \/ Deserved(s) \/ NotInGame(s)
             \/ mishaps' \cap {"half-added", "others-readable"} # {}
  <2>1. CASE Fill
    <3>1. /\ i \in Slot /\ noOp \in Int /\ adding \in Slot \cup {0}
          /\ clock \in Int /\ inTime[i] \in Int /\ opTime[i] \in Int /\ since[i] \in Int
      BY <1>1 DEF ConnectionsInv, TypeOK, TypesLoop, TypesSlots, TypesClients
    <3>2. /\ TimedOut(i) /\ socket' = [socket EXCEPT ![i] = "free"] /\ socket[i] # "free"
          /\ mishaps' = mishaps \cup Crossed("select") \cup Met("half-added", adding = i)
      <4>1. ~NoClient
        BY <1>1 DEF NoClient
      <4> QED BY <2>1, <4>1 DEF Fill, Remove
    <3>3. s = i
      BY <1>1, <3>1, <3>2 DEF ConnectionsInv, TypeOK, TypesSlots
    <3>4. CASE "half-added" \in mishaps'
      BY <3>4
    <3>5. CASE "half-added" \notin mishaps'
      <4>1. adding # i /\ "half-added" \notin mishaps
        BY <3>2, <3>5 DEF Met
      <4>2. since[i] <= inTime[i]
        BY <1>1, <3>1, <3>2, <4>1 DEF ConnectionsInv, StampedLater
      <4>3. NoVerify \in Int /\ NoGame \in Int
        BY ConnectionsAssumption
      <4>4. CASE Unverified(i)
        BY <3>1, <3>3, <4>2, <4>3, <4>4 DEF Unverified, Deserved
      <4>5. CASE Idle(i)
        BY <3>1, <3>3, <4>2, <4>3, <4>5 DEF Idle, Deserved
      <4>6. CASE Inactive(i)
        BY <3>3, <4>6 DEF Inactive, Deserved, NotInGame
      <4> QED BY <3>2, <4>4, <4>5, <4>6 DEF TimedOut
    <3> QED BY <3>4, <3>5
  <2>2. ASSUME NEW r \in Slot, Remove("select", r) PROVE r = s
    BY <1>1, <2>2 DEF Remove, ConnectionsInv, TypeOK, TypesSlots
  <2>3. ASSUME NEW r \in Slot, CloseNext(r) PROVE "others-readable" \in mishaps'
    BY <1>1, <2>3 DEF CloseNext, Serving, Looping, ConnectionsInv, SetIsReadable
  <2>4. ASSUME NEW r \in Slot, ReceiveEnd(r) PROVE Deserved(s)
    <3>1. r = s
      BY <2>2, <2>4 DEF ReceiveEnd
    <3> QED BY <1>1, <2>4, <3>1 DEF ReceiveEnd, Deserved
  <2>5. ASSUME NEW r \in Slot, ReceiveBye(r) PROVE Deserved(s)
    <3>1. r = s
      BY <2>2, <2>5 DEF ReceiveBye
    <3> QED BY <2>5, <3>1 DEF ReceiveBye, Bye, Deserved
  <2> QED BY <1>1, <2>1, <2>3, <2>4, <2>5, ClosedIn
<1>2. ConnectionsInv /\ [Next]_vars =>
        [\A s \in Slot :
          (socket[s] = "open" /\ socket'[s] = "free" /\ "select" \in counting' \ counting)
            => \/ Deserved(s) \/ NotInGame(s)
               \/ mishaps' \cap {"half-added", "others-readable"} # {}]_vars
  BY <1>1
<1> QED BY <1>2, ConnectionsSafe, PTL DEF Spec, NobodyClosedForNothing

(* len <= the slots taken, so that Players::add (player.hpp:45) turns nobody  *)
(* away while a slot is free and nobody is counting, unless a count was lost. *)
THEOREM TurnedAwayOnlyWhenFull == Spec => RefusedOnlyWhenFull
<1>1. ASSUME ConnectionsInv, [Next]_vars, refused' # refused
      PROVE  Free = {} \/ counting # {} \/ "counted-at-once" \in mishaps
  <2> SUFFICES ASSUME Free # {}, counting = {}, "counted-at-once" \notin mishaps
               PROVE  FALSE
    OBVIOUS
  <2>1. Connect
    BY <1>1 DEF Next, vars, Stamp, EndCount, SendFish, Verify, Answer, ThrowOut, GoAway, Send,
       Tick, Select, Fill, SelectReturns, Served, ReceiveOneMore, View, ViewEnd, NoClient,
       CloseNext, ReceiveEnd, ReceiveFull, ReceiveHeader, ReceiveView, ReceiveFrame,
       ReceiveShot, ReceiveVerify, ReceiveKick, ReceiveBye, Remove, Took
  <2>2. adding = 0 /\ len = MaxPlayers
    BY <1>1, <2>1 DEF Connect, Full
  <2>3. Owed = 0 /\ Due = 0
    BY <2>2 DEF Owed, Due
  <2>4. Cardinality(Occupied) \in Nat /\ MaxPlayers \in Nat
    BY SlotsFinite, ConnectionsAssumption DEF Occupied
  <2>5. MaxPlayers <= Cardinality(Occupied)
    BY <1>1, <2>2, <2>3, <2>4 DEF ConnectionsInv, LenCounts
  <2>6. Occupied \in SUBSET Slot /\ IsFiniteSet(Slot) /\ Occupied # Slot
    BY SlotsFinite DEF Occupied, Free
  <2>7. Cardinality(Occupied) <= MaxPlayers /\ Cardinality(Occupied) # MaxPlayers
    BY <2>6, FS_Subset, SlotsCount
  <2> QED BY <2>4, <2>5, <2>7
<1>2. ConnectionsInv /\ [Next]_vars =>
        [refused' # refused => Free = {} \/ counting # {} \/ "counted-at-once" \in mishaps]_vars
  BY <1>1
<1> QED BY <1>2, ConnectionsSafe, PTL DEF Spec, RefusedOnlyWhenFull
=============================================================================
