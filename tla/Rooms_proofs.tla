---------------------------- MODULE Rooms_proofs ----------------------------
(* The safety of the room table, for every number of rooms and any set of  *)
(* players.                                                                *)
EXTENDS Rooms, TLAPS

LEMMA RoomsInit == ASSUME Init PROVE RoomsInv
<1> USE RoomsAssumption DEF Init, Room, Seat, LastSeat
<1>1. TypeOK
  <2>1. seated \in [Room -> [Seat -> Player \cup {None}]]
    OBVIOUS
  <2>2. room \in [Player -> 0 .. MaxRoom] /\ seat \in [Player -> 0 .. LastSeat]
    OBVIOUS
  <2>3. curr \in 0 .. MaxRoom /\ entries \in Nat
    OBVIOUS
  <2>4. /\ lists \in SUBSET Room /\ kicked \in SUBSET Player
        /\ evicted \in BOOLEAN /\ overrun \in BOOLEAN
    OBVIOUS
  <2> HIDE DEF Init, Room, Seat
  <2> QED BY <2>1, <2>2, <2>3, <2>4 DEF TypeOK
<1>2. SeatsAgree BY DEF SeatsAgree
<1>3. ListsWhileOccupied BY DEF ListsWhileOccupied
<1>4. CurrentRoomOpen BY DEF CurrentRoomOpen
<1>5. SweepAccounting BY DEF SweepAccounting
<1>6. OverrunNeedsFullSweep BY DEF OverrunNeedsFullSweep
<1> QED BY <1>1, <1>2, <1>3, <1>4, <1>5, <1>6 DEF RoomsInv

(* What "in room" does, with the seat it found named.                      *)
LEMMA InRoomStep ==
  ASSUME RoomsInv, NEW p \in Player, InRoom(p)
  PROVE  RoomsInv'
<1> USE RoomsAssumption DEF Room, Seat, LastSeat
<1>1. PICK r \in Room, s \in Seat :
        /\ Found(r, s)
        /\ seated' = [seated EXCEPT ![r][s] = p]
        /\ room' = [room EXCEPT ![p] = r]
        /\ seat' = [seat EXCEPT ![p] = s]
        /\ curr' = NextCurr(s)
        /\ lists' = lists \cup {r}
  BY DEF InRoom
<1>2. /\ room[p] = 0
      /\ ~overrun
      /\ overrun' = overrun /\ kicked' = kicked /\ evicted' = evicted
      /\ entries' = entries + 1
  BY DEF InRoom
<1>3. /\ r = curr + 1
      /\ seated[r][s] = None
      /\ \A t \in 1 .. s - 1 : seated[r][t] # None
  BY <1>1 DEF Found
<1>4. TypeOK /\ SeatsAgree /\ ListsWhileOccupied /\ CurrentRoomOpen
      /\ SweepAccounting
  BY DEF RoomsInv
<1>5. curr' = IF s = 4 THEN curr + 1 ELSE curr
  BY <1>1 DEF NextCurr
<1>6. \A q \in Room, t \in Seat :
        seated'[q][t] = IF q = r /\ t = s THEN p ELSE seated[q][t]
  BY <1>1, <1>4 DEF TypeOK
<1>7. TypeOK'
  <2>1. curr' \in 0 .. MaxRoom
    BY <1>3, <1>4, <1>5 DEF TypeOK
  <2>2. seated' \in [Room -> [Seat -> Player \cup {None}]]
    BY <1>1, <1>4 DEF TypeOK
  <2>3. room' \in [Player -> 0 .. MaxRoom] /\ seat' \in [Player -> 0 .. LastSeat]
    BY <1>1, <1>4 DEF TypeOK
  <2> QED BY <1>1, <1>2, <1>4, <2>1, <2>2, <2>3 DEF TypeOK
<1>8. SeatsAgree'
  <2>1. ASSUME NEW q \in Player, room'[q] # 0
        PROVE  /\ seat'[q] \in Seat
               /\ seated'[room'[q]][seat'[q]] = q \/ q \in kicked' \/ evicted'
    <3>1. CASE q = p
      BY <1>1, <1>4, <1>6, <3>1 DEF TypeOK
    <3>2. CASE q # p
      <4>1. room'[q] = room[q] /\ seat'[q] = seat[q]
        BY <1>1, <1>4, <3>2 DEF TypeOK
      <4>2. /\ room[q] \in Room
            /\ seat[q] \in Seat
            /\ seated[room[q]][seat[q]] = q \/ q \in kicked \/ evicted
        BY <1>4, <2>1, <4>1 DEF TypeOK, SeatsAgree
      <4>3. q # None
        OBVIOUS
      <4> QED BY <1>2, <1>3, <1>6, <4>1, <4>2, <4>3
    <3> QED BY <3>1, <3>2
  <2>2. ASSUME NEW q \in Room, NEW t \in Seat, seated'[q][t] # None
        PROVE  room'[seated'[q][t]] = q /\ seat'[seated'[q][t]] = t
    <3>1. CASE q = r /\ t = s
      BY <1>1, <1>4, <1>6, <3>1 DEF TypeOK
    <3>2. CASE ~(q = r /\ t = s)
      <4>1. seated'[q][t] = seated[q][t]
        BY <1>6, <3>2
      <4>2. /\ seated[q][t] \in Player
            /\ room[seated[q][t]] = q
            /\ seat[seated[q][t]] = t
        BY <1>4, <2>2, <4>1 DEF TypeOK, SeatsAgree
      <4>3. seated[q][t] # p
        BY <1>2, <4>2
      <4> QED BY <1>1, <1>4, <4>1, <4>2, <4>3 DEF TypeOK
    <3> QED BY <3>1, <3>2
  <2> QED BY <2>1, <2>2 DEF SeatsAgree
<1>9. ListsWhileOccupied'
  BY <1>1, <1>4, <1>6 DEF ListsWhileOccupied
<1>10. CurrentRoomOpen'
  <2>1. curr' < MaxRoom => seated'[curr' + 1][LastSeat] = None
    BY <1>3, <1>4, <1>5, <1>6 DEF TypeOK, CurrentRoomOpen
  <2>2. \A q \in Room : q > curr' + 1 => \A t \in Seat : seated'[q][t] = None
    BY <1>3, <1>4, <1>5, <1>6 DEF TypeOK, CurrentRoomOpen
  <2> QED BY <2>1, <2>2 DEF CurrentRoomOpen
<1>11. SweepAccounting'
  <2>1. entries >= 4 * curr + s - 1
    <3>1. CASE s = 1
      BY <1>4, <3>1 DEF SweepAccounting, TypeOK
    <3>2. CASE s # 1
      <4>1. s - 1 \in Seat /\ seated[curr + 1][s - 1] # None
        BY <1>3, <3>2
      <4> QED BY <1>3, <1>4, <4>1 DEF SweepAccounting, TypeOK
    <3> QED BY <3>1, <3>2
  <2>2. entries' >= 4 * curr'
    BY <1>2, <1>4, <1>5, <2>1 DEF SweepAccounting, TypeOK
  <2>3. ASSUME NEW t \in Seat, curr' < MaxRoom, seated'[curr' + 1][t] # None
        PROVE  entries' >= 4 * curr' + t
    <3>1. CASE s = 4
      BY <1>3, <1>4, <1>5, <1>6, <2>3, <3>1 DEF CurrentRoomOpen, TypeOK
    <3>2. CASE s # 4 /\ t = s
      BY <1>2, <1>4, <1>5, <2>1, <3>2 DEF TypeOK
    <3>3. CASE s # 4 /\ t # s
      <4>1. curr' = curr /\ seated[curr + 1][t] # None /\ curr < MaxRoom
        BY <1>3, <1>5, <1>6, <2>3, <3>3
      <4> QED BY <1>2, <1>4, <4>1 DEF SweepAccounting, TypeOK
    <3> QED BY <3>1, <3>2, <3>3
  <2> QED BY <2>2, <2>3 DEF SweepAccounting
<1>12. OverrunNeedsFullSweep'
  BY <1>2 DEF OverrunNeedsFullSweep
<1> QED BY <1>7, <1>8, <1>9, <1>10, <1>11, <1>12 DEF RoomsInv

(* What leaving and being kicked have in common: a seat is freed, and the   *)
(* slot's own numbers stay or go.                                          *)
LEMMA VacateStep ==
  ASSUME RoomsInv, NEW p \in Player, room[p] # 0, Vacate(p),
         UNCHANGED <<curr, entries, overrun>>, ~overrun,
         \/ /\ room' = [room EXCEPT ![p] = 0]
            /\ seat' = [seat EXCEPT ![p] = 0]
            /\ kicked' = kicked \ {p}
         \/ /\ UNCHANGED <<room, seat>>
            /\ kicked' = kicked \cup {p}
  PROVE  RoomsInv'
<1> USE RoomsAssumption DEF Room, Seat, LastSeat
<1> DEFINE r == room[p]
           s == seat[p]
<1>1. TypeOK /\ SeatsAgree /\ ListsWhileOccupied /\ CurrentRoomOpen
      /\ SweepAccounting
  BY DEF RoomsInv
<1>2. r \in Room /\ s \in Seat
  BY <1>1 DEF TypeOK, SeatsAgree
<1>3. /\ seated' = [seated EXCEPT ![r][s] = None]
      /\ lists' = IF Empties(r, s) THEN lists \ {r} ELSE lists
      /\ evicted' = (evicted \/ seated[r][s] \notin {p, None})
  BY DEF Vacate, SeatAfterLeave
<1>4. \A q \in Room, t \in Seat :
        seated'[q][t] = IF q = r /\ t = s THEN None ELSE seated[q][t]
  BY <1>1, <1>2, <1>3 DEF TypeOK
<1>5. \A q \in Player :
        /\ room'[q] \in {room[q], 0} /\ seat'[q] \in {seat[q], 0}
        /\ room'[q] # 0 => room'[q] = room[q] /\ seat'[q] = seat[q]
        /\ q # p => room'[q] = room[q] /\ seat'[q] = seat[q]
        /\ q # p => (q \in kicked' <=> q \in kicked)
        /\ room'[p] # 0 => p \in kicked'
  BY <1>1 DEF TypeOK
<1>6. TypeOK'
  <2>1. seated' \in [Room -> [Seat -> Player \cup {None}]]
    BY <1>1, <1>3 DEF TypeOK
  <2>2. /\ room' \in [Player -> 0 .. MaxRoom] /\ seat' \in [Player -> 0 .. LastSeat]
        /\ kicked' \in SUBSET Player
    <3>1. CASE /\ room' = [room EXCEPT ![p] = 0]
               /\ seat' = [seat EXCEPT ![p] = 0]
               /\ kicked' = kicked \ {p}
      <4>1. room' \in [Player -> 0 .. MaxRoom]
        BY <1>1, <3>1 DEF TypeOK
      <4>2. seat' \in [Player -> 0 .. LastSeat]
        BY <1>1, <3>1 DEF TypeOK
      <4> QED BY <1>1, <3>1, <4>1, <4>2 DEF TypeOK
    <3>2. CASE UNCHANGED <<room, seat>> /\ kicked' = kicked \cup {p}
      BY <1>1, <3>2 DEF TypeOK
    <3> QED BY <3>1, <3>2
  <2>3. evicted' \in BOOLEAN
    BY <1>1, <1>3 DEF TypeOK
  <2> QED BY <1>1, <1>3, <2>1, <2>2, <2>3 DEF TypeOK
<1>7. SeatsAgree'
  <2>1. ASSUME NEW q \in Player, room'[q] # 0
        PROVE  /\ seat'[q] \in Seat
               /\ seated'[room'[q]][seat'[q]] = q \/ q \in kicked' \/ evicted'
    <3>1. room'[q] = room[q] /\ seat'[q] = seat[q]
      BY <1>5, <2>1
    <3>2. /\ room[q] \in Room
          /\ seat[q] \in Seat
          /\ seated[room[q]][seat[q]] = q \/ q \in kicked \/ evicted
      BY <1>1, <2>1, <3>1 DEF TypeOK, SeatsAgree
    <3>3. CASE q = p
      BY <1>5, <2>1, <3>1, <3>2, <3>3
    <3>4. CASE q # p
      <4>1. seated[room[q]][seat[q]] = q /\ room[q] = r /\ seat[q] = s => evicted'
        BY <1>3, <3>4
      <4>2. ~(room[q] = r /\ seat[q] = s) =>
              seated'[room[q]][seat[q]] = seated[room[q]][seat[q]]
        BY <1>4, <3>2
      <4>3. (q \in kicked => q \in kicked') /\ (evicted => evicted')
        BY <1>3, <1>5, <3>4
      <4>4. CASE seated[room[q]][seat[q]] = q
        BY <3>1, <3>2, <4>1, <4>2, <4>4
      <4>5. CASE q \in kicked \/ evicted
        BY <3>1, <3>2, <4>3, <4>5
      <4> QED BY <3>2, <4>4, <4>5
    <3> QED BY <3>3, <3>4
  <2>2. ASSUME NEW q \in Room, NEW t \in Seat, seated'[q][t] # None
        PROVE  room'[seated'[q][t]] = q /\ seat'[seated'[q][t]] = t
    <3>1. seated'[q][t] = seated[q][t] /\ ~(q = r /\ t = s)
      BY <1>4, <2>2
    <3>2. /\ seated[q][t] \in Player
          /\ room[seated[q][t]] = q
          /\ seat[seated[q][t]] = t
      BY <1>1, <2>2, <3>1 DEF TypeOK, SeatsAgree
    <3>3. seated[q][t] # p
      BY <3>1, <3>2
    <3> QED BY <1>5, <3>1, <3>2, <3>3
  <2> QED BY <2>1, <2>2 DEF SeatsAgree
<1> HIDE DEF r, s
<1>8. ListsWhileOccupied'
  <2> SUFFICES ASSUME NEW q \in Room
               PROVE  q \in lists' <=> \E t \in Seat : seated'[q][t] # None
    BY DEF ListsWhileOccupied
  <2>1. q \in lists <=> \E t \in Seat : seated[q][t] # None
    BY <1>1 DEF ListsWhileOccupied
  <2>2. CASE q # r
    BY <1>3, <1>4, <2>1, <2>2
  <2>3. CASE q = r
    <3>1. Empties(r, s) <=> \A t \in Seat : seated'[r][t] = None
      BY <1>2, <1>4 DEF Empties
    <3>2. CASE Empties(r, s)
      BY <1>3, <2>3, <3>1, <3>2
    <3>3. CASE ~Empties(r, s)
      BY <1>3, <1>4, <2>1, <2>3, <3>1, <3>3
    <3> QED BY <3>2, <3>3
  <2> QED BY <2>2, <2>3
<1>9. CurrentRoomOpen'
  BY <1>1, <1>3, <1>4 DEF CurrentRoomOpen, TypeOK
<1>10. SweepAccounting'
  <2> SUFFICES ASSUME NEW t \in Seat, curr < MaxRoom, seated'[curr + 1][t] # None
               PROVE  entries >= 4 * curr + t
    BY <1>1 DEF SweepAccounting
  <2>1. curr + 1 \in Room
    BY <1>1 DEF TypeOK
  <2>2. seated[curr + 1][t] # None
    BY <1>4, <2>1
  <2> QED BY <1>1, <2>2 DEF SweepAccounting
<1>11. OverrunNeedsFullSweep'
  BY DEF OverrunNeedsFullSweep
<1> QED BY <1>6, <1>7, <1>8, <1>9, <1>10, <1>11 DEF RoomsInv

LEMMA RoomsStep == ASSUME RoomsInv, [Next]_vars PROVE RoomsInv'
<1>1. ASSUME NEW p \in Player, InRoom(p) PROVE RoomsInv'
  BY <1>1, InRoomStep
<1>2. ASSUME NEW p \in Player, InRoomPastEnd(p) PROVE RoomsInv'
  BY <1>2, RoomsAssumption
     DEF InRoomPastEnd, RoomsInv, TypeOK, SeatsAgree, ListsWhileOccupied,
         CurrentRoomOpen, SweepAccounting, OverrunNeedsFullSweep, Room, Seat,
         LastSeat
<1>3. ASSUME NEW p \in Player, Leave(p) PROVE RoomsInv'
  BY <1>3, VacateStep DEF Leave
<1>4. ASSUME NEW p \in Player, KickUser(p) PROVE RoomsInv'
  BY <1>4, VacateStep DEF KickUser
<1>5. CASE UNCHANGED vars
  BY <1>5
     DEF vars, RoomsInv, TypeOK, SeatsAgree, ListsWhileOccupied,
         CurrentRoomOpen, SweepAccounting, OverrunNeedsFullSweep
<1> QED BY <1>1, <1>2, <1>3, <1>4, <1>5 DEF Next

(* Seats, lists, the open room and the sweep count stay right in every     *)
(* behaviour of the room table.                                            *)
THEOREM RoomsSafe == Spec => []RoomsInv
BY RoomsInit, RoomsStep, PTL DEF Spec

(* The types, for every instance.                                          *)
THEOREM RoomsTyped == Spec => []TypeOK
<1>1. RoomsInv => TypeOK BY DEF RoomsInv
<1> QED BY <1>1, RoomsSafe, PTL

(* A player's seat number and the room's table disagree only about slots   *)
(* that kickUser closed a copy of, or after one of those left twice: until  *)
(* then toShot and hitFish use the room their player sits in.              *)
THEOREM SeatsAlwaysAgree == Spec => []SeatsAgree
<1>1. RoomsInv => SeatsAgree BY DEF RoomsInv
<1> QED BY <1>1, RoomsSafe, PTL

(* A room somebody sits in has its two lists, which toShot and hitFish use *)
(* without a test: Room::in allocates them and only the last leave frees   *)
(* them.                                                                   *)
THEOREM ListsThere == Spec => []ListsWhileOccupied
<1>1. RoomsInv => ListsWhileOccupied BY DEF RoomsInv
<1> QED BY <1>1, RoomsSafe, PTL

(* The table is never indexed past its end before 4 * max_room entries.    *)
THEOREM NoEarlyOverrun == Spec => []OverrunNeedsFullSweep
<1>1. RoomsInv => OverrunNeedsFullSweep BY DEF RoomsInv
<1> QED BY <1>1, RoomsSafe, PTL

(* A room behind _curr never gets another player, and a seat is never      *)
(* given away while somebody sits on it.                                   *)
THEOREM SeatedOnlyAtFront == Spec => RoomsBehindStayClosed
<1> USE RoomsAssumption DEF Room, Seat, LastSeat
<1>1. ASSUME RoomsInv, [Next]_vars
      PROVE  [\A r \in Room, s \in Seat :
                seated'[r][s] \notin {None, seated[r][s]} =>
                  seated[r][s] = None /\ r > curr]_vars
  <2> SUFFICES ASSUME Next, NEW r \in Room, NEW s \in Seat,
                      seated'[r][s] \notin {None, seated[r][s]}
               PROVE  seated[r][s] = None /\ r > curr
    BY <1>1
  <2>1. ASSUME NEW p \in Player, InRoom(p) PROVE seated[r][s] = None /\ r > curr
    BY <1>1, <2>1 DEF InRoom, Found, RoomsInv, TypeOK
  <2>2. ASSUME NEW p \in Player, InRoomPastEnd(p) PROVE FALSE
    BY <2>2 DEF InRoomPastEnd
  <2>3. ASSUME NEW p \in Player, room[p] # 0, Vacate(p) PROVE FALSE
    BY <1>1, <2>3 DEF Vacate, SeatAfterLeave, RoomsInv, TypeOK, SeatsAgree
  <2> QED BY <2>1, <2>2, <2>3 DEF Next, Leave, KickUser
<1> QED BY <1>1, RoomsSafe, PTL DEF Spec, RoomsBehindStayClosed
=============================================================================
