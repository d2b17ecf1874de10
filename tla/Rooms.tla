------------------------------- MODULE Rooms -------------------------------
(***************************************************************************)
(* The room table of the fish server (source/room.hpp) and the handlers    *)
(* that use it (Entry::inRoom, leaveRoom, kickUser, WebSocket::onclose).    *)
(*                                                                         *)
(* All handlers here run on the select thread (WebSocket::run), one at a   *)
(* time, so one handler is one action; a forced login, which leaves a room  *)
(* from a thread of its own, is taken as one action too.  A "player" is a   *)
(* connected and verified slot of Players::players: inRoom ignores others.  *)
(*                                                                         *)
(* Sends are left out.  A room's fish list and bullet list are allocated    *)
(* and freed together, so one set, lists, holds the rooms that have both.   *)
(***************************************************************************)
EXTENDS Integers

CONSTANTS
  Player,      \* the connected, verified players
  MaxRoom,     \* _max_room, from fish.conf
  None,        \* a NULL entry of Room::players
  MaxEntries   \* bound of the model: how many times inRoom may seat someone

ASSUME RoomsAssumption ==
  /\ MaxRoom \in Nat \ {0}
  /\ None \notin Player
  /\ MaxEntries \in Nat

VARIABLES
  curr,      \* Rooms::_curr
  seated,    \* _rooms[r-1].players[s-1]
  room,      \* Player::room, 0 outside every room
  seat,      \* Player::seat
  lists,     \* the rooms whose fishs and bullets are allocated
  kicked,    \* the slots that kickUser has closed a copy of
  entries,   \* history: how many times inRoom has seated someone
  evicted,   \* history: somebody's seat was freed by another slot's leave
  overrun    \* findRoom has indexed _rooms past its end

vars == <<curr, seated, room, seat, lists, kicked, entries, evicted, overrun>>

Room == 1 .. MaxRoom
LastSeat == 4
Seat == 1 .. LastSeat

Init ==
  /\ curr = 0
  /\ seated = [r \in Room |-> [s \in Seat |-> None]]
  /\ room = [p \in Player |-> 0]
  /\ seat = [p \in Player |-> 0]
  /\ lists = {}
  /\ kicked = {}
  /\ entries = 0
  /\ evicted = FALSE
  /\ overrun = FALSE

----------------------------------------------------------------------------
(* Slips a maintainer could make; each is swapped in to test a property.   *)

FoundInAnyRoom(r, s) ==
  /\ r \in 1 .. curr + 1
  /\ seated[r][s] = None
  /\ \A t \in 1 .. s - 1 : seated[r][t] # None

NextCurrOneEarly(s) == IF s = LastSeat - 1 THEN curr + 1 ELSE curr
EmptiesAtFirstSeat(r, s) == s = 1
SeatAfterLeaveKept(p) == seated

----------------------------------------------------------------------------
(* findRoom looks at _rooms[_curr] in every iteration of both its loops,   *)
(* whatever the loop variable is, so what it finds is the first free seat  *)
(* of that one room.                                                       *)
Found(r, s) ==
  /\ r = curr + 1
  /\ seated[r][s] = None
  /\ \A t \in 1 .. s - 1 : seated[r][t] # None

NextCurr(s) == IF s = LastSeat THEN curr + 1 ELSE curr

(* Nobody is left in r once seat s is free (Rooms::isEmpty).               *)
Empties(r, s) == \A t \in Seat \ {s} : seated[r][t] = None

SeatAfterLeave(p) == [seated EXCEPT ![room[p]][seat[p]] = None]

(* "in room": the caller is outside every room and a seat is found.        *)
InRoom(p) ==
  /\ ~overrun
  /\ room[p] = 0
  /\ entries < MaxEntries
  /\ \E r \in Room, s \in Seat :
       /\ Found(r, s)
       /\ seated' = [seated EXCEPT ![r][s] = p]
       /\ room' = [room EXCEPT ![p] = r]
       /\ seat' = [seat EXCEPT ![p] = s]
       /\ curr' = NextCurr(s)
       /\ lists' = lists \cup {r}
  /\ entries' = entries + 1
  /\ UNCHANGED <<kicked, evicted, overrun>>

(* "in room" when _curr has reached _max_room: findRoom skips its first    *)
(* loop and its second one reads _rooms[_max_room].  What lies there may   *)
(* look full (the client is told room 0 and nothing changes) or may look   *)
(* like a free seat, and inRoom then writes outside the table; the model   *)
(* stops there.                                                            *)
InRoomPastEnd(p) ==
  /\ ~overrun
  /\ room[p] = 0
  /\ curr = MaxRoom
  /\ overrun' = TRUE
  /\ UNCHANGED <<curr, seated, room, seat, lists, kicked, entries, evicted>>

(* Rooms::leave does not look at who sits on the seat it frees.            *)
Vacate(p) ==
  /\ seated' = SeatAfterLeave(p)
  /\ lists' = IF Empties(room[p], seat[p]) THEN lists \ {room[p]} ELSE lists
  /\ evicted' = (evicted \/ seated[room[p]][seat[p]] \notin {p, None})

(* "leave room", or a connection that goes away.                           *)
Leave(p) ==
  /\ ~overrun
  /\ room[p] # 0
  /\ Vacate(p)
  /\ room' = [room EXCEPT ![p] = 0]
  /\ seat' = [seat EXCEPT ![p] = 0]
  /\ kicked' = kicked \ {p}
  /\ UNCHANGED <<curr, entries, overrun>>

(* "kick user" leaves the room with a copy of the slot: the slot keeps its  *)
(* room and its seat until the select loop finds its socket closed, and     *)
(* leaves again.                                                           *)
KickUser(p) ==
  /\ ~overrun
  /\ room[p] # 0
  /\ Vacate(p)
  /\ kicked' = kicked \cup {p}
  /\ UNCHANGED <<curr, room, seat, entries, overrun>>

Next ==
  \E p \in Player : InRoom(p) \/ InRoomPastEnd(p) \/ Leave(p) \/ KickUser(p)

Spec == Init /\ [][Next]_vars

----------------------------------------------------------------------------
(* The variables have their types.                                         *)
TypeOK ==
  /\ curr \in 0 .. MaxRoom
  /\ seated \in [Room -> [Seat -> Player \cup {None}]]
  /\ room \in [Player -> 0 .. MaxRoom]
  /\ seat \in [Player -> 0 .. LastSeat]
  /\ lists \in SUBSET Room
  /\ kicked \in SUBSET Player
  /\ entries \in Nat
  /\ evicted \in BOOLEAN
  /\ overrun \in BOOLEAN

(* A player's own room and seat numbers and the room's player table agree: *)
(* toShot and hitFish trust the first, sendmsgToRoom the second.  Only a    *)
(* kicked slot, and whoever loses a seat to one, keeps numbers of a seat    *)
(* that is free or somebody else's.                                        *)
SeatsAgree ==
  /\ \A p \in Player : room[p] # 0 =>
       /\ seat[p] \in Seat
       /\ seated[room[p]][seat[p]] = p \/ p \in kicked \/ evicted
  /\ \A r \in Room, s \in Seat : seated[r][s] # None =>
       /\ room[seated[r][s]] = r
       /\ seat[seated[r][s]] = s

(* A room has its fish and bullet lists exactly while somebody sits in it: *)
(* toShot and hitFish dereference room->bullets without a test, so nobody  *)
(* who is seated may be without, and the lists of an empty room would       *)
(* never be freed.  This survives a kicked slot that leaves twice.         *)
ListsWhileOccupied ==
  \A r \in Room : r \in lists <=> \E s \in Seat : seated[r][s] # None

(* The room findRoom looks at always has its last seat free, and the rooms *)
(* after it are empty: findRoom cannot answer "no room" before the table   *)
(* is exhausted, so the room:0 reply of inRoom is not reached that way.    *)
CurrentRoomOpen ==
  /\ curr < MaxRoom => seated[curr + 1][LastSeat] = None
  /\ \A r \in Room : r > curr + 1 => \A s \in Seat : seated[r][s] = None

(* The table is overrun only after it has been handed out once in full:    *)
(* not before inRoom has seated 4 * max_room players.                      *)
OverrunNeedsFullSweep == overrun => entries >= LastSeat * MaxRoom

(* What makes the sweep bound inductive: every full room behind _curr cost *)
(* four entries, and an occupied seat of the current room one for itself   *)
(* and one for each seat before it, however many were left since.          *)
SweepAccounting ==
  /\ entries >= LastSeat * curr
  /\ \A s \in Seat : curr < MaxRoom /\ seated[curr + 1][s] # None =>
       entries >= LastSeat * curr + s

RoomsInv ==
  /\ TypeOK
  /\ SeatsAgree
  /\ ListsWhileOccupied
  /\ CurrentRoomOpen
  /\ SweepAccounting
  /\ OverrunNeedsFullSweep

(* _curr never goes back, and findRoom looks nowhere else: a room behind   *)
(* it gets no new player, however empty it is, so churn alone uses up the  *)
(* table.  No step puts a player on an occupied seat either.               *)
RoomsBehindStayClosed ==
  [][\A r \in Room, s \in Seat :
       seated'[r][s] \notin {None, seated[r][s]} =>
         seated[r][s] = None /\ r > curr]_vars
=============================================================================
