---------------------------- MODULE Connections ----------------------------
(***************************************************************************)
(* The slots of Players::players and the three threads that fill, serve and *)
(* empty them: the accept thread (WebSocket::WebSocket, onconnect,          *)
(* Players::add), the select loop (WebSocket::run, onread, onmessage,        *)
(* onclose, Players::remove) and a verifyAccount thread that throws the old  *)
(* connection of its account out.  Sessions has what happens to the User of  *)
(* a slot, and a verifier that comes late; Rooms what happens to its seat.   *)
(*                                                                         *)
(* What a client makes of the frames it is sent is here too: the select      *)
(* thread, Thread::fish and verifiers write to one connection, each frame     *)
(* by one call of send, which is taken as one step.  A reply that is one     *)
(* whole frame, sent by the select thread, is left out: no frame of that      *)
(* thread can come between.                                                *)
(*                                                                         *)
(* Players::len is counted by all three without a lock.  One address stands *)
(* for all clients.  A handle closed and opened again does not get its old   *)
(* number, and recv returns one frame at a time.                             *)
(***************************************************************************)
EXTENDS Integers, FiniteSets, FiniteSetsExt

CONSTANTS
  MaxPlayers,  \* 1024, the length of Players::players
  PerAddress,  \* 10000, how often an address may connect
  NoVerify,    \* Setting::_value->no_verify_account_timout
  NoGame,      \* no_game_timeout
  NoOps,       \* what no_op_timeout may be
  Epoch,       \* what gettime() says at the start: far from 0
  MaxTicks,    \* bound of the model: seconds
  MaxSends     \* bound of the model: messages sent by the clients

ASSUME ConnectionsAssumption ==
  /\ MaxPlayers \in Nat \ {0} /\ PerAddress \in Nat
  /\ NoVerify \in Nat /\ NoGame \in Nat /\ NoOps \subseteq Nat
  /\ MaxTicks \in Nat /\ MaxSends \in Nat
  /\ Epoch \in Nat /\ Epoch > NoVerify /\ Epoch > NoGame
  /\ \A n \in NoOps : Epoch > n

Slot == 1 .. MaxPlayers
Counter == {"accept", "select", "verify"}   \* the threads that count

VARIABLES
  clock,     \* gettime()
  noOp,      \* no_op_timeout
  connects,  \* the count kept in Redis
  len, counting, register,  \* Players::len, and who is changing it
  socket,    \* free, open, or a number that is no handle (any more)
  inTime, opTime,           \* Player::in_time, op_time
  shaken,    \* the slots with hack set
  verifying, \* the slots a verifyAccount thread has been started for
  verified,  \* the slots with a uid
  playing,   \* the slots with a room
  frame,     \* what the client has sent and recv not yet returned
  left,      \* the slots whose client is gone
  adding,    \* the slot Players::add has still to stamp and count, or 0
  at, i,     \* where WebSocket::run is, and its loop variable
  viewer,    \* the slot that viewOnline answers, or 0
  fdread,    \* the slots in its set
  bad,       \* the set has a closed handle
  gone,      \* ret says that the last recv met the end of a connection
  reader,    \* what the client of a slot expects, of the frames it is sent
  since,     \* history: when the client of a slot really came
  sends,     \* history: messages sent
  refused,   \* history: Players::add has turned somebody away
  mishaps    \* history: the kinds of unlucky order met so far

count == <<len, counting, register>>
fields == <<inTime, opTime, shaken, verified, playing>>
clients == <<frame, left, reader, since, sends>>
loop == <<at, i, viewer, fdread, bad, gone>>
world == <<clock, noOp, connects>>
vars == <<world, count, socket, fields, verifying, clients, adding,
          loop, refused, mishaps>>

Init ==
  /\ clock = Epoch
  /\ noOp \in NoOps
  /\ connects = 0
  /\ len = 0 /\ counting = {} /\ register = [c \in Counter |-> 0]
  /\ socket = [s \in Slot |-> "free"]
  /\ inTime = [s \in Slot |-> 0] /\ opTime = [s \in Slot |-> 0]
  /\ shaken = {} /\ verifying = {} /\ verified = {} /\ playing = {}
  /\ frame = [s \in Slot |-> "none"] /\ left = {}
  /\ adding = 0
  /\ at = "fill" /\ i = 1 /\ viewer = 0
  /\ fdread = {} /\ bad = FALSE /\ gone = FALSE
  /\ reader = [s \in Slot |-> "new"]
  /\ since = [s \in Slot |-> 0] /\ sends = 0
  /\ refused = FALSE
  /\ mishaps = {}

Met(kind, happened) == IF happened THEN {kind} ELSE {}

----------------------------------------------------------------------------
(* Slips a maintainer could make; each is swapped in to test a property.   *)

FewerKept(c) == register[c]
ReadableAll == fdread
Unfinished == [fin |-> 0, opcode |-> 0]
UnverifiedAnyhow(s) == NoVerify > 0 /\ clock - inTime[s] > NoVerify

----------------------------------------------------------------------------
(* Players::len++ and len-- read and write it in two steps.                *)
More(c) == register[c] + 1
Fewer(c) == register[c] - 1

BeginCount(c) ==
  /\ counting' = counting \cup {c}
  /\ register' = [register EXCEPT ![c] = len]

Crossed(c) == Met("counted-at-once", counting \ {c} # {})

EndCount(c) ==
  /\ c \in counting
  /\ len' = IF c = "accept" THEN More(c) ELSE Fewer(c)
  /\ counting' = counting \ {c}
  /\ register' = [register EXCEPT ![c] = 0]
  /\ UNCHANGED <<world, verifying, socket, fields, clients, adding,
                 loop, refused, mishaps>>

(* Players::remove: closesocket, memset, len--.                            *)
Remove(c, s) ==
  /\ socket' = [socket EXCEPT ![s] = "free"]
  /\ inTime' = [inTime EXCEPT ![s] = 0] /\ opTime' = [opTime EXCEPT ![s] = 0]
  /\ shaken' = shaken \ {s}
  /\ verified' = verified \ {s} /\ playing' = playing \ {s}
  /\ frame' = [frame EXCEPT ![s] = "none"] /\ left' = left \ {s}
  /\ reader' = [reader EXCEPT ![s] = "new"]
  /\ since' = [since EXCEPT ![s] = 0]
  /\ BeginCount(c)
  /\ UNCHANGED <<world, verifying, len, sends, adding, refused>>

----------------------------------------------------------------------------
(* The frames (emsg) of a message sent whole and in parts, and what a client *)
(* makes of them: after the answer to its handshake it reads messages, each   *)
(* of them whole, or from its first part to its last.                       *)
Whole == [fin |-> 1, opcode |-> 1]
FirstPart == [fin |-> 0, opcode |-> 1]
Part == [fin |-> 0, opcode |-> 0]
LastPart == [fin |-> 1, opcode |-> 0]

Expects(now, f) ==
  CASE now = "message" /\ f.opcode = 1 -> IF f.fin = 1 THEN "message" ELSE "part"
    [] now = "part" /\ f.opcode = 0 -> IF f.fin = 1 THEN "message" ELSE "part"
    [] OTHER -> "nothing"

(* send fails on a handle that is closed, or 0.                             *)
SendTo(s, f) ==
  reader' = IF socket[s] = "open" THEN [reader EXCEPT ![s] = Expects(@, f)] ELSE reader

----------------------------------------------------------------------------
(* hack: the answer to a handshake.                                        *)
Shake(s) ==
  /\ shaken' = shaken \cup {s}
  /\ reader' = [reader EXCEPT ![s] = IF @ = "new" THEN "message" ELSE "nothing"]

----------------------------------------------------------------------------
(* The accept thread.                                                      *)

Full == len = MaxPlayers
Free == {s \in Slot : socket[s] = "free"}

(* accept: a client's socket, or none; nobody looks.                        *)
Accepted == {"open", "closed"}

(* The count of an address, which Redis::get reads and Redis::set writes, of *)
(* a Redis that answers.                                                   *)
GetCount == connects + 1
SetCount(n) == connects' = n

(* onconnect, and Players::add up to the assignment of socket, from which  *)
(* on the other threads see the slot.  Nobody looks at what add returns.    *)
Connect ==
  /\ adding = 0 /\ "accept" \notin counting
  /\ connects <= PerAddress
  /\ SetCount(GetCount)
  /\ \E accepted \in Accepted :
       \/ /\ GetCount <= PerAddress /\ ~Full /\ Free # {}
          /\ adding' = Min(Free)
          /\ socket' = [socket EXCEPT ![adding'] = accepted]
          /\ since' = [since EXCEPT ![adding'] = clock]
          /\ mishaps' = mishaps \cup Met("accept-failed", accepted = "closed")
          /\ UNCHANGED refused
       \/ /\ GetCount <= PerAddress /\ (Full \/ Free = {})
          /\ refused' = TRUE
          /\ UNCHANGED <<adding, socket, since, mishaps>>
       \/ /\ GetCount > PerAddress
          /\ UNCHANGED <<adding, socket, since, refused, mishaps>>
  /\ UNCHANGED <<clock, noOp, verifying, count, fields, frame, left, reader, sends, loop>>

Stamp ==
  /\ adding # 0
  /\ inTime' = [inTime EXCEPT ![adding] = clock]
  /\ adding' = 0
  /\ BeginCount("accept")
  /\ mishaps' = mishaps \cup Crossed("accept")
  /\ UNCHANGED <<world, verifying, len, socket, opTime, shaken, verified,
                 playing, clients, loop, refused>>

----------------------------------------------------------------------------
(* WebSocket::run.                                                         *)

Unverified(s) == NoVerify > 0 /\ clock - inTime[s] > NoVerify /\ s \notin verified
Idle(s) == NoGame > 0 /\ clock - inTime[s] > NoGame /\ s \notin playing
Inactive(s) == noOp > 0 /\ clock - opTime[s] > noOp

(* !onread.                                                                *)
TimedOut(s) == Unverified(s) \/ Idle(s) \/ Inactive(s)

Looping(place) == at = place /\ "select" \notin counting

NoClient == UNCHANGED <<world, verifying, count, socket, fields, clients,
                        adding, refused, mishaps>>

NextSlot ==
  \/ i < MaxPlayers /\ i' = i + 1 /\ UNCHANGED at
  \/ i = MaxPlayers /\ i' = 1 /\ at' = "select"

(* The set is filled; whoever has timed out is closed.                     *)
Fill ==
  /\ Looping("fill")
  /\ \/ /\ socket[i] = "free"
        /\ UNCHANGED <<fdread, bad>>
        /\ NoClient
     \/ /\ socket[i] # "free" /\ ~TimedOut(i)
        /\ fdread' = fdread \cup {i}
        /\ bad' = (bad \/ socket[i] = "closed")
        /\ NoClient
     \/ /\ socket[i] # "free" /\ TimedOut(i)
        /\ Remove("select", i)
        /\ mishaps' = mishaps \cup Crossed("select") \cup Met("half-added", adding = i)
        /\ UNCHANGED <<fdread, bad>>
  /\ NextSlot
  /\ UNCHANGED <<viewer, gone>>

Readable == {s \in fdread : frame[s] # "none" \/ s \in left}

(* select fails when a handle is none, and leaves the set as it was.       *)
SelectReturns ==
  /\ Looping("select")
  /\ \/ /\ bad
        /\ at' = "serve"
        /\ UNCHANGED fdread
     \/ /\ ~bad
        /\ fdread' = Readable
        /\ at' = IF Readable = {} THEN "fill" ELSE "serve"
  /\ gone' = FALSE /\ bad' = FALSE
  /\ UNCHANGED <<i, viewer>>
  /\ NoClient

(* Another round, when a message has been read or the slots are through.   *)
NextRound == at' = "fill" /\ i' = 1 /\ fdread' = {} /\ UNCHANGED <<viewer, bad, gone>>

Served ==
  /\ Looping("serve") /\ fdread = {}
  /\ NextRound
  /\ NoClient

(* The slots of the set are served in the order of their indices.          *)
Serving(s) == Looping("serve") /\ fdread # {} /\ s = Min(fdread)
ServedOne(s) == fdread' = fdread \ {s} /\ UNCHANGED <<at, i, viewer, bad>>

(* The test of ret before recv is meant for select, but sees what the recv  *)
(* of the slot before has left there.                                      *)
CloseNext(s) ==
  /\ Serving(s) /\ gone
  /\ Remove("select", s)
  /\ mishaps' = mishaps \cup Crossed("select")
  /\ ServedOne(s)
  /\ UNCHANGED gone

Receiving(s) == Serving(s) /\ ~gone

(* recv fails, returns 0, or less than a frame.                            *)
ReceiveEnd(s) ==
  /\ Receiving(s)
  /\ \/ socket[s] = "closed" /\ gone' = FALSE
     \/ socket[s] = "open" /\ frame[s] = "none" /\ s \in left /\ gone' \in BOOLEAN
     \/ socket[s] = "open" /\ frame[s] = "short" /\ gone' = FALSE
  /\ Remove("select", s)
  /\ mishaps' = mishaps \cup Crossed("select")
       \cup Met("others-readable", gone' /\ fdread # {s})
  /\ ServedOne(s)

(* recv fills the whole buffer: the loop reads one byte more.              *)
ReceiveFull(s) ==
  /\ Receiving(s)
  /\ socket[s] = "open" /\ frame[s] = "full"
  /\ frame' = [frame EXCEPT ![s] = "none"]
  /\ mishaps' = mishaps \cup {"full-buffer"}
  /\ at' = "one-more" /\ i' = s
  /\ UNCHANGED <<world, verifying, count, socket, fields, left, since, sends,
                 reader, adding, viewer, fdread, bad, gone, refused>>

ReceiveOneMore ==
  /\ Looping("one-more")
  /\ socket[i] # "open" \/ frame[i] # "none" \/ i \in left
  /\ NextRound
  /\ \/ NoClient
     \/ /\ socket[i] = "open" /\ i \notin shaken
        /\ Shake(i)
        /\ UNCHANGED <<world, verifying, count, socket, inTime, opTime, verified,
                       playing, frame, left, since, sends, adding, refused, mishaps>>

Took(s) ==
  /\ socket[s] = "open"
  /\ frame' = [frame EXCEPT ![s] = "none"]
  /\ UNCHANGED <<world, left, since, sends, adding, refused>>

(* Before the handshake, whatever comes is taken for a header (hack), with a *)
(* key in it or without.                                                   *)
ReceiveHeader(s) ==
  /\ Receiving(s) /\ s \notin shaken /\ frame[s] \in {"text", "bye"}
  /\ Took(s) /\ NextRound
  /\ \/ frame[s] = "text" /\ Shake(s)
     \/ UNCHANGED <<shaken, reader>>
  /\ UNCHANGED <<count, socket, inTime, opTime, verifying, verified, playing, mishaps>>

Message(s) == Receiving(s) /\ s \in shaken /\ frame[s] = "text"

(* A frame without an effect on the slots, "in room", "leave room".        *)
ReceiveFrame(s) ==
  /\ Message(s)
  /\ Took(s) /\ NextRound
  /\ \/ UNCHANGED playing
     \/ s \in verified \ playing /\ playing' = playing \cup {s}
     \/ s \in playing /\ playing' = playing \ {s}
  /\ UNCHANGED <<count, socket, inTime, opTime, shaken, verifying, verified, reader,
                 mishaps>>

ReceiveShot(s) ==
  /\ Message(s) /\ s \in playing
  /\ Took(s) /\ NextRound
  /\ opTime' = [opTime EXCEPT ![s] = clock]
  /\ UNCHANGED <<count, socket, inTime, shaken, verifying, verified, playing, reader,
                 mishaps>>

(* "verify account" starts a thread; a second one for the slot is left out   *)
(* while the first runs.                                                    *)
ReceiveVerify(s) ==
  /\ Message(s) /\ s \notin verifying
  /\ Took(s) /\ NextRound
  /\ verifying' = verifying \cup {s}
  /\ UNCHANGED <<count, socket, fields, reader, mishaps>>

(* "kick user" closes the handle of a copy of the slot, and counts it; the  *)
(* slot stays.                                                             *)
ReceiveKick(s) ==
  /\ Message(s) /\ s \in verified
  /\ Took(s) /\ NextRound
  /\ \E r \in Slot \ {s} :
       /\ socket[r] # "free"
       /\ socket' = [socket EXCEPT ![r] = "closed"]
  /\ BeginCount("select")
  /\ mishaps' = mishaps \cup Crossed("select") \cup {"copy-kicked"}
  /\ UNCHANGED <<len, fields, verifying, reader>>

(* "view online": a message in parts, of which each slot with a socket gives  *)
(* one.  The slot of the client may be cleared meanwhile, and given to       *)
(* somebody else.                                                          *)
ReceiveView(s) ==
  /\ Message(s) /\ s \in verified
  /\ Took(s)
  /\ SendTo(s, FirstPart)
  /\ at' = "view" /\ i' = 1 /\ viewer' = s
  /\ UNCHANGED <<fdread, bad, gone, count, socket, fields, verifying, mishaps>>

Broke(kind) ==
  mishaps' = mishaps \cup
    Met(kind, \E s \in Slot : reader'[s] = "nothing" /\ reader[s] # "nothing")

View ==
  /\ Looping("view")
  /\ IF socket[i] # "free" THEN SendTo(viewer, Part) ELSE UNCHANGED reader
  /\ \/ i < MaxPlayers /\ i' = i + 1 /\ UNCHANGED at
     \/ i = MaxPlayers /\ i' = 1 /\ at' = "view-end"
  /\ Broke("slot-reused")
  /\ UNCHANGED <<viewer, fdread, bad, gone, world, verifying, count, socket, fields,
                 frame, left, since, sends, adding, refused>>

ViewEnd ==
  /\ Looping("view-end")
  /\ SendTo(viewer, LastPart)
  /\ at' = "fill" /\ i' = 1 /\ viewer' = 0 /\ fdread' = {}
  /\ Broke("slot-reused")
  /\ UNCHANGED <<bad, gone, world, verifying, count, socket, fields, frame, left,
                 since, sends, adding, refused>>

(* A close frame, or one that is not masked: fmsg answers -1.               *)
Bye(s) == socket[s] = "open" /\ s \in shaken /\ frame[s] = "bye"

ReceiveBye(s) ==
  /\ Receiving(s) /\ Bye(s)
  /\ Remove("select", s)
  /\ mishaps' = mishaps \cup Crossed("select")
  /\ NextRound

Select ==
  \/ Fill \/ SelectReturns \/ Served \/ ReceiveOneMore
  \/ View \/ ViewEnd
  \/ \E s \in Slot :
       \/ CloseNext(s) \/ ReceiveEnd(s) \/ ReceiveFull(s)
       \/ ReceiveHeader(s) \/ ReceiveView(s)
       \/ ReceiveFrame(s) \/ ReceiveShot(s) \/ ReceiveVerify(s)
       \/ ReceiveKick(s) \/ ReceiveBye(s)

----------------------------------------------------------------------------
(* sendmsg of the other threads.                                           *)
SendMsg(s) == SendTo(s, Whole)

(* Thread::fish tells everybody in a room of a new fish.                    *)
SendFish(s) ==
  /\ s \in playing
  /\ SendMsg(s)
  /\ Broke("frame-between")
  /\ UNCHANGED <<world, verifying, count, socket, fields, frame, left, since,
                 sends, adding, loop, refused>>

(* A verifyAccount thread throws out whoever its account shows (its message   *)
(* 'offline' before that is left out: the connection ends), logs its client  *)
(* in, or has another answer for its slot, whoever has that by now.          *)

ThrowOut(s) ==
  /\ "verify" \notin counting
  /\ verifying # {}
  /\ socket[s] # "free" /\ s \in verified
  /\ Remove("verify", s)
  /\ bad' = (bad \/ s \in fdread)
  /\ fdread' = fdread \ {s}
  /\ mishaps' = mishaps \cup Crossed("verify")
                  \cup Met("closed-under-select", s \in fdread)
  /\ UNCHANGED <<at, i, viewer, gone>>

Verify(s) ==
  /\ s \in verifying
  /\ socket[s] = "open" /\ s \in shaken \ verified
  /\ verifying' = verifying \ {s}
  /\ verified' = verified \cup {s}
  /\ SendMsg(s)
  /\ UNCHANGED <<world, count, socket, inTime, opTime, shaken, playing,
                 frame, left, since, sends, adding, loop, refused, mishaps>>

Answer(s) ==
  /\ s \in verifying
  /\ verifying' = verifying \ {s}
  /\ SendMsg(s)
  /\ Broke(IF s \in shaken THEN "frame-between" ELSE "slot-reused")
  /\ UNCHANGED <<world, count, socket, fields, frame, left, since,
                 sends, adding, loop, refused>>

(* The clients, and time.                                                  *)
Send(s, f) ==
  /\ socket[s] = "open" /\ s \notin left /\ frame[s] = "none"
  /\ sends < MaxSends
  /\ frame' = [frame EXCEPT ![s] = f]
  /\ sends' = IF s \in shaken THEN sends + 1 ELSE sends
  /\ UNCHANGED <<world, verifying, count, socket, fields, left, reader, since,
                 adding, loop, refused, mishaps>>

GoAway(s) ==
  /\ socket[s] = "open" /\ s \notin left
  /\ left' = left \cup {s}
  /\ UNCHANGED <<world, verifying, count, socket, fields, frame, reader, since,
                 sends, adding, loop, refused, mishaps>>

Tick ==
  /\ clock < Epoch + MaxTicks
  /\ clock' = clock + 1
  /\ UNCHANGED <<noOp, verifying, connects, count, socket, fields, clients, adding, loop,
                 refused, mishaps>>

Next ==
  \/ Connect \/ Stamp
  \/ Select
  \/ \E c \in Counter : EndCount(c)
  \/ \E s \in Slot : SendFish(s) \/ Verify(s) \/ Answer(s) \/ ThrowOut(s) \/ GoAway(s)
  \/ \E s \in Slot, f \in {"text", "short", "full", "bye"} : Send(s, f)
  \/ Tick

Spec == Init /\ [][Next]_vars

----------------------------------------------------------------------------
(* What a client may be closed for: it went away, it sent no whole frame,  *)
(* or it was too slow to log in, to play or, in a game, to shoot.          *)
Deserved(s) ==
  \/ s \in left \/ frame[s] \in {"short", "bye"}
  \/ NoVerify > 0 /\ clock - since[s] > NoVerify /\ s \notin verified
  \/ NoGame > 0 /\ clock - since[s] > NoGame /\ s \notin playing
  \/ noOp > 0 /\ s \in playing /\ clock - opTime[s] > noOp

(* no_op_timeout is for the time between two operations in a game          *)
(* (setting.hpp:16), but is applied to every slot (websocket.hpp:242).     *)
NotInGame(s) == noOp > 0 /\ s \notin playing

(* The select loop closes nobody for nothing, but for no_op_timeout, unless *)
(* it saw a slot before its in_time was set (player.hpp:55) or a client of  *)
(* a slot before it went away in the same round (websocket.hpp:91, 98).    *)
NobodyClosedForNothing ==
  [][\A s \in Slot :
       (socket[s] = "open" /\ socket'[s] = "free" /\ "select" \in counting' \ counting)
         => \/ Deserved(s) \/ NotInGame(s)
            \/ mishaps' \cap {"half-added", "others-readable"} # {}]_vars

(* The select thread waits for one client, and lets all others wait, only  *)
(* when a handle of its set was closed by another thread or by a kick, or   *)
(* has never been one (websocket.hpp:44), or a frame has filled its buffer   *)
(* to the last byte (websocket.hpp:106).                                   *)
WaitsForOne(s) ==
  /\ Receiving(s) \/ (Looping("one-more") /\ s = i)
  /\ socket[s] = "open" /\ frame[s] = "none" /\ s \notin left
WaitsOnlyInSelect ==
  (\E s \in Slot : WaitsForOne(s)) =>
    mishaps \cap {"copy-kicked", "closed-under-select", "accept-failed", "full-buffer"} # {}

(* Players::add turns somebody away only when every slot is taken, or one  *)
(* has been freed this moment and not counted off yet, unless two threads  *)
(* have counted at once: a len-- that was lost is lost for good.           *)
RefusedOnlyWhenFull ==
  [][refused' # refused =>
       Free = {} \/ counting # {} \/ "counted-at-once" \in mishaps]_vars

(* entry.hpp:241: a client gets messages, each whole or its parts one after   *)
(* the other, the last of them marked, and nothing before the answer to its   *)
(* handshake; unless Thread::fish or a verifier sends it a frame between two  *)
(* parts, or parts or a verifier's answer go on to a slot that was cleared    *)
(* and given away.                                                         *)
FramesWhole ==
  \A s \in Slot :
    /\ reader[s] = "part" => s = viewer
    /\ reader[s] \in {"message", "part"} => s \in shaken
    /\ reader[s] = "new" => s \notin shaken
    /\ reader[s] = "nothing" => mishaps \cap {"frame-between", "slot-reused"} # {}
=============================================================================
