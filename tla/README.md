# TLA+ specifications of fish-cpp

fish-cpp is a Windows game server: clients connect over WebSocket, log in to an
account, sit down in a room of four seats, shoot bullets at fish, and win or
lose coins that are kept in MySQL. This directory models the parts of it that
keep state, checks the models with TLC and proves the most important invariants
with TLAPS. The repository has no document of its own and no tests beyond what
`main` tries out on its way, so the code and its comments (in Chinese, encoded as
GBK) are the only reference. `PROJECT.json` lists the components, runs, mutants,
hazards, findings and theorems, and maps each definition to the lines it models.

- [1. The program](#1-the-program)
- [2. Modules, and how they correspond to the code](#2-modules-and-how-they-correspond-to-the-code)
- [3. What the runs check and show](#3-what-the-runs-check-and-show)
- [4. Bounds](#4-bounds)
- [5. Fairness](#5-fairness)
- [6. What is proved](#6-what-is-proved)
- [7. What reading and checking the code showed](#7-what-reading-and-checking-the-code-showed)
- [8. What is not modelled](#8-what-is-not-modelled)
- [9. Plan](#9-plan)

## 1. The program

### Threads

The server has no locks but the spin lock of a list. Everything else below is
shared by the threads that run it.

| thread | started in | what it does |
| --- | --- | --- |
| accept | `WebSocket::WebSocket`, the main thread | accepts a connection, counts the address in Redis, fills a slot (`onconnect`, `Players::add`) |
| select | `WebSocket::run` | closes slots on timeout, waits in `select`, receives one message per round and calls its handler in `Entry` |
| fish | `Thread::fish` | walks the rooms: adds fish, moves them, frees killed ones |
| bullet | `Thread::bullet` | walks the rooms: moves bullets, frees spent and expired ones |
| userSave | `Thread::userSave` | saves the User of every slot now and then |
| verifyAccount | one per 'verify account' message | checks the key, looks for the account on other slots, loads the User |
| userLeave | one per slot closed with a User | saves the User a last time and frees it |

### Components

**Connections** (`source/websocket.hpp`, `source/player.hpp`). State: 1024 slots
of `Player` (socket, address, `in_time`, `op_time`, the flags below) and their
count `len`; the `fd_set` and `ret` of the select loop. Operations: connect, add,
receive, close, time out. Hard: three threads change the slots and `len`;
a value tested after something else has overwritten it; a `recv` that blocks.
Right means: a client is closed only for a reason, a client is turned away only
when the server is full, and the select thread waits for all clients and never
for one.

**Sessions** (`thread/thread.hpp`, `source/player.hpp`, `source/entry.hpp`). State:
per slot `uid`, `user`, `kick`, `save_uid`, `closeing`; the User objects.
Operations: verify an account (check, scan for another login, throw it out,
load), close, kick, leave. Hard: the slot is read before a database call and
written after it; two threads close one slot; two threads log one account in.
Right means: a User is saved and freed once, none is lost, none is freed while
a slot still has it, and an account is online once.

**Coins and kills** (`source/user.hpp`, `thread/thread.hpp`, `db/mysql.hpp`). State:
`coin`, `backup_coin` and `killfish` of a User; the balance, its log and the kill
rows in the database. Operations: load, play, save by either thread, free, 'exit'.
Hard: read, add and write in separate queries by several threads over one
connection; failing queries; a process that ends in the middle. Right means: every
coin won, lost or paid in reaches the account, every kill is counted once, and the
log explains the balance.

**Room table** (`source/room.hpp`). State: `_rooms`, `_curr`, the four seats of a
room, its two lists; `room` and `roompos` of a slot. Operations: find a room,
sit down, leave, kick. Hard: a kick works on a copy of the slot; the search never
goes back. Right means: a seat and its player agree, a room has its lists while
somebody sits in it, a seat is given only when it is free and exists.

**Play** (`source/entry.hpp`, `source/fishs.hpp`, `source/bullets.hpp`,
`thread/thread.hpp`). State: the two lists of a room with ids, `lock`, `isdel`,
`expire`; coins. Operations: shoot, hit, leave, and what the two threads do. Hard:
handlers look a node up, and use it after another thread may have freed it.
Right means: a fish pays once, nobody is paid for more than he shot, ids are
unique among what is alive, nobody touches a freed node, killed fish go away.

**Lists and their lock** (`source/fishs.hpp`, `source/bullets.hpp`). State: `_lock`,
`_head`, `_curr`, the links. Operations: create, destroy, clear. Hard: the lock is
tested and set in two steps. Right means: one thread at a time, a well-formed
list after every call, nobody waits for ever.

**Allocator** (`init/memory.hpp`). State: a region cut into three classes of blocks
(50, 200 and 1000 bytes), a bitmap of the blocks handed out, per class a cursor
(row 6) and a count (row 7), totals. Operations: allocate, free. Hard: index
arithmetic at the limits, rows of `u_int`, a search in two directions. Right
means: blocks never overlap, and the heap is used only when a class is full.

**Settings and frames** (`init/setting.hpp`, `header/mystring.h`,
`Entry::setSetting`). State: the list of all settings, the level lists, the timeouts
in use. Operations: load from the database, set by a message. Hard: texts and
length fields are taken apart by hand, at the edges of which an end of 0, a length
of 127 or a value that is NULL means something else. Right means: the levels are
the lines of the row in order, and a message arrives as it was sent.

**Configuration and start** (`init/cnf.hpp`, `main.cpp`). State: the entries of
`fish.conf`, at most 49; how far `main` has come. Operations: parse, look up, set up,
connect, serve. Hard: `fgets` cuts long lines, a size is multiplied in an `int`, any
part may be missing. Right means: a line is one entry, the first of a key counts.

**Texts and Json** (`header/explode.hpp`, `header/copystr.h`, `header/strpos.h`,
`source/simple_json.hpp`). State: the fields of a text; the nodes to be printed, the
pairs of a message. Operations: explode; push, print, parse, look up by path, clear.
Hard: lengths counted at one place and written at another, cursors that are moved
once too often, links that are left unset. Right means: nothing is written past its
end, a printed text is taken apart into what it was printed from.

**Task rules** (`source/task.hpp`). State: the tasks with times, conditions and
articles. Operations: load, ask whether a User has completed any. Hard: loops that
advance on some paths only, an answer overwritten by the next condition. Right
means: the question is answered, and answered yes when all conditions are met.

**Handshake** (`source/websocket.hpp`, `header/base64.h`, `header/sha1.h`). Operations:
find the key in the header, hash it, encode it. Hard: padding, block boundaries, a
header in two parts. Right means: the answer is the one the protocol asks for.

**Dispatch** (`source/entry.hpp`) has no state of its own; its handlers are in the
modules of what they change. **Database and Redis clients** (`db/`) are where they are
used. **Leftovers** (`run.h`, `source/link.hpp`, `test.hpp`, `redis/`, `win32fixes.*`)
are unused or third-party code.

### How they interact

The accept thread fills a slot; the select thread reads a message from it and
calls a handler; the handler changes the slot, the room, the lists or the User,
and may start a verifyAccount or userLeave thread; those threads write the same
slot and User when their queries return. The fish and bullet threads meet the
handlers only at the lists of a room, the saving threads meet them only at
`User::coin` and `killfish`, and everybody meets in the allocator, which has no lock. The modules follow these
seams: each takes what is shared at one seam, and says in its heading which module
has the other side.

## 2. Modules, and how they correspond to the code

| module | models | composes or refines |
| --- | --- | --- |
| `Rooms` | the room table and the handlers that sit down and leave | |
| `MemoryPool` | `memory_alloc`, `memory_free`, layout, cursors, counters, one call at a time | |
| `PoolRace` | the same calls overlapping, cut between test and write of a bit | extends `MemoryPool`; refines it until two calls meet |
| `SpinLock` | the lock of a list, statement by statement | |
| `NodeSeq` | what a list promises: a sequence that each call changes in one step | abstract |
| `LinkedList` | `create`, `destroy`, `clear` on pointers, under the lock | instantiates `SpinLock`; refines `NodeSeq` |
| `Game` | shooting in one room against the fish and the bullet thread | refines `NodeSeq` twice, for its fish and its bullets: calls only what `LinkedList` implements |
| `Sessions` | log in, close, kick, leave, by User and slot; the key in the message | |
| `Saving` | coins and kills of one account through load, play, save and 'exit' | takes from `Sessions` that an account may have two Users |
| `Connections` | accept, select loop, timeouts, closing; what a client reads | |
| `Texts` | `copy_str`, `strpos`, `strneq`, `Explode`, on sequences of characters | |
| `Parsing` | `parseString`: a text taken apart into pairs; the value of a key | extends `Texts` |
| `Json` | what is pushed and printed (`push`, `toJson`), found by path, cleared | extends `Parsing` |
| `Config` | `fish.conf`, from text to entries, and what is asked of them | extends `Texts` |
| `Settings` | level lists from text to sorted list; a 'set setting' message from frame to list | extends `Parsing` |
| `Handshake` | `hack`, SHA-1, base64 | |
| `Tasks` | task rules | |
| `Boot` | `main` up to the databases, with the trials of `Explode` and `Task` | composes `Config`, `Tasks` |
| `Startup` | all of `main`: with `Boot` the trials of Json and of a handshake, the settings | composes `Boot`, `Settings`, `Json`, `Handshake` |

`MC_*` modules add symmetry sets and state constraints; `MC_Startup` has the texts.
`*_proofs` modules hold the theorems of the module they are named after,
`LinkedList_proofs` those of `SpinLock`, `MemoryPool_proofs` those of `PoolRace` and
`Boot_proofs` those of `Settings` as well. `Boot` and `Settings` (with `Parsing`) are
modules apart from `Startup` because they need no RECURSIVE operator, which the
prover does not take: their functions on texts are recursive functions on places.

**Common conventions.** A thread is a "program counter" (`at`, `removing`,
`fishAt`, ...) where its code is cut, and its local variables. It is cut only
where another thread can come in between and make a difference, that is at
database calls and where it tests or sets a field others look at. Names are those
of the code wherever TLA+ allows it.

**Histories, and "mishaps".** Much of what should hold of this code holds only as
long as certain orders of events do not occur. Such a model records in `mishaps`
(`raced` in `SpinLock`, `emptied` in `Game`, `kicked` and `evicted` in `Rooms`) the
*kinds* of unlucky order met so far, and a property names exactly those kinds
it needs to exclude. That says more than a plain "violated": it says the property
is safe from everything else, and each exemption is needed: without it TLC
finds a counterexample. A history never guards an action.

**Faults.** Undefined behaviour (a freed node or User is used) ends a behaviour:
the variable `fault` says who did it, and no action is enabled afterwards. The
properties say which orders can lead there.

Notes on the single modules:

- `Rooms`: a handler is one step, because only the select thread runs these.
  The kick from a verifying thread, which may overlap with it, is in
  `Sessions` with what it does to the User; here it is one step like the others.
  The read past the table after a full sweep is `overrun`, after which nobody
  sits down any more.
- `MemoryPool`: addresses are offsets from `first_ptr`, the heap is outside. `UInt`
  is the width of a `u_int`, in which `memory_init` multiplies.
- `PoolRace`: a call looks for a bit and reads its byte in one step, and writes the
  byte in another. The search is one step: a bit that changes under the search makes
  its calls meet as well. It stops where a call writes although another one of the
  same class or the same byte is about to.
- `SpinLock`: the empty loop on a plain `int` is taken to reread it. A compiler
  may hoist the read; then a thread that has to wait at all waits for ever.
- `Game`: bullets and fish are memory blocks, handed out again after `free`.
  Left out: the moment between `_malloc` and `init` of a room's `Fishs`, the fish
  that is leaked when it is created between `clear` and the pointer's reset,
  a fish index outside the configured kinds, coordinates, and messages.
- `Sessions`: every User allocated gets a fresh identity, so that the use of a
  dead one is seen even if the block has been handed out again. `tmp` says to each
  verifier whose key it will find in its slot. Left out: `len` (in `Connections`),
  `Rooms::leave` (in `Rooms`), the steps of a save (in `Saving`).
- `Saving`: other programs pay into the account (`Deposit`). A query that fails
  reads as 0, as `Mysql::first_num` does; a failed UPDATE or INSERT goes unnoticed.
  Kills are of one kind of fish, `rows` are the rows of `user_values` in order of
  their ids. The query for a User's tasks has its WHERE before its JOIN and always
  fails, so `save`'s loop over them has nothing to do. `Exit` ends the process
  wherever the savers are and starts an empty one.
- `Settings`: a text is a sequence of characters, because it is the taking apart that
  can go wrong. A message is a text as a client may write it (`Written`: the op first or
  the data, names in signs of either kind or in none, spaces or none), whole or cut where
  its length says (`Cut`); `Read` is what `setSetting` gets of it. `user_vip_level` and the
  other timeouts, which the code treats alike, are left out, and so are two rows with
  one key. The client's side of a frame is the standard's.
- `Connections`: assumed of the library and outside `src/`: `select` fails and
  leaves the set as it was when a handle in it has been closed; `recv` returns at
  most one frame; a number is not reused for another handle; a `recv` on a client
  that is silent blocks; Redis answers. One address stands for all, since only its
  count is looked at. `accept` may fail, and its result is stored untested. A `send`
  is one step; `viewOnline` is the reply in parts that others can come between. A
  verifyAccount thread here throws a connection out, logs its client in, or gives
  another answer, to whoever has the slot by then; which of them it does, and why, is
  in `Sessions`. A second verifier for one slot is left out here.
- `Texts`, `Parsing`, `Json`: a number is a text without a sign, a name an unbroken sequence. What lies
  behind the end of a text is not known: a function that gets there says `past`.
  `push` counts the room a node needs, `ToJson` writes: they are two definitions, as
  they are two functions in the code, and a property compares them.
- `Boot`, `Startup`: each trial takes one input and keeps the outcome in `trial`, where the
  properties find it. `main` makes its trials once and with fixed texts; here they are
  made with all of the run's. What `main` forgets the model forgets. `BootSpec` is `Boot`
  alone, with a step `Later` for all that `Startup` adds to it: such a step leaves the
  configuration alone and makes no trial of `Explode` or `Task`.
- `Handshake`: a 32-bit word is a pair of halves, since TLC's integers are 32 bits
  wide and signed. The expected answers in `MC_Startup` were computed independently of
  the code.

## 3. What the runs check and show

States are distinct states; times are for two workers.

| run | question | states | time |
| --- | --- | --- | --- |
| `rooms` | do seats and table agree, and when is the table overrun? | 45 k | 6 s |
| `pool` | do blocks overlap, are free blocks found, do counters count, are overlapping calls as good as others? | 101 k | 46 s |
| `game` | who is paid, and who touches a freed node? | 3.9 M | 70 s |
| `game_live` | is a room's number of fish bounded, do killed fish go away? | 205 k | 46 s |
| `list` | is the list well formed, is each call one step, does somebody get in? | 166 k | 13 s |
| `sessions` | are Users left once, kept, live, accounts online once, keys the sender's own? | 1.67 M | 62 s |
| `sessions_live` | does every login end, and is a closed User saved? | 234 k | 30 s |
| `sessions_saving` | (violated) is an account locked out while it is saved? | | |
| `sessions_forced` | (violated) is a forced login honoured? | | |
| `saving` | does every coin and every kill reach the account, also over an exit? | 3.6 M | 52 s |
| `connections` | who is closed, turned away, waited for, and what does a client read? | 6.2 M | 120 s |
| `startup` | are settings, configuration, texts, Json, tasks and handshakes read as they are written? | 31 k | 20 s |

**rooms.** `SeatsAgree`: `room`/`roompos` of a player and the table agree, unless
he was kicked (the kick leaves the room with a copy of the slot), or his seat was
freed by the stale numbers of a kicked one. `ListsWhileOccupied`: `toShot` and
`hitFish` use the lists without a test. `OverrunNeedsFullSweep`: the table is read
past its end only after all `4 * max_room` seats were handed out, however many
have been vacated. `RoomsBehindStayClosed`: nobody is ever seated in a room
`_curr` has left behind, or on an occupied seat.

**pool.** `BlocksDisjoint`, `BitsAreLive` (a bit is set iff somebody has its block),
`CountsExplained` (row 7 is the blocks in use, plus every small request that ever
went to the heap, which is also what 'server info' shows), `FallbackOnlyWhenFull`.
`OneAtATime`: calls that overlap do what calls one after the other do, unless two of
them work at one class, or at two classes whose bits share a byte. `memory_init` makes the smallest region
1250 bytes: five, three and one blocks. With requests of 200 (the largest of the
second class), 201 (the smallest of the third) and 1001 bytes (none), the second and
the third class fill, and their cursors pass their size.

**game, game_live.** `FishPaysOnce`; `BulletsCoverKills` (kills paid plus bullets
that may still be paid never exceed bullets bought); `IdsUnique` with `MAX_INT`
so small that ids wrap; `SafeUntilCleared` (neither hitFish nor one of the two threads
has a freed node in its hands until the last player has left and cleared the lists);
`FishBounded` with a spare block in memory; `KilledFishReaped`.

**list.** `WellFormed` (whenever nobody is inside, the links are a list in both
directions of exactly the allocated nodes, and the length is their number); `ExclusiveUntilRace`; `EachCallIsOneStep`: the
pointer program refines `NodeSeq` as long as the lock has not been raced for;
`SomebodyGetsIn`: when threads wait for the lock, one of them enters. Deadlock is
checked here, because a thread can always call again.

**sessions, sessions_live.** See the comments of `SavedOnce`, `UsersLive`, `OneLogin`
and `KeyIsOwn`. Mishaps: two verifiers for one account passed the scan together
("same-account"); two for one slot ("same-slot"); two threads past the test of
`closeing` ("two-closers"); a verifier finishes on a slot closed meanwhile ("late"); a
slot is verified twice ("again"); a kick by copy ("copy"); an account met on a slot
being closed ("passed-over"); the message is cleared before its key is read
("key-freed").

**saving.** `CoinsKept`, `LogExplainsBalance`, `FreedIsSaved`, `KillsKept`. Mishaps:
play changes `coin` or a count inside a save ("played"), a deposit or another saver
comes between read and write ("deposit", "two-savers"), a query fails ("read-failed",
"write-failed"), a save overwrites a row another User has counted in ("shared"), an
entry that has been inserted is counted in and inserted once more, or by two savers at
once ("again"), the process ends ("exit"), and does so between two queries ("cut").

**connections.** `NobodyClosedForNothing`, `RefusedOnlyWhenFull`,
`WaitsOnlyInSelect`, `FramesWhole` (the parts of a message reach the client one after
the other). Mishaps: two threads count `len` at once
("counted-at-once"); the select loop sees a slot with
a socket and no `in_time` yet; a client goes away while others are readable in the same
round; a frame fills the buffer; a kick by copy; a handle of the set closed by another
thread; an `accept` that fails; a frame of `Thread::fish` or a verifier sent between two parts;
a slot given away between two parts, or before a verifier has answered.

**startup.** `LevelsRead`: the levels are the lines of the row, each as often as it
is there, the highest first, unless an empty line precedes a colon or the list has
been set at run time. `ArrivesWhole`: a message arrives whole unless it is 127 or more
than 255 bytes long, and the server survives it unless it was cut or a value was
empty. `ConfRead`: a line is one entry however long it is, and memory is what is asked
for. `ExplodeExact`: the fields are those a reference definition finds, unless a part
of the delimiter stands alone in the text. `JsonExact`: what is printed fits its room,
parses back, is found by path, and can be cleared, with the exceptions it names.
`TasksReturn`: `complete` comes back unless a task is out of its time, and a task with
two kinds of condition is never done. `HandshakeAnswers`: the answers are those of
RFC 6455, for keys on all sides of the limits.

For every property of a passing run PROJECT.json has a mutant: a change of one
definition the way a slip in that code would change it, under which TLC finds the
property violated.

## 4. Bounds

Bounds of the models are marked "bound of the model" at their CONSTANT; the rest
are constants of the code given small values.

- `rooms`: five players and two rooms of four seats: a room fills and overflows
  into the next; nine entries (`MaxEntries`) sweep the table and overrun it.
- `pool`: four holders, requests at both sides of two limits, five allocations
  (`MaxMallocs`): more than the blocks of the classes asked for. All bits of the three
  classes are in two bytes, so classes share one.
- `game`: two players with two shots each, two fish and two bullet blocks, ids 1 to
  3: a block is reused while an old pointer to it is held, and ids wrap.
  `game_live` takes one player, and three fish blocks for at most two fish, so that
  a third could be created were the test wrong.
- `list`: three threads and three nodes: a middle node, two waiters behind one inside.
- `sessions`: two slots, accounts and verifiers, three Users: an account on both
  slots, each with a User, and one more loading. At most two kinds of mishap meet in
  one behaviour (`FewMishaps`), and none after a key was read freed: each exemption is of one kind, so pairs show both
  that it is enough and how two interact. The liveness run has one account.
- `saving`: two Users of one account, two plays, one deposit, exits at any point. A
  behaviour is followed up to the second kind of mishap other than an exit, and up to
  the third play or deposit (`Few`): two are enough for one to fall into a save and one
  after it.
- `connections`: two slots, five connections, messages and seconds together (`Short`;
  at most three messages and two seconds, so that a client can ask for verification, be
  logged in and ask for a view) and one kind of mishap. `Epoch` is larger than
  every timeout, as the clock is.
- `startup`: numbers of the code are made small where texts would be long otherwise:
  nine fields are three, a piece of `fgets` is five characters instead of 49, there is
  room for two entries instead of 49, for one article instead of ten, a K is 4 instead
  of 1024 and an `int` ends at 512. Configuration and levels: up to three lines, of
  ten and of five kinds: three lines need both passes of the sort, and a third
  entry is one too many. Lengths of messages on both sides of 127 and 255, one whose
  low byte is 127 (383). Texts of up to seven characters for `Explode`. Json in three
  levels, each with one or two nodes, and lists. One or two tasks, with and without a
  time, with conditions of no, one and two kinds, asked at three moments. Keys of 19
  to 51 characters, where the padding takes a second block and where the buffer ends.

## 5. Fairness

- `LinkedList`, `SpinLock`: each thread that has begun a call goes on (weak fairness
  per thread): the operating system runs every thread, and none of the steps
  blocks. Nothing makes a thread call, and nothing makes the lock fair:
  `SomebodyGetsIn` does not say who.
- `Game`: the two walking threads are endless loops, and a handler once begun ends;
  no client has to send anything.
- `Sessions`: a verifyAccount or userLeave thread runs to its end (its queries
  return, with an error if need be), and the select thread finishes a removal it
  has begun. No client has to log in or leave, and userSave is not needed.
- The other modules have no liveness property and no fairness: nothing promises that
  a client says or a website pays anything. That `complete` and `clearAdd` come back is
  computed by their operators, which say so when a loop cannot end.

## 6. What is proved

All theorems are of the specifications TLC checks, for every value of the
constants allowed by the named ASSUME of the module.

**Room table** (`Rooms_proofs`). `RoomsSafe`: `Spec => []RoomsInv`, for any number of
rooms and any set of players. `SeatsAgree` is not inductive: that a seat given by
`findRoom` is free needs `CurrentRoomOpen` (the count of the current room says
which seats are taken), that leaving twice stays harmless needs
`ListsWhileOccupied`, and that the overrun comes late needs `SweepAccounting`
(how many entries it took to bring `_curr` where it is). From it follow
`RoomsTyped`, `SeatsAlwaysAgree`, `NoEarlyOverrun` and the action property
`SeatedOnlyAtFront`.

It also gives `ListsThere`, that `toShot` and `hitFish`, which do not test for the
lists, find them.

**Allocator** (`MemoryPool_proofs`). `PoolSafe`: `Spec => []PoolInv` for every size of
the region, set of requests and word size. `PoolInv` adds to the types
`OnePerBlock` (no two holders of a block), `BitsAreLive`, `FreshBeyondCursor` (bits
at or above a cursor that has not wrapped are clear, so that handing out the
cursor's block needs no test) and `CountsExplained`. From it follow `PoolTyped`
(no counter goes below zero), `BitsCovered`, `CountsOff`, `InfoTrue` (what 'server info'
prints), `NoOverlap` (with lemmas on the layout's arithmetic), `FallbackIsFull`, and
`SecondSearchDead`: the downward search after the upward one never finds a block, it
is dead code.

**Allocator under several threads** (`MemoryPool_proofs`, second part). `RaceRefines`: overlapping
calls implement the specification of calls one at a time until two meet, so that
all of the above holds of them too (`RaceNoOverlap` is cited for the run). The
inductive invariant `RaceInv` (`RaceSafe`) says that what a call has found stays as it
found it: its bit can still be picked, and its byte still reads the same. A write
by another call keeps that true, because it neither changes the class's bits and
cursor nor the byte, or else the two would have met. That the invariant is needed
beside `PoolInv` shows at the write, where the model puts back a whole byte.

**Sessions** (`Sessions_proofs`). `SessionsSafe`: `Spec => []SessionsInv`, for any number
of slots, accounts, verifying threads and Users. A User is in one hand: loaded by a
verifier, shown by a slot, or being saved (`VerifiersHold`, `OneOwner`); that none is
saved twice or lost (`EveryUserSavedOnce`) is that fact followed through every handler.
`SlotsShowLiveUsers` needs two more: a slot has one verifier (`OneVerifier`) and what
`uid` shows is what it will load (`UidWaits`). `TwiceOnlineNeedsRace` needs that past the
scan a verifier has its account alone but for slots being closed (`AccountAlone`), and
that one thread closes a slot (`OneCloser`, `ClosersClose`). `OwnKeyRead` needs `Keys`:
which key a verifier would find at each moment. Each part is exempted by name after
exactly the orders that break it.

**Lists and their lock** (`LinkedList_proofs`). `LockSafe` with `LockInv`, on the
specification of the lock alone; `ExclusionNeedsRace`: two threads are in only after a
race; `LockOpensAgain`: however the threads raced, the lock is never left set with nobody
in. `ImplementsLock`: each step of the pointer program is a step of `SpinLock` or leaves
the lock alone; with it the theorems of the lock hold of the lists, `ListExclusion` is the
one the run `list` checks.

The pointers: `ListSafe`: `Spec => []ListInv`, for any threads and nodes. While one
thread at a time is inside, head, tail and links are those of some sequence of nodes
without repetition (`Whole`), or of such a sequence with one node half in or half out, in
the way the statement of the thread inside tells (`AtStatement`). From it follow
`AlwaysWellFormed` and `CallsAreSteps`: each step of the pointer program changes the
sequence as one call of `NodeSeq` does, or not at all.

**Play** (`Game_proofs`). `GameSafe`: `Spec => []GameInv`, for any players, blocks of
memory, shots and size of a room. `FishPaysOnce` needs `PaidIsMarked`: a fish that has
paid is marked or about to be, so nobody finds it again; `BulletsCoverKills` is inductive
with `Hands` (what hitFish holds at each of its steps) and `BulletsOnce`. `IdsUnique`
rests on the lemma `NewIdFree`: since there are no more nodes than ids, going through the
ids from the next one comes to a free one, and `getID` returns the first (the pigeonhole
principle and the least number of a set). `FishBounded` needs `RoomToGrow`: the place that
the fish thread saw before it took the lock stays free, because besides it only a player
who enters a room without lists adds a fish, the first one. `SafeUntilCleared` needs `BeforeClear`: where
each thread stands, its node is still in the list.
`GameUsesLists`: `Spec => FishList!Spec /\ BulletList!Spec`, where both are `NodeSeq`: the
nodes `Game` removes are removed one at a time from a sequence without repetition, and a
cleared list is filled again only from its start. With `CallsAreSteps` it closes the seam
between the two modules: what `Game` takes for one step, the pointer program does in one.

**Coins and kills** (`Saving_proofs`). `SavingSafe`: `Spec => []SavingInv`, for any Users and
plays. `LogExplainsBalance` needs `ReadIsBalance`: but for the orders and faults it names,
one thread at a time is between query and UPDATE, and what it has read is the balance.
`FreedIsSaved` needs `LeaverSaved`: what a leaving User has won is saved or somebody is
still at it; with `SaversWork`, which says who works when.

`CoinsAlwaysKept` and `KillsAlwaysKept` rest on invariants of their own, `CoinsInv` and
`KillsInv`: what the account has and what each User still owes it add up to what came in,
at each point of a save, a load and an exit. The sums are over any finite set of Users
and rows; that a sum changes by what one term changes is proved from the definition of
the fold, by the smallest set for which it would not.

**Connections** (`Connections_proofs`). `ConnectionsSafe`: `Spec => []ConnectionsInv`, for any
number of slots, limits and clients. `TurnedAwayOnlyWhenFull` needs `LenCounts`: until two
threads count at once, `len` is at most the number of slots taken, corrected by who is
being added (`Owed`) or counted off (`Due`); a kick by copy makes it less, never more.
`NoUnjustClose` needs `StampedLater` (a slot is stamped after its client came, so it looks
no older than it is) and, with `NeverWaitsElsewhere`, `SetIsReadable` and `SetIsTaken`:
what may be wrong with a handle in the set, and that every slot in it is taken.
`FramesAlwaysWhole` needs `PartsToViewer`: a client in the middle of a message is the
viewer's, connected and logged in, so that no verifier logs it in once more.

**Configuration, fields and tasks** (`Boot_proofs`), of `BootSpec`, for texts, delimiters,
tables and limits of any size. The definitions are recursive functions on the places of a
text; that each is the function its definition says (`ReadingIs`, `CutsIs`, `EntriesIs`,
`ValueIs`) is proved by induction on the number of places that are settled, since what
`Explode` or `parse` makes of a text from a place on rests on later places only.
`FieldsExact`: the code's comparison, which skips what it has compared, finds the fields
the reference definition finds, because without a stray part of a delimiter it either
compares all of it or nothing (`NoPartNoMatch`). `ConfSafe`: the pieces `fgets` cuts
are such that only the first character of a piece may begin a line (`PieceIs`), so that
the entries go through the lines in order (`Through`, `AllEntries`); `Get` finds the first
of a key because as many lines come before the i-th as there are numbers before i
(`LinesCounted`); and below half a `Word` the products of `get_memory_size` are the true
ones (`MemoryIs`). `TasksSafe`: whatever the rows and times are.

**Settings** (`Boot_proofs`, second part), of `SettingsSpec`: what `Startup`'s
`LoadSettings` and `Serve` do, from any row of `user_level` and with values of any length.
`LevelsSafe`: unless an empty line misleads it, `formatLine` goes from the start of a
line to the start of the next, so that it takes the lines in their order, each once
(`AllLines`, by the same counting of places as for `fish.conf`). The sort is a
bubble sort, of which a pass takes the lowest line to the part that is in order already
(`Lowest`, `Settled`), so that as many passes as there are lines, less one, are enough;
that no line is lost or doubled is a numbering of the lines of the text that is carried
along through each exchange (`Arranged`).

`ArrivesSafe` is about every text a client may write and every place at which it may be
cut. It rests on three facts about `parseString`, whose loop comes to an end on
every text and gives from a place on what one turn of it makes of the rest (`PairsIs`):

- a message that arrives as it was sent is read as it was meant (`WholeReads`): each key,
  value and object is followed place by place through what the client has written;
- a text that is read past its end and still gives all pairs of the message has an object
  that the end breaks off, which they are read from (`PastReads`, from `AllInside`);
- in an object that is broken off each pair with a value has a comma behind it
  (`CommaBehind`). A message has one comma less in its object than it has pairs, so
  that of a message that was cut and is read past its end one pair is missing, and it
  counts as cut (`CutReads`), unless a value was empty.

That it is a length of 127, or above 255, is the arithmetic of `fmsg` on a signed char
(`LengthsRead`). `SettingsAssumption` says of the row only that it is a text, with no NUL
in it, and of a frame that it fits the buffer.

Assumptions are those of the modules: `max_room` is positive, the sets are
finite where they are counted, sizes are natural numbers, the clock starts beyond every
timeout, and there are no more nodes than ids.

Only model-checked:

- the liveness properties `SomebodyGetsIn`, `KilledFishReaped`, `VerifyEnds` and
  `ClosedUserFreed` (fairness and ENABLED are beyond the prover);
- `JsonExact`: it is about trees of nodes, which `Json` prints to any depth by RECURSIVE
  operators, which the prover does not take, and by inductions over trees, which it cannot
  instantiate;
- `HandshakeAnswers`: the answers of RFC 6455 are given to the run as values, computed
  elsewhere; there is no second definition of SHA-1 to prove the first one equal to;
- that each step of `Startup` is one of `Boot` or `Later`, and one of `SettingsSpec` or
  none (read off its five actions; `Startup` declares RECURSIVE operators).

## 7. What reading and checking the code showed

Two comments say what the code does not do; each has a run that TLC refutes
(`findings` in PROJECT.json):

- `header/common.h:40`: an account being saved may not connect. `Players::remove`
  wipes `save_uid` in the statement after it starts the saving thread.
- `header/common.h:37`: a forced login throws the old connection out.
  `Thread::verifyAccount` looks at the flag of the *old* connection's slot.

What the exemptions of the properties document, with the place in the code:

- the lock lets two threads in when both test it before either sets it
  (`fishs.hpp:45`, "防止多线程并发", claims otherwise);
- a fish that hitFish has locked can be destroyed by a fish thread that tested it
  before (`thread.hpp:83`, `88`), and both threads may walk a list that the last
  player has just cleared (`room.hpp:94`);
- two threads that allocate at once may get one block, and a write to the bitmap may undo
  another thread's, also of another class when their bits share a byte (`memory.hpp:139`);
- row 7 of the allocator counts heap requests up and never down (`memory.hpp:116`);
- an account can be online twice, against the status -2 of `entry.hpp:107`: two
  verifying threads look for it before either has set `uid` (`thread.hpp:155`);
- a verifying thread may find its key cleared, missing or overwritten by the next
  message's (`entry.hpp:114`);
- play while `User::save` runs is lost or doubled (`user.hpp:265`);
- a new kill row keeps id 0 in memory after its INSERT and is inserted again by the next
  save (`user.hpp:297`); two Users of one account overwrite each other's counts;
- 'exit' loses what the saves it starts have not written (`entry.hpp:348`);
- a load whose query fails gives a User no coins; because a save adds only what was won
  since, it costs nobody any, but he cannot shoot;
- the query for a User's tasks has its WHERE before its JOIN (`user.hpp`), so a User never
  has tasks;
- a kicked player's slot leaves its room a second time (`entry.hpp:282`);
- a stale `ret` closes the next readable client (`websocket.hpp:91`, `98`), a half
  added slot looks idle since 1970 (`player.hpp:55`), `no_op_timeout` is applied
  outside games too (`setting.hpp:16` and `websocket.hpp:242`), and after a kick, a
  failed `accept` (`websocket.hpp:44`) or a frame of 1023 bytes `recv` may block the
  select thread;
- frames of other threads come between the parts of 'view online', and its remaining
  parts go to whoever gets the slot meanwhile (`entry.hpp:241`);
- a `len--` that is lost takes a slot away for good (`player.hpp:76`);
- `fmsg` keeps only the sign of the high byte of a 16-bit length, and takes a length
  that comes out as 127 for the mark of the 64-bit form (`mystring.h:38`, `43`); a pair
  cut in two, or sent with an empty value, has a NULL value of which `setValue` takes
  the length (`setting.hpp:179`);
- an empty line in a level list makes `formatLine` read past the text
  (`setting.hpp:245`);
- `setValue` answers success, but a key without a row is never linked to the list
  (`setting.hpp:197`), a level list is parsed from the key (`setting.hpp:208`) and
  ends up empty, a timeout in use does not change, and the one for unverified
  accounts is accepted under another spelling (`setting.hpp:111`, `221`) than it is
  loaded.

- a line of `fish.conf` longer than `fgets` takes gives its first piece as the entry and
  its further pieces are dropped (`cnf.hpp:41`); a memory size beyond an
  `int` wraps (`cnf.hpp`);
- `Explode` drops the characters it has compared with a delimiter of two or more that then
  does not match (`explode.hpp:57`);
- `toJson` escapes nothing, lists cannot be parsed back, a space behind a nested object
  loses the rest of the message, a message without pairs leaves `_phead` unset, an empty
  list leaves a byte unwritten in the text and can make `clearAdd` endless
  (`simple_json.hpp:596`), and `valueOfChild` takes a longer key for a name;
- `complete` never returns once a task is before or past its time, and `conditionIsTrue`'s
  answer is overwritten by the next condition's, so a task with two kinds of condition is
  never done (`task.hpp:140`); an eleventh article overwrites `condition`; the row of the
  articles is asked for twice and lost, so nothing is ever given;
- a key of 50 characters puts its NUL behind `sec`, and a header that comes in two parts,
  or spells the name in another case, gets a wrong answer or none (`websocket.hpp:203`).

Read in the code but not modelled: one message is served per round and the loop
starts again from slot 0 (`websocket.hpp:121`), so busy low slots starve high ones;
the count per address is never taken down (`websocket.hpp:143`), so it limits all
connections ever made, in any run of the program.

## 8. What is not modelled

- `run.h` (an older copy of the server), `test.hpp`, `source/link.hpp`: not included by
  anything, or unused; `redis/`, `win32fixes.*` and the libraries are third-party code.
- The texts of replies, `sendmsgToRoom`, 'server info' beyond its counters, logging: they
  read and send only. Coordinates of fish and bullets: no property depends on them.
- Functions nothing calls: `Tasks::find` and `hasMutex`, `Redis::getInt` (whose pattern
  never matches) and `setLock`, `Mysql::getOrItem`, `valueToFloat` and `valueToDouble`,
  `emsg2`, `int2utf8`; and `giveArticle` and `addTask`, which are only called when articles
  were found, which never happens.
- `db/` as such: wrappers, modelled at the queries that use them. That all threads share one
  connection shows up in `Saving` as a query that fails or is disturbed. A Redis that does not
  answer is left out: the code does not look, and counts from garbage.
- Two rows of one setting, `user_vip_level` beside `user_level`, and the timeouts but two:
  the code treats them alike.
- `memory_destroy` is never reached, because the constructor of `WebSocket` never returns.

## 9. Plan

Done, with proofs: `Rooms`, `MemoryPool` and `PoolRace`, `SpinLock` and `LinkedList`,
`Game` on the lists of `NodeSeq`, `Sessions`, `Saving` with kill rows and exit, `Connections`
with the frames a client reads, `Boot`, `Settings`. Done, checked only: the trials of Json
and of the handshake, which `Startup` adds to them.

What could follow, in this order:

1. Longer runs of `connections` with two kinds of mishap in one behaviour; what it proves
   holds with any number of them.
2. `Sessions` with several rooms of `Rooms` under it, so that a kick by copy shows in both
   the User and the seat of one behaviour.
3. Fairness of the select loop among its clients, for which it would have to be changed
   first: as it is, `websocket.hpp:121` starves the higher slots.
