-------------------------------- MODULE Game --------------------------------
(***************************************************************************)
(* Play in one room: the select thread serves toShot, hitFish, inRoom and   *)
(* leaveRoom (source/entry.hpp, source/room.hpp) while Thread::fish and     *)
(* Thread::bullet (thread/thread.hpp) walk the room's two lists             *)
(* (source/fishs.hpp, source/bullets.hpp).                                  *)
(*                                                                         *)
(* A handler is cut where another thread can come in between and matter.    *)
(* What the lists do under their own lock is one step: SpinLock looks at    *)
(* that lock.  Nodes are blocks of memory, handed out again after a free.   *)
(* Every player here is verified and shoots only in the room; sends are     *)
(* left out.  The model stops when a thread touches a freed node or list.   *)
(***************************************************************************)
EXTENDS Integers, Sequences, FiniteSets

CONSTANTS
  Player,
  FishNode,    \* the memory blocks fish live in
  BulletNode,  \* the memory blocks bullets live in
  None,        \* a NULL pointer
  MaxFish,     \* 10: Thread::fish adds a fish to a room that has fewer
  MaxInt,      \* MAX_INT, where getID starts again from 1
  Coin,        \* what a player's account holds at the start
  Reward,      \* what a fish pays
  MaxShots     \* bound of the model: shots of a player

(* A node takes more than a byte: memory holds fewer than there are ids.    *)
ASSUME GameAssumption ==
  /\ None \notin Player \cup FishNode \cup BulletNode
  /\ MaxFish \in Nat \ {0, 1}
  /\ MaxInt \in Nat \ {0, 1}
  /\ IsFiniteSet(FishNode) /\ Cardinality(FishNode) < MaxInt
  /\ IsFiniteSet(BulletNode) /\ Cardinality(BulletNode) < MaxInt
  /\ Coin \in Nat
  /\ Reward \in Nat
  /\ MaxShots \in Nat

VARIABLES
  inside,       \* the players in the room
  coin,         \* User::coin
  fishs,        \* the fish list, oldest first
  fishsGone,    \* Room::fishs is NULL
  fishClearing, \* Fishs::clear is at work, and holds the list's lock
  fishId,       \* Fish::id
  fishNext,     \* Fishs::_id
  locked,       \* the fish with lock set
  killed,       \* the fish with isdel set
  bullets, bulletsGone, bulletClearing, bulletId, bulletNext,
  owner,        \* Bullet::uid
  spent,        \* the bullets with isdel set
  at,           \* what the select thread is doing
  who,          \* for whom
  bullet,       \* hitFish's local variable bullet
  fish,         \* hitFish's local variable fish
  fishAt,       \* what Thread::fish is doing in this room
  fishP,        \* its local variable p
  bulletAt, bulletP,
  shots, kills, \* history: per player
  paid,         \* history: how often a fish has paid since it was created
  emptied,      \* history: the room has been cleared before
  fault         \* which thread touched freed memory, and what

player == <<inside, coin, shots, kills, paid, emptied>>
fishList == <<fishs, fishsGone, fishClearing, fishId, fishNext, locked, killed>>
bulletList == <<bullets, bulletsGone, bulletClearing, bulletId, bulletNext,
                owner, spent>>
select == <<at, who, bullet, fish>>
fishThread == <<fishAt, fishP>>
bulletThread == <<bulletAt, bulletP>>
vars == <<player, fishList, bulletList, select, fishThread, bulletThread, fault>>

Nodes(list) == {list[i] : i \in DOMAIN list}

Init ==
  /\ inside = {}
  /\ coin = [p \in Player |-> Coin]
  /\ shots = [p \in Player |-> 0]
  /\ kills = [p \in Player |-> 0]
  /\ paid = [f \in FishNode |-> 0]
  /\ fishs = <<>> /\ fishsGone = TRUE /\ fishClearing = FALSE
  /\ fishId = [f \in FishNode |-> 0]
  /\ fishNext = 1
  /\ locked = {} /\ killed = {}
  /\ bullets = <<>> /\ bulletsGone = TRUE /\ bulletClearing = FALSE
  /\ bulletId = [b \in BulletNode |-> 0]
  /\ bulletNext = 1
  /\ owner = [b \in BulletNode |-> None]
  /\ spent = {}
  /\ at = "idle" /\ who = None /\ bullet = None /\ fish = None
  /\ fishAt = "sleep" /\ fishP = None
  /\ bulletAt = "sleep" /\ bulletP = None
  /\ emptied = FALSE
  /\ fault = "none"

----------------------------------------------------------------------------
(* Slips a maintainer could make; each is swapped in to test a property.   *)

NthStuck(from, k) == from
HittableTwice(f) == f \in Nodes(fishs) /\ f \notin locked
UsableTwice(b, p) == b \in Nodes(bullets) /\ owner[b] = p
SparseOneMore == Len(fishs) <= MaxFish
CondemnedAlways(f) == TRUE
CondemnedBehind(f) == f \in killed /\ f # fishs[1]

----------------------------------------------------------------------------
(* The two lists.                                                          *)

(* getID counts up from the last id handed out, over the ids in use, and   *)
(* starts again at 1 when it reaches MAX_INT.                               *)
Nth(from, k) == ((from - 1 + k) % (MaxInt - 1)) + 1
NewId(from, inUse) ==
  Nth(from, CHOOSE k \in 0 .. MaxInt - 2 :
              /\ Nth(from, k) \notin inUse
              /\ \A j \in 0 .. k - 1 : Nth(from, j) \in inUse)

FishIds == {fishId[f] : f \in Nodes(fishs)}
BulletIds == {bulletId[b] : b \in Nodes(bullets)}

Position(list, n) == CHOOSE i \in DOMAIN list : list[i] = n
After(list, n) ==
  IF Position(list, n) = Len(list) THEN None ELSE list[Position(list, n) + 1]
Without(list, n) ==
  [i \in 1 .. Len(list) - 1 |->
     IF i < Position(list, n) THEN list[i] ELSE list[i + 1]]
(* What a freed node holds is garbage: the model clears it.                *)
FreeFish(gone) ==
  /\ fishId' = [f \in FishNode |-> IF f \in gone THEN 0 ELSE fishId[f]]
  /\ locked' = locked \ gone
  /\ killed' = killed \ gone

FreeBullets(gone) ==
  /\ bulletId' = [b \in BulletNode |-> IF b \in gone THEN 0 ELSE bulletId[b]]
  /\ owner' = [b \in BulletNode |-> IF b \in gone THEN None ELSE owner[b]]
  /\ spent' = spent \ gone

First(list) == IF list = <<>> THEN None ELSE list[1]

(* Fishs::create appends a node of fresh memory.                           *)
CreateFish(f) ==
  /\ f \notin Nodes(fishs)
  /\ fishs' = Append(fishs, f)
  /\ fishNext' = NewId(fishNext, FishIds)
  /\ fishId' = [fishId EXCEPT ![f] = fishNext']
  /\ locked' = locked \ {f}
  /\ killed' = killed \ {f}
  /\ paid' = [paid EXCEPT ![f] = 0]

CreateBullet(b, p) ==
  /\ b \notin Nodes(bullets)
  /\ bullets' = Append(bullets, b)
  /\ bulletNext' = NewId(bulletNext, BulletIds)
  /\ bulletId' = [bulletId EXCEPT ![b] = bulletNext']
  /\ owner' = [owner EXCEPT ![b] = p]
  /\ spent' = spent \ {b}

----------------------------------------------------------------------------
(* The select thread.                                                      *)

(* inRoom: whoever enters an empty room makes its lists and a first fish.  *)
Enter(p) ==
  /\ fault = "none" /\ at = "idle"
  /\ p \notin inside
  /\ inside' = inside \cup {p}
  /\ \/ /\ ~fishsGone
        /\ UNCHANGED <<fishList, bulletList, paid>>
     \/ /\ fishsGone
        /\ \E f \in FishNode :
             /\ fishs' = <<f>>
             /\ fishNext' = 1
             /\ fishId' = [fishId EXCEPT ![f] = 1]
             /\ locked' = locked \ {f}
             /\ killed' = killed \ {f}
             /\ paid' = [paid EXCEPT ![f] = 0]
        /\ fishsGone' = FALSE
        /\ bullets' = <<>> /\ bulletsGone' = FALSE /\ bulletNext' = 1
        /\ UNCHANGED <<fishClearing, bulletClearing, bulletId, owner, spent>>
  /\ UNCHANGED <<coin, shots, kills, emptied, select, fishThread, bulletThread, fault>>

(* toShot: a coin for a bullet.                                            *)
Shoot(p) ==
  /\ fault = "none" /\ at = "idle"
  /\ p \in inside
  /\ coin[p] > 0
  /\ shots[p] < MaxShots
  /\ coin' = [coin EXCEPT ![p] = @ - 1]
  /\ shots' = [shots EXCEPT ![p] = @ + 1]
  /\ \E b \in BulletNode : CreateBullet(b, p)
  /\ UNCHANGED <<inside, kills, paid, emptied, fishList, bulletsGone, bulletClearing,
                 select, fishThread, bulletThread, fault>>

(* Bullets::getBullet: the caller's own bullet, unspent; it is not locked. *)
Usable(b, p) == b \in Nodes(bullets) /\ owner[b] = p /\ b \notin spent

(* hitFish finds the bullet the client names; without one nothing happens. *)
TakeBullet(p, id) ==
  /\ fault = "none" /\ at = "idle"
  /\ p \in inside
  /\ \E b \in BulletNode :
       /\ Usable(b, p) /\ bulletId[b] = id
       /\ bullet' = b
  /\ at' = "took-bullet" /\ who' = p
  /\ UNCHANGED <<player, fishList, bulletList, fish, fishThread, bulletThread,
                 fault>>

(* Fishs::getFish locks the fish it returns, and returns no locked or      *)
(* killed one.                                                             *)
Hittable(f) == f \in Nodes(fishs) /\ f \notin locked \cup killed

TakeFish(id) ==
  /\ fault = "none" /\ at = "took-bullet"
  /\ \/ \E f \in FishNode :
          /\ Hittable(f) /\ fishId[f] = id
          /\ fish' = f
          /\ locked' = locked \cup {f}
          /\ at' = "took-fish"
     \/ /\ ~\E f \in FishNode : Hittable(f) /\ fishId[f] = id
        /\ at' = "spend-bullet"
        /\ UNCHANGED <<fish, locked>>
  /\ UNCHANGED <<player, fishs, fishsGone, fishClearing, fishId, fishNext, killed,
                 bulletList, who, bullet, fishThread, bulletThread, fault>>

Touch(node, list, thread) ==
  IF node \in Nodes(list) THEN UNCHANGED fault ELSE fault' = thread

Pay ==
  /\ fault = "none" /\ at = "took-fish"
  /\ coin' = [coin EXCEPT ![who] = @ + Reward]
  /\ kills' = [kills EXCEPT ![who] = @ + 1]
  /\ paid' = [paid EXCEPT ![fish] = @ + 1]
  /\ at' = "mark-fish"
  /\ Touch(fish, fishs, "select-fish")
  /\ UNCHANGED <<inside, shots, emptied, fishList, bulletList, who, bullet, fish,
                 fishThread, bulletThread>>

(* fish->isdel = 1; and, a statement later, fish->lock = 0;                *)
MarkFish ==
  /\ fault = "none" /\ at = "mark-fish"
  /\ killed' = killed \cup {fish}
  /\ at' = "unlock-fish"
  /\ Touch(fish, fishs, "select-fish")
  /\ UNCHANGED <<player, fishs, fishsGone, fishClearing, fishId, fishNext, locked,
                 bulletList, who, bullet, fish, fishThread, bulletThread>>

UnlockFish ==
  /\ fault = "none" /\ at = "unlock-fish"
  /\ locked' = locked \ {fish}
  /\ at' = "spend-bullet" /\ fish' = None
  /\ Touch(fish, fishs, "select-fish")
  /\ UNCHANGED <<player, fishs, fishsGone, fishClearing, fishId, fishNext, killed,
                 bulletList, who, bullet, fishThread, bulletThread>>

(* bullet->isdel = 1; whether or not there was a fish.                     *)
SpendBullet ==
  /\ fault = "none" /\ at = "spend-bullet"
  /\ spent' = spent \cup {bullet}
  /\ at' = "idle" /\ who' = None /\ bullet' = None
  /\ Touch(bullet, bullets, "select-bullet")
  /\ UNCHANGED <<player, fishList, bullets, bulletsGone, bulletClearing, bulletId,
                 bulletNext, owner, fish, fishThread, bulletThread>>

(* Rooms::leave; the last one out clears the two lists, one after another. *)
Leave(p) ==
  /\ fault = "none" /\ at = "idle"
  /\ p \in inside
  /\ inside' = inside \ {p}
  /\ at' = IF inside = {p} THEN "clear-fish" ELSE "idle"
  /\ UNCHANGED <<coin, shots, kills, paid, emptied, fishList, bulletList, who, bullet, fish,
                 fishThread, bulletThread, fault>>

ClearFishBegin ==
  /\ fault = "none" /\ at = "clear-fish"
  /\ fishClearing' = TRUE
  /\ emptied' = TRUE
  /\ at' = "free-fish"
  /\ UNCHANGED <<inside, coin, shots, kills, paid, fishs, fishsGone, fishId, fishNext, locked, killed,
                 bulletList, who, bullet, fish, fishThread, bulletThread, fault>>

ClearFishEnd ==
  /\ fault = "none" /\ at = "free-fish"
  /\ fishs' = <<>>
  /\ FreeFish(Nodes(fishs))
  /\ fishClearing' = FALSE
  /\ at' = "drop-fishs"
  /\ UNCHANGED <<player, fishsGone, fishNext, bulletList, who, bullet, fish, fishThread, bulletThread, fault>>

(* _free(room->fishs); room->fishs = NULL;  Fish created in the meantime   *)
(* are never freed; the model takes their memory back.                     *)
DropFishs ==
  /\ fault = "none" /\ at = "drop-fishs"
  /\ fishsGone' = TRUE
  /\ fishs' = <<>> /\ FreeFish(Nodes(fishs))
  /\ fishNext' = 1
  /\ at' = "clear-bullets"
  /\ UNCHANGED <<player, fishClearing, bulletList, who, bullet, fish, fishThread, bulletThread, fault>>

ClearBulletsBegin ==
  /\ fault = "none" /\ at = "clear-bullets"
  /\ bulletClearing' = TRUE
  /\ at' = "free-bullets"
  /\ UNCHANGED <<player, fishList, bullets, bulletsGone, bulletId, bulletNext,
                 owner, spent, who, bullet, fish, fishThread, bulletThread, fault>>

ClearBulletsEnd ==
  /\ fault = "none" /\ at = "free-bullets"
  /\ bullets' = <<>>
  /\ FreeBullets(Nodes(bullets))
  /\ bulletClearing' = FALSE
  /\ at' = "drop-bullets"
  /\ UNCHANGED <<player, fishList, bulletsGone, bulletNext, who, bullet, fish, fishThread, bulletThread, fault>>

DropBullets ==
  /\ fault = "none" /\ at = "drop-bullets"
  /\ bulletsGone' = TRUE
  /\ bulletNext' = 1
  /\ at' = "idle"
  /\ UNCHANGED <<player, fishList, bullets, bulletClearing, bulletId,
                 owner, spent, who, bullet, fish, fishThread, bulletThread, fault>>

Select ==
  \/ \E p \in Player : Enter(p) \/ Shoot(p) \/ Leave(p)
  \/ \E p \in Player : \E id \in BulletIds : TakeBullet(p, id)
  \/ \E id \in 1 .. MaxInt - 1 : TakeFish(id)
  \/ Pay \/ MarkFish \/ UnlockFish \/ SpendBullet
  \/ ClearFishBegin \/ ClearFishEnd \/ DropFishs
  \/ ClearBulletsBegin \/ ClearBulletsEnd \/ DropBullets

----------------------------------------------------------------------------
(* Thread::fish, one round of it in this room.                             *)

FishIdle == UNCHANGED <<player, bulletList, select, bulletThread, fault>>
FishListKept == UNCHANGED <<fishList>>

FishWake ==
  /\ fault = "none" /\ fishAt = "sleep"
  /\ ~fishsGone
  /\ fishAt' = "grow"
  /\ FishIdle /\ FishListKept /\ UNCHANGED fishP

Sparse == Len(fishs) < MaxFish

FishGrow ==
  /\ fault = "none" /\ fishAt = "grow"
  /\ ~fishsGone
  /\ fishAt' = IF Sparse THEN "create" ELSE "head"
  /\ FishIdle /\ FishListKept /\ UNCHANGED fishP

FishCreate ==
  /\ fault = "none" /\ fishAt = "create"
  /\ ~fishsGone /\ ~fishClearing
  /\ \E f \in FishNode : CreateFish(f)
  /\ fishAt' = "head"
  /\ UNCHANGED <<inside, coin, shots, kills, emptied, fishsGone, fishClearing,
                 bulletList, select, fishP, bulletThread, fault>>

FishGoTo(p) ==
  /\ fishP' = p
  /\ fishAt' = IF p = None THEN "sleep" ELSE "lock"

FishHead ==
  /\ fault = "none" /\ fishAt = "head"
  /\ ~fishsGone
  /\ FishGoTo(First(fishs))
  /\ FishIdle /\ FishListKept

(* if (clearing) break; if (p->lock) p = p->next;                          *)
FishLock ==
  /\ fault = "none" /\ fishAt = "lock"
  /\ ~fishsGone
  /\ \/ fishClearing /\ FishGoTo(None)
     \/ /\ ~fishClearing /\ fishP \in Nodes(fishs) /\ fishP \in locked
        /\ FishGoTo(After(fishs, fishP))
     \/ /\ ~fishClearing /\ fishP \in Nodes(fishs) /\ fishP \notin locked
        /\ fishAt' = "isdel" /\ UNCHANGED fishP
  /\ FishIdle /\ FishListKept

(* if (p->isdel): the lock is not looked at again.                         *)
Condemned(f) == f \in killed

FishIsdel ==
  /\ fault = "none" /\ fishAt = "isdel"
  /\ fishP \in Nodes(fishs)
  /\ \/ /\ Condemned(fishP)
        /\ fishAt' = "destroy" /\ UNCHANGED fishP
     \/ /\ ~Condemned(fishP)
        /\ FishGoTo(After(fishs, fishP))
  /\ FishIdle /\ FishListKept

FishDestroy ==
  /\ fault = "none" /\ fishAt = "destroy"
  /\ ~fishsGone /\ ~fishClearing
  /\ fishP \in Nodes(fishs)
  /\ fishs' = Without(fishs, fishP)
  /\ FishGoTo(After(fishs, fishP))
  /\ FreeFish({fishP})
  /\ FishIdle
  /\ UNCHANGED <<fishsGone, fishClearing, fishNext>>

(* The list or the node it goes on with is gone.                           *)
FishFault ==
  /\ fault = "none" /\ fishAt # "sleep"
  /\ fishAt \in {"create", "destroy"} => ~fishClearing
  /\ \/ fishAt # "isdel" /\ fishsGone
     \/ fishAt \in {"isdel", "destroy"} /\ fishP \notin Nodes(fishs)
     \/ fishAt = "lock" /\ ~fishClearing /\ fishP \notin Nodes(fishs)
  /\ fault' = "fish-thread"
  /\ UNCHANGED <<player, fishList, bulletList, select, fishThread, bulletThread>>

FishThread ==
  \/ FishWake \/ FishGrow \/ FishCreate \/ FishHead
  \/ FishLock \/ FishIsdel \/ FishDestroy \/ FishFault

----------------------------------------------------------------------------
(* Thread::bullet.  Nothing ever sets a bullet's lock.  Ten seconds may    *)
(* have passed for any bullet.                                             *)

BulletIdle == UNCHANGED <<player, fishList, select, fishThread, fault>>

BulletWake ==
  /\ fault = "none" /\ bulletAt = "sleep"
  /\ ~bulletsGone
  /\ bulletAt' = "head"
  /\ BulletIdle /\ UNCHANGED <<bulletList, bulletP>>

BulletGoTo(p) ==
  /\ bulletP' = p
  /\ bulletAt' = IF p = None THEN "sleep" ELSE "look"

BulletHead ==
  /\ fault = "none" /\ bulletAt = "head"
  /\ ~bulletsGone
  /\ BulletGoTo(First(bullets))
  /\ BulletIdle /\ UNCHANGED bulletList

Due(b) == b \in spent

BulletLook ==
  /\ fault = "none" /\ bulletAt = "look"
  /\ ~bulletsGone
  /\ \/ bulletClearing /\ BulletGoTo(None)
     \/ /\ ~bulletClearing /\ bulletP \in Nodes(bullets)
        /\ bulletAt' = "destroy" /\ UNCHANGED bulletP
     \/ /\ ~bulletClearing /\ bulletP \in Nodes(bullets) /\ ~Due(bulletP)
        /\ BulletGoTo(After(bullets, bulletP))
  /\ BulletIdle /\ UNCHANGED bulletList

BulletDestroy ==
  /\ fault = "none" /\ bulletAt = "destroy"
  /\ ~bulletsGone /\ ~bulletClearing
  /\ bulletP \in Nodes(bullets)
  /\ bullets' = Without(bullets, bulletP)
  /\ BulletGoTo(After(bullets, bulletP))
  /\ FreeBullets({bulletP})
  /\ BulletIdle
  /\ UNCHANGED <<bulletsGone, bulletClearing, bulletNext>>

BulletFault ==
  /\ fault = "none" /\ bulletAt # "sleep"
  /\ bulletAt = "destroy" => ~bulletClearing
  /\ \/ bulletsGone
     \/ bulletAt = "destroy" /\ bulletP \notin Nodes(bullets)
     \/ bulletAt = "look" /\ ~bulletClearing /\ bulletP \notin Nodes(bullets)
  /\ fault' = "bullet-thread"
  /\ UNCHANGED <<player, fishList, bulletList, select, fishThread, bulletThread>>

BulletThread ==
  BulletWake \/ BulletHead \/ BulletLook \/ BulletDestroy \/ BulletFault

Next == Select \/ FishThread \/ BulletThread

Spec == Init /\ [][Next]_vars

(* Each thread keeps running; what the clients send is up to them, but a   *)
(* handler that has begun is finished.                                     *)
FairSpec ==
  /\ Spec
  /\ WF_vars(at # "idle" /\ Select)
  /\ WF_vars(FishThread)
  /\ WF_vars(BulletThread)

----------------------------------------------------------------------------
(* A fish pays one player once, whoever hits it, however often, and        *)
(* whatever the fish thread does meanwhile.                                *)
FishPaysOnce == \A f \in FishNode : paid[f] <= 1

(* The bullets p may still be paid for: unspent in the list, or in the     *)
(* hands of a hitFish that has not paid yet.                               *)
Paying(p) == who = p /\ at \in {"took-bullet", "took-fish"}
Cover(p) ==
  {b \in BulletNode : \/ b = bullet /\ Paying(p)
                      \/ b # bullet /\ b \in Nodes(bullets) \ spent /\ owner[b] = p}

(* Nobody is paid for more fish than bullets he has bought, although a     *)
(* bullet is not locked while it is used and may expire under hitFish.     *)
BulletsCoverKills ==
  \A p \in Player : kills[p] + Cardinality(Cover(p)) <= shots[p]

(* An id names one fish and one bullet, although getID starts again at 1:  *)
(* the client only ever names them by id.                                  *)
IdsUnique ==
  /\ \A f, g \in Nodes(fishs) : fishId[f] = fishId[g] => f = g
  /\ \A b, c \in Nodes(bullets) : bulletId[b] = bulletId[c] => b = c

(* The fish thread decides to add a fish before it takes the lock, and     *)
(* inRoom adds one too, but a room never has more than it should.          *)
FishBounded == Len(fishs) <= MaxFish

(* Until it is marked, a fish that hitFish has locked cannot be freed; a   *)
(* fish thread that still holds a node of a list cleared before can.       *)
HeldFishAlive ==
  fault = "none" /\ at \in {"took-fish", "mark-fish"} => fish \in Nodes(fishs)

(* The node the fish thread or the bullet thread walks on is in the list.  *)
WalkersSafe ==
  /\ fishAt \in {"lock", "isdel", "destroy"} => fishP \in Nodes(fishs)
  /\ bulletAt \in {"look", "destroy"} => bulletP \in Nodes(bullets)
  /\ fault \notin {"fish-thread", "bullet-thread"}

(* No thread's pointer outlives its node until the room has been cleared.  *)
SafeUntilCleared == ~emptied => HeldFishAlive /\ WalkersSafe

(* A killed fish is freed in the end, although the fish thread passes over  *)
(* it while hitFish has it locked.                                         *)
KilledFishReaped ==
  \A f \in FishNode :
    (f \in killed /\ f \in Nodes(fishs)) ~> (f \notin Nodes(fishs) \/ fault # "none")

(* The lists above are used only in the ways source/bullets.hpp and         *)
(* source/fishs.hpp offer; LinkedList shows that its code does no more.     *)
FishList == INSTANCE NodeSeq WITH Node <- FishNode, list <- fishs
BulletList == INSTANCE NodeSeq WITH Node <- BulletNode, list <- bullets
=============================================================================
