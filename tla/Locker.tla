-------------------------------- MODULE Locker --------------------------------
(***************************************************************************)
(* Common.Utilities.Locker: DoLocked runs an action under a lock that      *)
(* belongs to a key.  The lock of a key is a "ring", a bag with one "hat"  *)
(* for each call that uses it; rings and hats are pooled.                  *)
(*                                                                         *)
(* A call goes                                                             *)
(*   idle -> enter -> wait -> action -> takeOut -> putBack -> leave -> done *)
(* The two sections under the lock of a room (lines 64-78 and 96-108) are  *)
(* one step each: what other calls do to their ring meanwhile, a TryTake,  *)
(* commutes with them.  rooms is then the union of all rooms' maps, and    *)
(* which keys share a room makes no difference.  Hats are alike, so a bag  *)
(* of hats is its size.                                                    *)
(*                                                                         *)
(* raced is a history variable: it becomes TRUE when the last hat leaves a *)
(* ring while another call is between taking out its own hat (line 91) and *)
(* looking whether the ring is empty (line 98).                            *)
(***************************************************************************)
EXTENDS Naturals, FiniteSets, Functions

CONSTANTS
  Call,  \* the calls of DoLocked
  Inner, \* those that may be made from the action of another, on its thread
  Key,
  Ring,  \* the ConcurrentBags; one nothing refers to can be allocated
  None

ASSUME CallAssumption == IsFiniteSet(Call) /\ None \notin Call /\ Inner \subseteq Call
ASSUME NoneAssumption == None \notin Key \union Ring
ASSUME RingAssumption == IsFiniteSet(Ring)  \* as many as the memory holds

VARIABLES
  rooms,    \* _rooms: from the keys in use to their rings
  unused,   \* _unusedRings: how often each ring is in the bag
  rack,     \* _hatRack: its number of hats
  hats,     \* hats[r]: the number of hats in ring r
  owner,    \* owner[r]: the call inside lock(r), the inner one of two
  outer,    \* outer[c]: the call from whose action c was made
  pc,
  key,      \* key[c]: the key c was called with
  ring,     \* ring[c]: the local variable ring
  outcome,  \* outcome[c]: how the call ended, "none" before it did
  busiest,  \* history: the most calls that ever had a hat at one time
  raced     \* history: see above

vars == <<rooms, unused, rack, hats, owner, pc, outer, key, ring, outcome, busiest, raced>>

PC == {"idle", "enter", "wait", "action", "takeOut", "putBack", "leave",
       "unlocked", "done"}

Outcome == {"none", "returned", "threw", "ringGone"}

TypeOK ==
  /\ rooms \in [Key -> Ring \union {None}]
  /\ unused \in [Ring -> Nat]
  /\ rack \in Nat
  /\ hats \in [Ring -> Nat]
  /\ owner \in [Ring -> Call \union {None}]
  /\ outer \in [Call -> Call \union {None}]
  /\ pc \in [Call -> PC]
  /\ key \in [Call -> Key \union {None}]
  /\ ring \in [Call -> Ring \union {None}]
  /\ outcome \in [Call -> Outcome]
  /\ busiest \in Nat
  /\ raced \in BOOLEAN

Init ==
  /\ rooms = [k \in Key |-> None]
  /\ unused = [r \in Ring |-> 0]
  /\ rack = 0
  /\ hats = [r \in Ring |-> 0]
  /\ owner = [r \in Ring |-> None]
  /\ outer = [c \in Call |-> None]
  /\ pc = [c \in Call |-> "idle"]
  /\ key = [c \in Call |-> None]
  /\ ring = [c \in Call |-> None]
  /\ outcome = [c \in Call |-> "none"]
  /\ busiest = 0
  /\ raced = FALSE

Goto(c, from, to) ==
  /\ pc[c] = from
  /\ pc' = [pc EXCEPT ![c] = to]

(* The calls that have a hat, in their hands or in their ring. *)
HasHat == {c \in Call : pc[c] \in {"enter", "wait", "action", "takeOut", "putBack"}}

(* Calls that see their ring as their own, or are about to look at it again. *)
Inside(r)  == {c \in Call : pc[c] \in {"wait", "action", "takeOut"} /\ ring[c] = r}
Leaving(r) == {c \in Call : pc[c] \in {"putBack", "leave"} /\ ring[c] = r}

NullAction(c) ==
  /\ Goto(c, "idle", "done")
  /\ outcome' = [outcome EXCEPT ![c] = "returned"]
  /\ UNCHANGED <<rooms, unused, rack, hats, owner, outer, key, ring, busiest, raced>>

(* A null key: the action runs without any lock. *)
NullKey(c) ==
  /\ Goto(c, "idle", "unlocked")
  /\ UNCHANGED <<rooms, unused, rack, hats, owner, outer, key, ring, outcome, busiest, raced>>

RunUnlocked(c) ==
  /\ Goto(c, "unlocked", "done")
  /\ \E o \in {"returned", "threw"} : outcome' = [outcome EXCEPT ![c] = o]
  /\ UNCHANGED <<rooms, unused, rack, hats, owner, outer, key, ring, busiest, raced>>

Larger(m, n) == IF m < n THEN n ELSE m

(* A hat from the rack, or a new one. *)
Start(c, k) ==
  /\ Goto(c, "idle", "enter")
  /\ key' = [key EXCEPT ![c] = k]
  /\ rack' = IF rack > 0 THEN rack - 1 ELSE 0
  /\ busiest' = Larger(busiest, Cardinality(HasHat) + 1)
  /\ UNCHANGED <<rooms, unused, hats, owner, ring, outcome, raced>>

DoLocked(c, k) ==
  /\ Start(c, k)
  /\ UNCHANGED outer

(* The calls that c's action is in the middle of. *)
Nested(c) == {d \in Call : outer[d] = c /\ pc[d] # "done"}

(* ConcurrentStorage.GetOrAddAsync: the action locks its key again. *)
DoLockedAgain(c, d) ==
  /\ pc[d] = "action" /\ outer[d] = None /\ Nested(d) = {}
  /\ Start(c, key[d])
  /\ outer' = [outer EXCEPT ![c] = d]

Toss(c, r) ==
  /\ hats' = [hats EXCEPT ![r] = @ + 1]
  /\ ring' = [ring EXCEPT ![c] = r]

EnterUsedRing(c) ==
  /\ Goto(c, "enter", "wait")
  /\ rooms[key[c]] # None
  /\ Toss(c, rooms[key[c]])
  /\ UNCHANGED <<rooms, unused, rack, owner, outer, key, outcome, busiest, raced>>

(* Mutant: the ring is peeked at and stays in the bag. *)
EnterPeekedRing(c) ==
  /\ Goto(c, "enter", "wait")
  /\ rooms[key[c]] = None
  /\ \E r \in Ring :
       /\ unused[r] > 0
       /\ rooms' = [rooms EXCEPT ![key[c]] = r]
       /\ Toss(c, r)
  /\ UNCHANGED <<unused, rack, owner, outer, key, outcome, busiest, raced>>

EnterUnusedRing(c) ==
  /\ Goto(c, "enter", "wait")
  /\ rooms[key[c]] = None
  /\ \E r \in Ring :
       /\ unused[r] > 0
       /\ unused' = [unused EXCEPT ![r] = @ - 1]
       /\ rooms' = [rooms EXCEPT ![key[c]] = r]
       /\ Toss(c, r)
  /\ UNCHANGED <<rack, owner, outer, key, outcome, busiest, raced>>

(* A newly allocated ring is one that nothing refers to. *)
Fresh == {r \in Ring : /\ unused[r] = 0
                       /\ \A k \in Key : rooms[k] # r
                       /\ \A c \in Call : ring[c] # r}

EnterNewRing(c) ==
  /\ Goto(c, "enter", "wait")
  /\ rooms[key[c]] = None
  /\ \A r \in Ring : unused[r] = 0
  /\ \E r \in Fresh :
       /\ rooms' = [rooms EXCEPT ![key[c]] = r]
       /\ Toss(c, r)
  /\ UNCHANGED <<unused, rack, owner, outer, key, outcome, busiest, raced>>

(* Mutant: a lock that its own thread waits for, too. *)
LockRingOnce(c) ==
  /\ Goto(c, "wait", "action")
  /\ owner[ring[c]] = None
  /\ owner' = [owner EXCEPT ![ring[c]] = c]
  /\ UNCHANGED <<rooms, unused, rack, hats, outer, key, ring, outcome, busiest, raced>>

(* The thread of an inner call may hold the ring already. *)
LockRing(c) ==
  /\ Goto(c, "wait", "action")
  /\ owner[ring[c]] \in {None, outer[c]}
  /\ owner' = [owner EXCEPT ![ring[c]] = c]
  /\ UNCHANGED <<rooms, unused, rack, hats, outer, key, ring, outcome, busiest, raced>>

(* Mutant: the lock is released for good, reentrant or not. *)
NobodyAfter(c) == None

(* The ring's owner when c is through: the call that c is nested in, if it  *)
(* holds the same ring.                                                     *)
OwnerAfter(c) ==
  IF outer[c] # None /\ ring[outer[c]] = ring[c] THEN outer[c] ELSE None

(* The action ends, perhaps by throwing, and the lock is released. *)
ActionEnds(c) ==
  /\ Goto(c, "action", "takeOut")
  /\ Nested(c) = {}
  /\ \E o \in {"returned", "threw"} : outcome' = [outcome EXCEPT ![c] = o]
  /\ owner' = [owner EXCEPT ![ring[c]] = OwnerAfter(c)]
  /\ UNCHANGED <<rooms, unused, rack, hats, outer, key, ring, busiest, raced>>

TakeOut(c) ==
  /\ Goto(c, "takeOut", "putBack")
  /\ hats' = [hats EXCEPT ![ring[c]] = @ - 1]
  /\ raced' = (raced \/ (hats[ring[c]] = 1 /\ Leaving(ring[c]) # {}))
  /\ UNCHANGED <<rooms, unused, rack, owner, outer, key, ring, outcome, busiest>>

(* Mutant: the hat is dropped. *)
DropHat(c) ==
  /\ Goto(c, "putBack", "leave")
  /\ UNCHANGED <<rooms, unused, rack, hats, owner, outer, key, ring, outcome, busiest, raced>>

PutBack(c) ==
  /\ Goto(c, "putBack", "leave")
  /\ rack' = rack + 1
  /\ UNCHANGED <<rooms, unused, hats, owner, outer, key, ring, outcome, busiest, raced>>

(* Mutant: an off-by-one. *)
LeavesOneInside(c) == hats[ring[c]] <= 1

(* !ring.TryPeek: we're the last one to use this ring. *)
IsLast(c) == hats[ring[c]] = 0

LeaveOthersInside(c) ==
  /\ Goto(c, "leave", "done")
  /\ ~IsLast(c)
  /\ ring' = [ring EXCEPT ![c] = None]
  /\ UNCHANGED <<rooms, unused, rack, hats, owner, outer, key, outcome, busiest, raced>>

(* The key is unmapped, whichever ring it is mapped to by now. *)
LeaveLast(c) ==
  /\ Goto(c, "leave", "done")
  /\ IsLast(c)
  /\ rooms[key[c]] # None
  /\ rooms' = [rooms EXCEPT ![key[c]] = None]
  /\ unused' = [unused EXCEPT ![ring[c]] = @ + 1]
  /\ ring' = [ring EXCEPT ![c] = None]
  /\ UNCHANGED <<rack, hats, owner, outer, key, outcome, busiest, raced>>

(* throw new Exception("Someone else already took our ring out") *)
LeaveRingGone(c) ==
  /\ Goto(c, "leave", "done")
  /\ IsLast(c)
  /\ rooms[key[c]] = None
  /\ outcome' = [outcome EXCEPT ![c] = "ringGone"]
  /\ ring' = [ring EXCEPT ![c] = None]
  /\ UNCHANGED <<rooms, unused, rack, hats, owner, outer, key, busiest, raced>>

Step(c) ==
  \/ RunUnlocked(c)
  \/ EnterUsedRing(c) \/ EnterUnusedRing(c) \/ EnterNewRing(c)
  \/ LockRing(c)
  \/ ActionEnds(c)
  \/ TakeOut(c)
  \/ PutBack(c)
  \/ LeaveOthersInside(c) \/ LeaveLast(c) \/ LeaveRingGone(c)

Next == \E c \in Call :
  \/ NullAction(c)
  \/ NullKey(c)
  \/ \E k \in Key : DoLocked(c, k)
  \/ c \in Inner /\ \E d \in Call : DoLockedAgain(c, d)
  \/ Step(c)

Spec == Init /\ [][Next]_vars

(* Threads run, actions end, and a monitor is handed over to those waiting. *)
Fairness == \A c \in Call : WF_vars(Step(c)) /\ SF_vars(LockRing(c))

FairSpec == Spec /\ Fairness

-----------------------------------------------------------------------------

(* At most one thread runs actions under a key at a time (Locker.cs 9, 42). *)
MutualExclusion ==
  \A c, d \in Call :
    pc[c] = "action" /\ pc[d] = "action" /\ key[c] = key[d]
    => c = d \/ outer[c] = d \/ outer[d] = c

(* No call finds its ring taken away (what the throw of line 104 asserts).  *)
RingIsThere == \A c \in Call : outcome[c] # "ringGone"

(* Unless a ring was emptied under a call that had yet to look at it, the   *)
(* locker excludes, never throws of its own accord...                       *)
LocksUnlessRaced == raced \/ (MutualExclusion /\ RingIsThere)

(* ... and calls with different keys never wait for one another.            *)
KeysDoNotShareRings ==
  raced \/ \A c, d \in Call :
             ring[c] # None /\ ring[c] = ring[d] => key[c] = key[d]

UsingRing == {"wait", "action", "takeOut", "putBack", "leave"}

WellPlaced ==
  \A c \in Call :
    /\ pc[c] \in {"enter"} \union UsingRing => key[c] \in Key
    /\ ring[c] # None <=> pc[c] \in UsingRing

WellNested ==
  \A c \in Call : outer[c] # None =>
    /\ outer[outer[c]] = None /\ key[c] = key[outer[c]]
    /\ "idle" \notin {pc[c], pc[outer[c]]}
    /\ pc[c] # "done" => pc[outer[c]] = "action"

LockIsHeld ==
  \A c \in Call : pc[c] = "action" =>
    \/ owner[ring[c]] = c
    \/ \E d \in Call : /\ owner[ring[c]] = d /\ outer[d] = c
                      /\ pc[d] = "action" /\ ring[d] = ring[c]

HatsAreCounted == \A r \in Ring : hats[r] = Cardinality(Inside(r))

(* The ring of a call is the ring of its key ... *)
RingIsOfKey == \A c \in Call : ring[c] # None => rooms[key[c]] = ring[c]

RingsAreDistinct == \A k, l \in Key : rooms[k] # None /\ rooms[k] = rooms[l] => k = l

(* ... until the last call that uses it gives it back ... *)
UnusedIsUnused ==
  \A r \in Ring : unused[r] > 0 =>
    unused[r] = 1 /\ (\A k \in Key : rooms[k] # r) /\ (\A c \in Call : ring[c] # r)

(* ... and that call is alone with it. *)
LastIsAlone ==
  \A c, d \in Call :
    /\ {pc[c], pc[d]} \subseteq {"putBack", "leave"}
    /\ ring[c] = ring[d] /\ hats[ring[c]] = 0
    => c = d

(* The inductive invariant.  Its second half is lost with the first race.  *)
IInv ==
  /\ TypeOK
  /\ WellPlaced
  /\ WellNested
  /\ LockIsHeld
  /\ HatsAreCounted
  /\ raced \/ /\ RingIsOfKey
              /\ RingsAreDistinct
              /\ UnusedIsUnused
              /\ LastIsAlone
              /\ RingIsThere

(* The pool of hats never outgrows the most calls there were at one time    *)
(* (Locker.cs 31), and no hat is lost: not even by calls that raced.        *)
HatsAreConserved ==
  rack + SumFunction(hats) + Cardinality({c \in Call : pc[c] \in {"enter", "putBack"}})
    = busiest

(* The key of a call that is at one of these steps, and not an inner one.  *)
KeyAt(steps) ==
  [c \in Call |-> IF pc[c] \in steps /\ outer[c] = None THEN key[c] ELSE None]

Lock == INSTANCE KeyLocks
          WITH holds <- KeyAt({"action"}),
               leaves <- KeyAt({"takeOut", "putBack", "leave"}),
               gone <- {c \in Call : outcome[c] = "ringGone"}

(* Rings, hats and reentrance make a lock for each key, up to the first     *)
(* race; and that is two calls that leave the same key (Locker.cs 82-109).  *)
ImplementsKeyLocks == Lock!Spec

(* A call neither hangs on its ring's lock nor on the pools. *)
CallsReturn == \A c \in Call : pc[c] \notin {"idle", "done"} ~> pc[c] = "done"

=============================================================================
