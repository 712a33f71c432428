---------------------------- MODULE ReplayDetector ----------------------------
(***************************************************************************)
(* Common.Utilities.ReplayDetector: IsNew run by many threads at once, and *)
(* the timer callback each call leaves behind.                             *)
(*                                                                         *)
(* A call goes  idle -> get -> lock -> check -> increment -> subscribe ->  *)
(* unlock, going back to get when the check fails (BreakRaceCondition's    *)
(* loop), and has then returned.  From there on the same identifier stands *)
(* for the callback of its timer:  armed -> decrement -> remove -> done.   *)
(* One callback waits for the entry's lock like any caller.                *)
(*                                                                         *)
(* Time is relative: age[c] is the time since c counted its thing, left[c] *)
(* what is left on its timer.  Tick never waits for anyone, so a timer may *)
(* fire arbitrarily late.                                                  *)
(***************************************************************************)
EXTENDS Integers, FiniteSets

CONSTANTS
  Call,     \* calls of IsNew, each with its own thread and its own timer
  Thing,    \* serialized things: the dictionary's keys
  Wrapper,  \* the Wrapper<int> objects; one nothing refers to can be allocated
  Window,   \* _window
  None

ASSUME CallAssumption   == IsFiniteSet(Call) /\ None \notin Call
ASSUME WindowAssumption == Window \in Nat \ {0}
ASSUME NoneAssumption   == None \notin Thing \union Wrapper

VARIABLES
  counts,  \* _counts: the dictionary, from things to wrappers
  value,   \* value[w]: w.Value
  owner,   \* owner[w]: the call whose thread is inside lock(w)
  pc,      \* where each call is
  thing,   \* thing[c]: the thing c was called with
  wrap,    \* wrap[c]: the local variable count
  answer,  \* answer[c]: the local variable result, "none" before it is set
  age,     \* age[c]: time since c incremented its count, up to Window
  left     \* left[c]: time left on c's timer

vars == <<counts, value, owner, pc, thing, wrap, answer, age, left>>

PC == {"idle", "get", "lock", "check", "increment", "subscribe", "unlock",
       "armed", "decrement", "remove", "done"}

Answer == {"none", "new", "old"}

TypeOK ==
  /\ counts \in [Thing -> Wrapper \union {None}]
  /\ value \in [Wrapper -> Int]
  /\ owner \in [Wrapper -> Call \union {None}]
  /\ pc \in [Call -> PC]
  /\ thing \in [Call -> Thing \union {None}]
  /\ wrap \in [Call -> Wrapper \union {None}]
  /\ answer \in [Call -> Answer]
  /\ age \in [Call -> 0..Window]
  /\ left \in [Call -> 0..Window]

Init ==
  /\ counts = [x \in Thing |-> None]
  /\ value = [w \in Wrapper |-> 0]
  /\ owner = [w \in Wrapper |-> None]
  /\ pc = [c \in Call |-> "idle"]
  /\ thing = [c \in Call |-> None]
  /\ wrap = [c \in Call |-> None]
  /\ answer = [c \in Call |-> "none"]
  /\ age = [c \in Call |-> 0]
  /\ left = [c \in Call |-> 0]

Goto(c, from, to) ==
  /\ pc[c] = from
  /\ pc' = [pc EXCEPT ![c] = to]

(* A newly allocated wrapper is one that nothing refers to. *)
Fresh == {w \in Wrapper : /\ \A x \in Thing : counts[x] # w
                          /\ \A c \in Call : wrap[c] # w}

IsNew(c, x) ==
  /\ Goto(c, "idle", "get")
  /\ thing' = [thing EXCEPT ![c] = x]
  /\ UNCHANGED <<counts, value, owner, wrap, answer, age, left>>

GetExisting(c) ==
  /\ Goto(c, "get", "lock")
  /\ counts[thing[c]] # None
  /\ wrap' = [wrap EXCEPT ![c] = counts[thing[c]]]
  /\ UNCHANGED <<counts, value, owner, thing, answer, age, left>>

AddNew(c) ==
  /\ Goto(c, "get", "lock")
  /\ counts[thing[c]] = None
  /\ \E w \in Fresh :
       /\ counts' = [counts EXCEPT ![thing[c]] = w]
       /\ value' = [value EXCEPT ![w] = 0]
       /\ wrap' = [wrap EXCEPT ![c] = w]
  /\ UNCHANGED <<owner, thing, answer, age, left>>

(* Release is what leaving lock (count) does.  Mutant: the lock is kept. *)
ReleaseNothing(w) == owner' = owner

Release(w) == owner' = [owner EXCEPT ![w] = None]

Lock(c) ==
  /\ Goto(c, "lock", "check")
  /\ owner[wrap[c]] = None
  /\ owner' = [owner EXCEPT ![wrap[c]] = c]
  /\ UNCHANGED <<counts, value, thing, wrap, answer, age, left>>

(* Mutants: some wrapper is there; no check at all. *)
IsThere(c) == counts[thing[c]] # None
NotChecked(c) == TRUE

(* TryGetValue and ReferenceEquals: is our wrapper still the official one? *)
IsOfficial(c) == counts[thing[c]] = wrap[c]

CheckPasses(c) ==
  /\ Goto(c, "check", "increment")
  /\ IsOfficial(c)
  /\ UNCHANGED <<counts, value, owner, thing, wrap, answer, age, left>>

TryAgain(c) ==
  /\ Goto(c, "check", "get")
  /\ ~IsOfficial(c)
  /\ Release(wrap[c])
  /\ wrap' = [wrap EXCEPT ![c] = None]
  /\ UNCHANGED <<counts, value, thing, answer, age, left>>

Increment(c) ==
  /\ Goto(c, "increment", "subscribe")
  /\ answer' = [answer EXCEPT ![c] = IF value[wrap[c]] = 0 THEN "new" ELSE "old"]
  /\ value' = [value EXCEPT ![wrap[c]] = @ + 1]
  /\ age' = [age EXCEPT ![c] = 0]
  /\ UNCHANGED <<counts, owner, thing, wrap, left>>

(* Mutant: an off-by-one. *)
ShortPeriod == Window - 1

TimerPeriod == Window

Subscribe(c) ==
  /\ Goto(c, "subscribe", "unlock")
  /\ left' = [left EXCEPT ![c] = TimerPeriod]
  /\ UNCHANGED <<counts, value, owner, thing, wrap, answer, age>>

(* The lock is released and IsNew returns answer[c]. *)
Unlock(c) ==
  /\ Goto(c, "unlock", "armed")
  /\ Release(wrap[c])
  /\ UNCHANGED <<counts, value, thing, wrap, answer, age, left>>

(* The timer's callback runs and has entered lock (count). *)
Expire(c) ==
  /\ Goto(c, "armed", "decrement")
  /\ left[c] = 0
  /\ owner[wrap[c]] = None
  /\ owner' = [owner EXCEPT ![wrap[c]] = c]
  /\ UNCHANGED <<counts, value, thing, wrap, answer, age, left>>

(* Mutant: an off-by-one that leaves the entry where it is. *)
IsBelowZero(c) == value[wrap[c]] - 1 < 0

(* --count.Value <= 0: this count is through. *)
IsThrough(c) == value[wrap[c]] - 1 <= 0

DecrementAndLeave(c) ==
  /\ Goto(c, "decrement", "done")
  /\ ~IsThrough(c)
  /\ value' = [value EXCEPT ![wrap[c]] = @ - 1]
  /\ Release(wrap[c])
  /\ wrap' = [wrap EXCEPT ![c] = None]
  /\ UNCHANGED <<counts, thing, answer, age, left>>

DecrementToZero(c) ==
  /\ Goto(c, "decrement", "remove")
  /\ IsThrough(c)
  /\ value' = [value EXCEPT ![wrap[c]] = @ - 1]
  /\ UNCHANGED <<counts, owner, thing, wrap, answer, age, left>>

(* TryRemove goes by the key: whatever the key is mapped to is removed. *)
TryRemove(c) ==
  /\ Goto(c, "remove", "done")
  /\ counts' = [counts EXCEPT ![thing[c]] = None]
  /\ Release(wrap[c])
  /\ wrap' = [wrap EXCEPT ![c] = None]
  /\ UNCHANGED <<value, thing, answer, age, left>>

(* One unit of time goes by for every sighting and for every armed timer. *)
Tick ==
  /\ age' = [c \in Call |-> IF answer[c] # "none" /\ age[c] < Window
                            THEN age[c] + 1 ELSE age[c]]
  /\ left' = [c \in Call |-> IF left[c] > 0 THEN left[c] - 1 ELSE 0]
  /\ UNCHANGED <<counts, value, owner, pc, thing, wrap, answer>>

Caller(c) ==
  \/ GetExisting(c) \/ AddNew(c)
  \/ Lock(c)
  \/ CheckPasses(c) \/ TryAgain(c)
  \/ Increment(c)
  \/ Subscribe(c)
  \/ Unlock(c)

Callback(c) ==
  \/ Expire(c)
  \/ DecrementAndLeave(c) \/ DecrementToZero(c)
  \/ TryRemove(c)

Next ==
  \/ \E c \in Call, x \in Thing : IsNew(c, x)
  \/ \E c \in Call : Caller(c) \/ Callback(c)
  \/ Tick

Spec == Init /\ [][Next]_vars

(* Every thread that can run does, waiting for a lock included (a monitor   *)
(* hands itself over: strong fairness), and time goes by.                   *)
Fairness ==
  /\ \A c \in Call : /\ WF_vars(Caller(c)) /\ SF_vars(Lock(c))
                     /\ WF_vars(Callback(c)) /\ SF_vars(Expire(c))
  /\ WF_vars(Tick)

FairSpec == Spec /\ Fairness

-----------------------------------------------------------------------------

Holding  == {"check", "increment", "subscribe", "unlock", "decrement", "remove"}
Counting == {"subscribe", "unlock", "armed", "decrement"}
Expired  == {"decrement", "remove", "done"}
Returned == {"armed", "decrement", "remove", "done"}

(* The calls that w stands for: counted, and not yet expired. *)
Counted(w) == {c \in Call : pc[c] \in Counting /\ wrap[c] = w}

(* Two calls about one thing are never both answered "new" within a window: *)
(* whatever the interleaving of callers and expiring timers, and however    *)
(* late the timers (the summary of IsNew, ReplayDetector.cs 38).            *)
NoTwoNewInWindow ==
  \A c, d \in Call :
    c # d /\ thing[c] = thing[d] /\ answer[c] = "new" /\ answer[d] = "new"
    => age[c] = Window \/ age[d] = Window

(* The dictionary does not leak: an entry is there only for a call that is  *)
(* on its way to it or whose timer will take it out (comment of line 77).   *)
EntriesAreOwed ==
  \A x \in Thing : counts[x] # None =>
    \E c \in Call : thing[c] = x /\ wrap[c] = counts[x] /\ pc[c] # "done"

(* A call has a thing once it is made, and a wrapper once it got one. *)
WellPlaced ==
  \A c \in Call :
    /\ pc[c] # "idle" => thing[c] \in Thing
    /\ wrap[c] # None <=> pc[c] \notin {"idle", "get", "done"}
    /\ answer[c] # "none" <=> pc[c] \in Counting \union Expired

LockIsHeld ==
  /\ \A c \in Call : pc[c] \in Holding => owner[wrap[c]] = c
  /\ \A w \in Wrapper : owner[w] # None =>
       pc[owner[w]] \in Holding /\ wrap[owner[w]] = w

(* A wrapper belongs to one thing. *)
WrappersAreDistinct ==
  /\ \A x, y \in Thing : counts[x] # None /\ counts[x] = counts[y] => x = y
  /\ \A c \in Call, x \in Thing : wrap[c] # None /\ wrap[c] = counts[x] => thing[c] = x
  /\ \A c, d \in Call : wrap[c] # None /\ wrap[c] = wrap[d] => thing[c] = thing[d]

(* A wrapper's value is the number of its live sightings ... *)
CountIsExact == \A w \in Wrapper : value[w] = Cardinality(Counted(w))

(* ... and one that counts any is the one the dictionary has for their     *)
(* thing, from the check to the removal (ReplayDetector.cs 53-61).         *)
CountedIsOfficial ==
  \A c \in Call : pc[c] \in Counting \union {"increment", "remove"} => counts[thing[c]] = wrap[c]

RemovedIsUncounted == \A c \in Call : pc[c] = "remove" => Counted(wrap[c]) = {}

(* A timer does not fire before the window has passed. *)
TimersRunForWindow ==
  \A c \in Call :
    /\ pc[c] \in {"unlock", "armed"} => age[c] + left[c] >= Window
    /\ pc[c] \in Expired => age[c] = Window

(* The inductive invariant: what the check under the lock, the counter and *)
(* the timer keep true together.                                           *)
IInv ==
  /\ TypeOK
  /\ WellPlaced
  /\ LockIsHeld
  /\ WrappersAreDistinct
  /\ CountIsExact
  /\ CountedIsOfficial
  /\ RemovedIsUncounted
  /\ TimersRunForWindow

(* Every call returns in spite of the retry loop: in the end none is under  *)
(* way.                                                                     *)
CallsReturn == <>[](\A c \in Call : pc[c] = "idle" \/ pc[c] \in Returned)

(* Every thing is forgotten again once nobody asks about it. *)
EventuallyForgotten == <>[](\A x \in Thing : counts[x] = None)

-----------------------------------------------------------------------------

(* The detector implements the sliding window: a call sees its thing when   *)
(* it increments the count and is forgotten when its timer decrements it.   *)
Abstract == INSTANCE SlidingWindow WITH
  seen <- [c \in Call |-> IF answer[c] = "none" THEN None ELSE thing[c]],
  kept <- {c \in Call : pc[c] \in Counting}

ImplementsSlidingWindow == Abstract!Spec

=============================================================================
