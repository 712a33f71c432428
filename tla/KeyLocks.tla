-------------------------------- MODULE KeyLocks --------------------------------
(***************************************************************************)
(* What the callers of Locker.DoLocked see of it: one call at a time runs  *)
(* its action under a key.  Locker implements it, with its rings and hats; *)
(* ConcurrentStorage uses it.                                              *)
(*                                                                         *)
(* It is not a perfect lock.  A call whose action has ended has yet to     *)
(* leave, and while it does another may have its turn.  If two calls have  *)
(* yet to leave one key at the same time, and nobody holds it, they may    *)
(* both think to be the last, and give the ring of the key back twice.     *)
(* From then on nothing is promised: calls of a key may run at the same    *)
(* time, and a call that leaves may throw although its action is done.     *)
(*                                                                         *)
(* Calls that are made from an action, on its thread, are part of it.      *)
(***************************************************************************)
CONSTANTS
  Call,
  Key,
  None

VARIABLES
  holds,   \* holds[c]: the key under which c's action runs
  leaves,  \* leaves[c]: the key that c has let go of, until c returns
  gone,    \* the calls that threw an exception of the locker's own
  raced    \* whether two calls may have been the last to leave a key

lockVars == <<holds, leaves, gone, raced>>

Init ==
  /\ holds = [c \in Call |-> None]
  /\ leaves = [c \in Call |-> None]
  /\ gone = {}
  /\ raced = FALSE

IsFree(k) == \A c \in Call : holds[c] # k

Enter(c, k) ==
  /\ holds[c] = None /\ leaves[c] = None
  /\ raced \/ IsFree(k)
  /\ holds' = [holds EXCEPT ![c] = k]
  /\ UNCHANGED <<leaves, raced>>

(* The action ends, and the lock is released. *)
Exit(c) ==
  /\ holds[c] # None
  /\ holds' = [holds EXCEPT ![c] = None]
  /\ leaves' = [leaves EXCEPT ![c] = holds[c]]
  /\ UNCHANGED raced

Race(k) ==
  /\ IsFree(k)
  /\ \E c, d \in Call : c # d /\ leaves[c] = k /\ leaves[d] = k
  /\ raced' = TRUE
  /\ UNCHANGED <<holds, leaves>>

Depart(c) ==
  /\ leaves[c] # None
  /\ leaves' = [leaves EXCEPT ![c] = None]
  /\ UNCHANGED <<holds, raced>>

(* throw new Exception("Someone else already took our ring out") *)
ThrowsOnlyIfRaced == raced \/ gone' \subseteq gone

Next ==
  /\ \/ \E c \in Call : (\E k \in Key : Enter(c, k)) \/ Exit(c) \/ Depart(c)
     \/ \E k \in Key : Race(k)
     \/ UNCHANGED <<holds, leaves, raced>>
  /\ ThrowsOnlyIfRaced

Spec == Init /\ [][Next]_lockVars

=============================================================================
