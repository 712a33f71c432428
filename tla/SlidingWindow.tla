---------------------------- MODULE SlidingWindow ----------------------------
(***************************************************************************)
(* What Common.Utilities.ReplayDetector promises (the summary of IsNew):   *)
(* each call about a thing is answered "new" exactly when no sighting of   *)
(* that thing is still remembered, every call is itself a sighting, and a  *)
(* sighting is remembered for at least Window.                             *)
(*                                                                         *)
(* Seeing is one atomic step here.  ReplayDetector.tla is the code: a      *)
(* concurrent dictionary, a lock per entry, a counter and a timer.         *)
(***************************************************************************)
EXTENDS Naturals

CONSTANTS
  Call,    \* the calls of IsNew, each made at most once
  Thing,   \* the things that are checked
  Window,  \* how long a sighting is remembered
  None     \* no thing

VARIABLES
  seen,    \* seen[c]: the thing call c saw, None before it saw one
  answer,  \* answer[c]: "new" or "old", "none" before there is one
  age,     \* age[c]: time since c's sighting, up to Window
  kept     \* the sightings that are still remembered

vars == <<seen, answer, age, kept>>

Answer == {"none", "new", "old"}

TypeOK ==
  /\ seen \in [Call -> Thing \union {None}]
  /\ answer \in [Call -> Answer]
  /\ age \in [Call -> 0..Window]
  /\ kept \in SUBSET Call

Init ==
  /\ seen = [c \in Call |-> None]
  /\ answer = [c \in Call |-> "none"]
  /\ age = [c \in Call |-> 0]
  /\ kept = {}

Remembered(x) == \E d \in kept : seen[d] = x

See(c, x) ==
  /\ seen[c] = None
  /\ seen' = [seen EXCEPT ![c] = x]
  /\ answer' = [answer EXCEPT ![c] = IF Remembered(x) THEN "old" ELSE "new"]
  /\ age' = [age EXCEPT ![c] = 0]
  /\ kept' = kept \union {c}

Forget(c) ==
  /\ c \in kept
  /\ age[c] = Window
  /\ kept' = kept \ {c}
  /\ UNCHANGED <<seen, answer, age>>

Tick ==
  /\ age' = [c \in Call |-> IF seen[c] # None /\ age[c] < Window
                            THEN age[c] + 1 ELSE age[c]]
  /\ UNCHANGED <<seen, answer, kept>>

Next ==
  \/ \E c \in Call, x \in Thing : See(c, x)
  \/ \E c \in Call : Forget(c)
  \/ Tick

Spec == Init /\ [][Next]_vars

=============================================================================
