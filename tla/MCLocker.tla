------------------------------- MODULE MCLocker -------------------------------
(***************************************************************************)
(* Small instances of Locker.  Two calls are enough for a ring to be       *)
(* emptied under a call that has yet to look at it; it takes five calls    *)
(* and two keys for that to undo the exclusion.                            *)
(***************************************************************************)
EXTENDS Locker, TLC

(* Calls, keys and rings are interchangeable, where Inner is empty or Call. *)
Symmetry == Permutations(Call) \union Permutations(Key) \union Permutations(Ring)

=============================================================================
