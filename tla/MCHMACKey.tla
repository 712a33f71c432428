------------------------------ MODULE MCHMACKey ------------------------------
(***************************************************************************)
(* Small instances of HMACKey: three requests at a time, two keys that may *)
(* be stored and one that is too short.                                    *)
(***************************************************************************)
EXTENDS HMACKey, TLC

(* Requests are interchangeable, and so are the keys that may be stored. *)
Symmetry == Permutations(Request) \union Permutations(LongKey)

=============================================================================
