------------------------------ MODULE MCSqlStore ------------------------------
(***************************************************************************)
(* Small instances of SqlStore: three requests, so that two posts may race *)
(* for an identifier and a third request read or post it; one connection   *)
(* less than there are requests.                                           *)
(***************************************************************************)
EXTENDS SqlStore, TLC

(* Requests and identifiers are interchangeable. *)
Symmetry == Permutations(Request) \union Permutations(Hex)

=============================================================================
