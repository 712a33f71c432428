------------------------------ MODULE MCWebClient ------------------------------
(***************************************************************************)
(* A small instance of WebClient.  With digits 0 and 1 a byte is worth 4   *)
(* and a double of two bytes 16.  The IDs, the coordinates and the times   *)
(* have bytes with and without a leading zero; the time fills the 32 bits  *)
(* that the page writes.                                                   *)
(***************************************************************************)
EXTENDS WebClient

IDs == <<<<1>>, <<2>>>>

Salts == {<<3>>}

Times == {Weight[4] - 1}

Locations == {[latitude |-> 1, longitude |-> 14], [latitude |-> NegativeZero, longitude |-> 1]}

(* The second ID, and the same with a digit too many. *)
Queries == {<<1, 0>>, <<1, 0, 1>>}

=============================================================================
