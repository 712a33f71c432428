-------------------------- MODULE MCConcurrentStorage --------------------------
(***************************************************************************)
(* A small instance of ConcurrentStorage.  Two of its three keys differ in *)
(* case only, and so share a file.  The sanitizer itself is checked with   *)
(* every name of up to three characters, among them "_2f", which is what   *)
(* "/" is escaped to; what is escaped may have six, or three, "__" and a   *)
(* hash.                                                                   *)
(***************************************************************************)
EXTENDS ConcurrentStorage

Invalid == <<"/", "?">>

Codes == [c \in {"/", "?"} |-> IF c = "/" THEN <<"2", "f">> ELSE <<"3", "f">>]

(* A hash of one digit, which two of three names share. *)
Hash(path) == IF Len(path) % 3 = 0 THEN <<"3">> ELSE <<"2">>

Names == {<<"/">>, <<"f">>, <<"F">>}

Paths == BoundedSeq({"/", "?", "_", "2", "f", "F"}, 3)

Characters == {"/", "?", "_", "2", "3", "f", "F"}

Lower == [c \in Characters |-> IF c = "F" THEN "f" ELSE c]

=============================================================================
