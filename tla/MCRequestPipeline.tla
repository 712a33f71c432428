------------------------- MODULE MCRequestPipeline -------------------------
(***************************************************************************)
(* Small instances of RequestPipeline.  A window of 2 makes a message      *)
(* acceptable at three instants, before, at and after its timestamp, and   *)
(* the detector forget it within the clock's bound.                        *)
(***************************************************************************)
EXTENDS RequestPipeline, TLC

CONSTANTS k1

M(salt, for, full, hex, stamp, signedWith) ==
  [salt |-> salt, for |-> for, full |-> full, hex |-> hex,
   stamp |-> stamp, signedWith |-> signedWith]

Posted    == M(1, "location", TRUE, TRUE, 3, DefaultKey)
Asked     == M(2, "bool", TRUE, TRUE, 3, k1)
Forged    == M(3, "bool", TRUE, TRUE, 3, None)
NotFull   == M(4, "location", FALSE, TRUE, 3, k1)
NotHex    == M(5, "location", TRUE, FALSE, 3, k1)

AllMessages == {Posted, Asked, Forged, NotFull, NotHex}

(* Two arrivals of these tell the properties apart: when the key is set     *)
(* meanwhile, each of the first two may turn out to be signed with another. *)
HexMessages == {Posted, Asked, NotFull}

Symmetry == Permutations(Request) \union Permutations(KeyPost)

=============================================================================
