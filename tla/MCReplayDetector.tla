--------------------------- MODULE MCReplayDetector ---------------------------
(***************************************************************************)
(* A small instance of ReplayDetector: three calls, enough for two callers *)
(* to meet the expiring timer of a third.  No symmetry: the run checks     *)
(* liveness.                                                               *)
(***************************************************************************)
EXTENDS ReplayDetector

=============================================================================
