---------------------------- MODULE MCClosedLoop ----------------------------
(* Instances of ClosedLoop for TLC; the .cfg file gives the constants. *)
EXTENDS ClosedLoop
=============================================================================
