------------------------------- MODULE MCSetup -------------------------------
(* Instances of Setup for TLC; the .cfg file gives the constants. *)
EXTENDS Setup
=============================================================================
