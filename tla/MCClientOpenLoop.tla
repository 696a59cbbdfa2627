-------------------------- MODULE MCClientOpenLoop --------------------------
(* Instances of ClientOpenLoop for TLC; the .cfg files give the constants. *)
EXTENDS ClientOpenLoop
=============================================================================
