---------------------------- MODULE MCSchedulers ----------------------------
(* Schedulers for TLC: all seven policies in one run; the .cfg gives the constants. *)
EXTENDS Schedulers
=============================================================================
