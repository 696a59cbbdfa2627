------------------------- MODULE MCGlobalPrioServer -------------------------
(* GlobalPrioServer for TLC: the constants are in the configurations. *)
EXTENDS GlobalPrioServer
=============================================================================
