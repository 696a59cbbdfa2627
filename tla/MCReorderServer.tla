--------------------------- MODULE MCReorderServer ---------------------------
(* Instances of ReorderServer for TLC; the .cfg files give the constants. *)
EXTENDS ReorderServer
=============================================================================
