------------------------------- MODULE MCRelay -------------------------------
(* Relay for TLC: the kinds of clients; the .cfg gives the other constants. *)
EXTENDS Relay

\* 7488 is the QP number of src/README.md; byte 0xc0 of 7616 is negative as a char;
\* the last kind is what the clients of the repository do.
Kinds == {[qpn |-> 7488, signed |-> TRUE], [qpn |-> 7616, signed |-> TRUE],
          [qpn |-> 7488, signed |-> FALSE]}
==============================================================================
