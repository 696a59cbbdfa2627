---------------------------- MODULE RequestWindow ----------------------------
(***************************************************************************)
(* What a closed-loop benchmark promises, with nothing of how it is done:  *)
(* a client thread never has more than its window of requests unanswered,  *)
(* and what it issued is answered unless it leaves first.                  *)
(***************************************************************************)
EXTENDS Integers

CONSTANTS
  Clients,   \* the client threads
  Window     \* Window[c]: requests client c may have outstanding

VARIABLES
  issued,    \* issued[c]: requests client c has sent
  answered,  \* answered[c]: responses client c has taken
  present    \* present[c]: client c has not left

vars == <<issued, answered, present>>

Init ==
  /\ issued = [c \in Clients |-> 0]
  /\ answered = [c \in Clients |-> 0]
  /\ present = [c \in Clients |-> TRUE]

Issue(c) ==
  /\ present[c]
  /\ issued[c] - answered[c] < Window[c]
  /\ issued' = [issued EXCEPT ![c] = @ + 1]
  /\ UNCHANGED <<answered, present>>

Answer(c) ==
  /\ present[c]
  /\ answered[c] < issued[c]
  /\ answered' = [answered EXCEPT ![c] = @ + 1]
  /\ UNCHANGED <<issued, present>>

Leave(c) ==
  /\ present[c]
  /\ present' = [present EXCEPT ![c] = FALSE]
  /\ UNCHANGED <<issued, answered>>

Next == \E c \in Clients : Issue(c) \/ Answer(c) \/ Leave(c)

\* A client need not issue and need not leave; requests do not stay unanswered.
Spec ==
  /\ Init
  /\ [][Next]_vars
  /\ \A c \in Clients : WF_vars(Answer(c))
=============================================================================
