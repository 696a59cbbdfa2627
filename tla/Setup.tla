-------------------------------- MODULE Setup --------------------------------
(***************************************************************************)
(* do_uc and do_rc: before a benchmark starts, the server and a client     *)
(* each create a connected QP over which an FPGA may later write a vector  *)
(* of ready queues into the server's memory.  QP numbers and addresses are *)
(* exchanged over UDP (rdma_uc.cc, rdma_uc_mask.cc, rdma_rc.c) or over TCP  *)
(* (rdma_uc_tcp.cc); then each side takes its QP from RESET to RTS.        *)
(*                                                                         *)
(* Over UDP three datagrams are exchanged, each one waited for with a      *)
(* blocking recvfrom that takes whatever comes and is never repeated.      *)
(* Over TCP both sides exchange a block before and another after the       *)
(* transitions.  The server serves one client in its life; more clients    *)
(* may try.                                                                *)
(*                                                                         *)
(* Errors of socket calls make connect_qp return -1, which do_uc ignores;  *)
(* all other errors end the process.                                       *)
(***************************************************************************)
EXTENDS Integers, FiniteSets

CONSTANTS
  Clients,      \* processes that call do_uc with a server name
  Server,       \* the process that calls it without one
  NumThreads,   \* numberOfThreads
  QueueCounts   \* values of numberOfQueues to start the server with

ASSUME SetupAssumption ==
  /\ Server \notin Clients
  /\ "nobody" \notin Clients \cup {Server}   \* stands for no process
  /\ NumThreads \in Nat \ {0}
  /\ QueueCounts \subseteq Nat \ {0}

VARIABLES
  variant,  \* which of the four source files is built
  queues,   \* numberOfQueues at the server
  spc,      \* spc[p]: where process p is
  qp,       \* qp[p]: state of its QP
  remote,   \* remote[p]: the process whose connection data p holds, if any
  inbox,    \* inbox[p]: datagrams that wait at the UDP socket of p
  backlog,  \* clients whose TCP connection the server has not accepted
  wrote,    \* wrote[p]: blocks p has written to its TCP connection
  bytes,    \* size of the server's registered buffer
  fault     \* something outside the programs went wrong

vars == <<variant, queues, spc, qp, remote, inbox, backlog, wrote, bytes, fault>>

-----------------------------------------------------------------------------
Peers == Clients \cup {Server}
Nobody == "nobody"
Variants == {"uc", "mask", "rc", "tcp"}
OverTcp == variant = "tcp"

\* A datagram: who sent it, and whose connection data it holds.
Datagram == [from : Peers, about : Peers]

\* Mutation: the vectors of all threads share one allocation.
UcBytesOfOne(n) == IF n >= 64 THEN 64 ELSE ((n \div 64) + 1) * 64

\* One byte per queue and thread.  numberOfQueues < 64 == 0 compares the truth value
\* with 0, so every number from 64 on gets 64 bytes.
UcBytes(n) ==
  (IF n >= 64 THEN 64 ELSE IF n % 64 = 0 THEN n ELSE ((n \div 64) + 1) * 64) * NumThreads

\* One byte per queue, in multiples of 64.
MaskBytes(n) == IF n % 64 = 0 THEN n ELSE ((n \div 64) + 1) * 64

\* One bit per queue, in multiples of 64.
RcBytes(n) == IF n % 64 = 0 THEN n \div 8 ELSE ((n \div 64) + 1) * 8

\* MSG_SIZE
TcpBytes(n) == 1

BytesFor(n) ==
  CASE variant = "uc" -> UcBytes(n)
    [] variant = "mask" -> MaskBytes(n)
    [] variant = "rc" -> RcBytes(n)
    [] variant = "tcp" -> TcpBytes(n)

Init ==
  /\ variant \in Variants
  /\ queues \in QueueCounts
  /\ spc = [p \in Peers |-> "start"]
  /\ qp = [p \in Peers |-> "none"]
  /\ remote = [p \in Peers |-> Nobody]
  /\ inbox = [p \in Peers |-> {}]
  /\ backlog = {}
  /\ wrote = [p \in Peers |-> 0]
  /\ bytes = 0
  /\ fault = FALSE

Goto(p, l) == spc' = [spc EXCEPT ![p] = l]

Send(to, d) == inbox' = [inbox EXCEPT ![to] = @ \cup {d}]
Take(p, d) == inbox' = [inbox EXCEPT ![p] = @ \ {d}]

-----------------------------------------------------------------------------
(* Resources. *)

\* resources_create finds its device: context, CQ, memory region and a QP in RESET.
Create(p) ==
  /\ spc[p] = (IF OverTcp THEN "create" ELSE "start")
  /\ qp' = [qp EXCEPT ![p] = "RESET"]
  /\ bytes' = IF p = Server THEN BytesFor(queues) ELSE bytes
  /\ Goto(p, "exchange")
  /\ UNCHANGED <<variant, queues, remote, inbox, backlog, wrote, fault>>

\* It does not: exit(EXIT_FAILURE).
NoDevice(p) ==
  /\ spc[p] = (IF OverTcp THEN "create" ELSE "start")
  /\ Goto(p, "dead")
  /\ fault' = TRUE
  /\ UNCHANGED <<variant, queues, qp, remote, inbox, backlog, wrote, bytes>>

-----------------------------------------------------------------------------
(* The exchange over UDP. *)

\* socket and bind on the server.
Bind ==
  /\ ~OverTcp
  /\ spc[Server] = "exchange"
  /\ Goto(Server, "awaitHello")
  /\ UNCHANGED <<variant, queues, qp, remote, inbox, backlog, wrote, bytes, fault>>

Bound == spc[Server] \notin {"start", "exchange", "dead"}

\* The client sends its data; without a socket at the other end they are lost.
Hello(c) ==
  /\ ~OverTcp
  /\ spc[c] = "exchange"
  /\ Goto(c, "awaitReply")
  /\ inbox' = IF Bound
                THEN [inbox EXCEPT ![Server] = @ \cup {[from |-> c, about |-> c]}]
                ELSE inbox
  /\ fault' = (fault \/ ~Bound)
  /\ UNCHANGED <<variant, queues, qp, remote, backlog, wrote, bytes>>

\* The server takes the first datagram that comes.
TakeHello ==
  /\ spc[Server] = "awaitHello"
  /\ \E d \in inbox[Server] :
       /\ Take(Server, d)
       /\ remote' = [remote EXCEPT ![Server] = d.about]
  /\ Goto(Server, "reply")
  /\ UNCHANGED <<variant, queues, qp, backlog, wrote, bytes, fault>>

\* local_con_data of the server.
ReplyData == Server

\* It answers its sender with its own data.
Reply ==
  /\ spc[Server] = "reply"
  /\ Send(remote[Server], [from |-> Server, about |-> ReplyData])
  /\ Goto(Server, "awaitAck")
  /\ UNCHANGED <<variant, queues, qp, remote, backlog, wrote, bytes, fault>>

TakeReply(c) ==
  /\ spc[c] = "awaitReply"
  /\ \E d \in inbox[c] :
       /\ Take(c, d)
       /\ remote' = [remote EXCEPT ![c] = d.about]
  /\ Goto(c, "ack")
  /\ UNCHANGED <<variant, queues, qp, backlog, wrote, bytes, fault>>

\* The client sends the first 18 bytes of the server's data back.
Ack(c) ==
  /\ spc[c] = "ack"
  /\ Send(Server, [from |-> c, about |-> Server])
  /\ Goto(c, "init")
  /\ UNCHANGED <<variant, queues, qp, remote, backlog, wrote, bytes, fault>>

\* Mutation: the third datagram is read into tmp_con_data too.
AckOverwrites(d) == d.from

\* It is read into placeholder_con_data, which nobody looks at.
AfterAck(d) == remote[Server]

\* The server takes the next datagram that comes, from whomever.
TakeAck ==
  /\ spc[Server] = "awaitAck"
  /\ \E d \in inbox[Server] :
       /\ Take(Server, d)
       /\ remote' = [remote EXCEPT ![Server] = AfterAck(d)]
  /\ Goto(Server, "init")
  /\ UNCHANGED <<variant, queues, qp, backlog, wrote, bytes, fault>>

\* The network loses a datagram.
Lose(p) ==
  /\ \E d \in inbox[p] : Take(p, d)
  /\ fault' = TRUE
  /\ UNCHANGED <<variant, queues, spc, qp, remote, backlog, wrote, bytes>>

\* bind, sendto or recvfrom fails: connect_qp returns -1 and do_uc goes on to its end.
SocketError(p) ==
  /\ ~OverTcp
  /\ spc[p] \in {"exchange", "awaitHello", "reply", "awaitAck", "awaitReply", "ack"}
  /\ Goto(p, "done")
  /\ fault' = TRUE
  /\ UNCHANGED <<variant, queues, qp, remote, inbox, backlog, wrote, bytes>>

-----------------------------------------------------------------------------
(* The exchange over TCP. *)

Listen ==
  /\ OverTcp
  /\ spc[Server] = "start"
  /\ Goto(Server, "accept")
  /\ UNCHANGED <<variant, queues, qp, remote, inbox, backlog, wrote, bytes, fault>>

Accept ==
  /\ spc[Server] = "accept"
  /\ \E c \in backlog :
       /\ backlog' = backlog \ {c}
       /\ remote' = [remote EXCEPT ![Server] = c]
  /\ Goto(Server, "create")
  /\ UNCHANGED <<variant, queues, qp, inbox, wrote, bytes, fault>>

\* connect succeeds as soon as the server listens; otherwise CHECK ends the client.
Connect(c) ==
  /\ OverTcp
  /\ spc[c] = "start"
  /\ LET listening == spc[Server] \notin {"start", "dead"} IN
       /\ Goto(c, IF listening THEN "create" ELSE "dead")
       /\ backlog' = IF listening THEN backlog \cup {c} ELSE backlog
       /\ fault' = (fault \/ ~listening)
  /\ UNCHANGED <<variant, queues, qp, remote, inbox, wrote, bytes>>

\* The process at the other end of the connection of p, once it is accepted.
OtherEnd(p) ==
  IF p = Server THEN remote[Server]
  ELSE IF remote[Server] = p THEN Server ELSE Nobody

\* sock_sync_data writes a block: the connection data, or after RTS the closing block.
SyncWrite(p) ==
  /\ OverTcp
  /\ spc[p] \in {"exchange", "sync"}
  /\ wrote' = [wrote EXCEPT ![p] = @ + 1]
  /\ Goto(p, IF spc[p] = "exchange" THEN "readData" ELSE "readSync")
  /\ UNCHANGED <<variant, queues, qp, remote, inbox, backlog, bytes, fault>>

\* Mutation: a block more is expected than the other side sends.
NextBlockThere(p) == wrote[OtherEnd(p)] > wrote[p]

\* The other side has written the block that answers the last one of p.
BlockThere(p) == wrote[OtherEnd(p)] >= wrote[p]

\* Then it waits for the block of the other side.
SyncRead(p) ==
  /\ spc[p] \in {"readData", "readSync"}
  /\ OtherEnd(p) # Nobody
  /\ BlockThere(p)
  /\ remote' = [remote EXCEPT ![p] = OtherEnd(p)]
  /\ Goto(p, IF spc[p] = "readData" THEN "init" ELSE "done")
  /\ UNCHANGED <<variant, queues, qp, inbox, backlog, wrote, bytes, fault>>

\* The connection breaks because the other process is gone: an assertion fails.
SyncFails(p) ==
  /\ spc[p] \in {"readData", "readSync"}
  /\ \/ spc[Server] = "dead"
     \/ OtherEnd(p) # Nobody /\ spc[OtherEnd(p)] = "dead"
  /\ Goto(p, "dead")
  /\ UNCHANGED <<variant, queues, qp, remote, inbox, backlog, wrote, bytes, fault>>

-----------------------------------------------------------------------------
(* The QP. *)

\* modify_qp_to_init
ToInit(p) ==
  /\ spc[p] = "init"
  /\ qp' = [qp EXCEPT ![p] = "INIT"]
  /\ Goto(p, "rtr")
  /\ UNCHANGED <<variant, queues, remote, inbox, backlog, wrote, bytes, fault>>

\* modify_qp_to_rtr, with the QP number and GID received
ToRtr(p) ==
  /\ spc[p] = "rtr"
  /\ qp' = [qp EXCEPT ![p] = "RTR"]
  /\ Goto(p, "rts")
  /\ UNCHANGED <<variant, queues, remote, inbox, backlog, wrote, bytes, fault>>

\* Mutation: the closing block is left out over TCP too.
AfterRtsAtOnce == "done"

\* Only the TCP version still has the sync that ends connect_qp.
AfterRts == IF OverTcp THEN "sync" ELSE "done"

\* modify_qp_to_rts
ToRts(p) ==
  /\ spc[p] = "rts"
  /\ qp' = [qp EXCEPT ![p] = "RTS"]
  /\ Goto(p, AfterRts)
  /\ UNCHANGED <<variant, queues, remote, inbox, backlog, wrote, bytes, fault>>

-----------------------------------------------------------------------------
Process(p) ==
  Create(p) \/ SyncWrite(p) \/ SyncRead(p) \/ SyncFails(p) \/ ToInit(p) \/ ToRtr(p) \/ ToRts(p)

ClientStep(c) == Process(c) \/ Hello(c) \/ TakeReply(c) \/ Ack(c) \/ Connect(c)
ServerStep == Process(Server) \/ Bind \/ TakeHello \/ Reply \/ TakeAck \/ Listen \/ Accept

Faults == \E p \in Peers : NoDevice(p) \/ Lose(p) \/ SocketError(p)

Next == ServerStep \/ (\E c \in Clients : ClientStep(c)) \/ Faults

Spec == Init /\ [][Next]_vars

\* Processes run on; nothing makes a fault happen.
FairSpec ==
  /\ Spec
  /\ WF_vars(ServerStep)
  /\ \A c \in Clients : WF_vars(ClientStep(c))

-----------------------------------------------------------------------------
(* Properties. *)

Locations ==
  {"start", "create", "exchange", "awaitHello", "reply", "awaitAck", "awaitReply", "ack",
   "accept", "readData", "init", "rtr", "rts", "sync", "readSync", "done", "dead"}

\* Type invariant: every variable has its type, and a QP is past RESET only with the
\* data of another process.
TypeOK ==
  /\ variant \in Variants
  /\ queues \in QueueCounts
  /\ spc \in [Peers -> Locations]
  /\ qp \in [Peers -> {"none", "RESET", "INIT", "RTR", "RTS"}]
  /\ remote \in [Peers -> Peers \cup {Nobody}]
  /\ inbox \in [Peers -> SUBSET Datagram]
  /\ backlog \subseteq Clients
  /\ wrote \in [Peers -> 0 .. 2]
  /\ bytes \in Nat
  /\ fault \in BOOLEAN
  /\ \A p \in Peers : qp[p] \in {"INIT", "RTR", "RTS"} => remote[p] \in Peers \ {p}

\* Connected QPs point at each other: a client whose QP got past INIT is the one the
\* server connects to, also when other clients' datagrams come in between.  In
\* particular one client at most is ever connected.
Mutual ==
  \A c \in Clients :
    qp[c] \in {"INIT", "RTR", "RTS"} => remote[c] = Server /\ remote[Server] = c

\* Over TCP no side leaves connect_qp before both QPs can send and receive, which is
\* what the sync at its end is for.  The other versions have it commented out.
SyncedOnReturn ==
  OverTcp =>
    \A p \in Peers : spc[p] = "done" => qp[p] = "RTS" /\ qp[remote[p]] = "RTS"

\* The first byte after the last that the threads of the server read when they look
\* for work, eight at a time: thread t starts at NUM_QUEUES*t.
ScanEnd == queues * (NumThreads - 1) + ((queues + 7) \div 8) * 8

\* The scan of the byte vectors stays inside the memory the server registered, as
\* long as there are no more than 64 queues.  Beyond, rdma_uc.cc allocates too little.
ScanInBounds ==
  (variant = "uc" /\ queues <= 64 /\ qp[Server] # "none") => ScanEnd <= bytes

\* Without a fault from outside the set-up ends: the server and one client have their
\* QPs connected.  Nothing repeats a lost datagram, so with one it need not.
SetupEnds ==
  [](~fault) =>
    <>(/\ spc[Server] = "done"
       /\ qp[Server] = "RTS"
       /\ \E c \in Clients : spc[c] = "done" /\ qp[c] = "RTS")
=============================================================================
