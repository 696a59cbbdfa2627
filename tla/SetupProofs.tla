---------------------------- MODULE SetupProofs ----------------------------
(***************************************************************************)
(* Proofs about Setup for every set of clients, number of threads and      *)
(* number of queues, in all four versions and with every fault.            *)
(***************************************************************************)
EXTENDS Setup, TLAPS

-----------------------------------------------------------------------------
(* The inductive invariant. *)

\* The server has not yet learnt whom it serves.
Waiting ==
  spc[Server] \in (IF OverTcp THEN {"start", "accept"} ELSE {"start", "exchange", "awaitHello"})

\* Until then nobody has had an answer, and what waits at the server are first datagrams.
NobodyYet ==
  Waiting =>
    /\ remote[Server] = Nobody
    /\ \A d \in inbox[Server] : d.about \in Clients

\* Only the client the server has chosen is answered, with the server's own data.
Answers ==
  \A c \in Clients : \A d \in inbox[c] : d.about = Server /\ remote[Server] = c

\* A client that was answered knows the server, and the server knows it.
Paired ==
  \A c \in Clients :
    (spc[c] \in {"ack", "init", "rtr", "rts", "sync", "readSync"}
       \/ qp[c] \in {"INIT", "RTR", "RTS"})
      => remote[c] = Server /\ remote[Server] = c

\* The server has chosen a client before it goes on.
Chosen ==
  (spc[Server] \in {"reply", "awaitAck", "create", "readData", "init", "rtr", "rts",
                    "sync", "readSync"}
     \/ (OverTcp /\ spc[Server] = "exchange")
     \/ qp[Server] \in {"INIT", "RTR", "RTS"})
    => remote[Server] \in Clients

\* How far a process is says how many blocks it has written and what its QP is.
Progress ==
  \A p \in Peers :
    /\ ~OverTcp => /\ wrote[p] = 0
                   /\ spc[p] \notin {"create", "accept", "readData", "sync", "readSync"}
    /\ OverTcp => /\ spc[p] \notin {"awaitHello", "reply", "awaitAck", "awaitReply", "ack"}
                  /\ spc[p] \in {"start", "accept", "create", "exchange"} => wrote[p] = 0
                  /\ spc[p] \in {"readData", "init", "rtr", "rts", "sync"} => wrote[p] = 1
                  /\ spc[p] \in {"readSync", "done"} => wrote[p] = 2
    /\ spc[p] \in {"sync", "readSync"} => qp[p] = "RTS"
    /\ wrote[p] = 2 => qp[p] = "RTS" /\ spc[p] \in {"readSync", "done", "dead"}

\* Over TCP a process that is done has read the closing block of the other side.
Met ==
  OverTcp => \A p \in Peers : spc[p] = "done" => remote[p] \in Peers /\ wrote[remote[p]] = 2

\* The size of the registered buffer is fixed when the server's QP is created.
Sized ==
  (spc[Server] \notin {"start", "accept", "create", "done", "dead"} \/ qp[Server] # "none")
    => bytes = BytesFor(queues)

SetupInv ==
  /\ TypeOK
  /\ NobodyYet /\ Answers /\ Paired /\ Chosen /\ Progress /\ Met /\ Sized

-----------------------------------------------------------------------------
(* The size of the buffer. *)

LEMMA BytesType ==
  ASSUME variant \in Variants, NEW n \in Nat
  PROVE  BytesFor(n) \in Nat
  <1>1. MaskBytes(n) \in Nat /\ RcBytes(n) \in Nat /\ TcpBytes(n) \in Nat
    BY DEF MaskBytes, RcBytes, TcpBytes
  <1>2. UcBytes(n) \in Nat
    <2> DEFINE k == IF n >= 64 THEN 64 ELSE IF n % 64 = 0 THEN n ELSE ((n \div 64) + 1) * 64
    <2>1. k \in Nat
      OBVIOUS
    <2> HIDE DEF k
    <2>2. k * NumThreads \in Nat
      BY <2>1, SetupAssumption
    <2> QED
      BY <2>2 DEF UcBytes, k
  <1> QED
    BY <1>1, <1>2 DEF BytesFor, Variants

-----------------------------------------------------------------------------
(* Initial states and steps. *)

LEMMA SetupStart == Init => SetupInv
  <1> SUFFICES ASSUME Init
               PROVE  SetupInv
    OBVIOUS
  <1> USE SetupAssumption DEF Init, Peers, Nobody, OverTcp
  <1>1. TypeOK
    <2>1. /\ variant \in Variants /\ queues \in QueueCounts /\ bytes \in Nat /\ fault \in BOOLEAN
          /\ spc \in [Peers -> Locations]
          /\ backlog \subseteq Clients
      BY DEF Locations
    <2>2. /\ qp \in [Peers -> {"none", "RESET", "INIT", "RTR", "RTS"}]
          /\ remote \in [Peers -> Peers \cup {Nobody}]
          /\ inbox \in [Peers -> SUBSET Datagram]
          /\ wrote \in [Peers -> 0 .. 2]
      OBVIOUS
    <2>3. \A p \in Peers : qp[p] = "none"
      OBVIOUS
    <2> QED
      BY <2>1, <2>2, <2>3 DEF TypeOK
  <1>2. NobodyYet /\ Answers /\ Paired
    BY DEF NobodyYet, Answers, Paired
  <1>3. Chosen /\ Sized
    BY DEF Chosen, Sized
  <1>4. Progress /\ Met
    BY DEF Progress, Met
  <1> QED
    BY <1>1, <1>2, <1>3, <1>4 DEF SetupInv

LEMMA CreateStep ==
  ASSUME SetupInv, NEW p \in Peers, Create(p)
  PROVE  SetupInv'
  <1> USE SetupAssumption DEF SetupInv, Peers, Nobody, OverTcp
  <1>0. BytesFor(queues)' = BytesFor(queues)
    BY DEF BytesFor, Create
  <1>9. BytesFor(queues) \in Nat
    BY BytesType DEF TypeOK
  <1>1. TypeOK'
    BY <1>9 DEF TypeOK, Locations, Create, Goto
  <1>2. NobodyYet'
    BY DEF NobodyYet, TypeOK, Waiting, Create, Goto, Answers, Paired, Chosen
  <1>3. Answers'
    BY DEF Answers, TypeOK, Create, Goto, NobodyYet, Waiting, Paired, Chosen
  <1>4. Paired'
    BY DEF Paired, TypeOK, Create, Goto, NobodyYet, Waiting, Answers, Chosen
  <1>5. Chosen'
    BY DEF Chosen, TypeOK, Create, Goto, NobodyYet, Waiting, Answers, Paired
  <1>6. Progress'
    BY DEF Progress, TypeOK, Create, Goto
  <1>7. Met'
    BY DEF Met, TypeOK, Create, Goto, Progress
  <1>8. Sized'
    BY <1>0 DEF Sized, TypeOK, Create, Goto
  <1> QED
    BY <1>1, <1>2, <1>3, <1>4, <1>5, <1>6, <1>7, <1>8

LEMMA NoDeviceStep ==
  ASSUME SetupInv, NEW p \in Peers, NoDevice(p)
  PROVE  SetupInv'
  <1> USE SetupAssumption DEF SetupInv, Peers, Nobody, OverTcp
  <1>1. TypeOK'
    BY DEF TypeOK, Locations, NoDevice, Goto
  <1>2. NobodyYet'
    BY DEF NobodyYet, TypeOK, Waiting, NoDevice, Goto, Answers, Paired, Chosen
  <1>3. Answers'
    BY DEF Answers, TypeOK, NoDevice, Goto, NobodyYet, Waiting, Paired, Chosen
  <1>4. Paired'
    BY DEF Paired, TypeOK, NoDevice, Goto, NobodyYet, Waiting, Answers, Chosen
  <1>5. Chosen'
    BY DEF Chosen, TypeOK, NoDevice, Goto, NobodyYet, Waiting, Answers, Paired
  <1>6. Progress'
    BY DEF Progress, TypeOK, NoDevice, Goto
  <1>7. Met'
    BY DEF Met, TypeOK, NoDevice, Goto, Progress
  <1>8. Sized'
    BY DEF Sized, TypeOK, NoDevice, Goto, BytesFor
  <1> QED
    BY <1>1, <1>2, <1>3, <1>4, <1>5, <1>6, <1>7, <1>8

LEMMA LoseStep ==
  ASSUME SetupInv, NEW p \in Peers, Lose(p)
  PROVE  SetupInv'
  <1> USE SetupAssumption DEF SetupInv, Peers, Nobody, OverTcp
  <1>1. TypeOK'
    BY DEF TypeOK, Locations, Lose, Take, Datagram
  <1>2. NobodyYet'
    BY DEF NobodyYet, TypeOK, Waiting, Lose, Take, Datagram, Answers, Paired, Chosen
  <1>3. Answers'
    BY DEF Answers, TypeOK, Lose, Take, Datagram, NobodyYet, Waiting, Paired, Chosen
  <1>4. Paired'
    BY DEF Paired, TypeOK, Lose, Take, Datagram, NobodyYet, Waiting, Answers, Chosen
  <1>5. Chosen'
    BY DEF Chosen, TypeOK, Lose, Take, Datagram, NobodyYet, Waiting, Answers, Paired
  <1>6. Progress'
    BY DEF Progress, TypeOK, Lose, Take, Datagram
  <1>7. Met'
    BY DEF Met, TypeOK, Lose, Take, Datagram, Progress
  <1>8. Sized'
    BY DEF Sized, TypeOK, Lose, Take, Datagram, BytesFor
  <1> QED
    BY <1>1, <1>2, <1>3, <1>4, <1>5, <1>6, <1>7, <1>8

LEMMA SocketErrorStep ==
  ASSUME SetupInv, NEW p \in Peers, SocketError(p)
  PROVE  SetupInv'
  <1> USE SetupAssumption DEF SetupInv, Peers, Nobody, OverTcp
  <1>1. TypeOK'
    BY DEF TypeOK, Locations, SocketError, Goto
  <1>2. NobodyYet'
    BY DEF NobodyYet, TypeOK, Waiting, SocketError, Goto, Answers, Paired, Chosen
  <1>3. Answers'
    BY DEF Answers, TypeOK, SocketError, Goto, NobodyYet, Waiting, Paired, Chosen
  <1>4. Paired'
    BY DEF Paired, TypeOK, SocketError, Goto, NobodyYet, Waiting, Answers, Chosen
  <1>5. Chosen'
    BY DEF Chosen, TypeOK, SocketError, Goto, NobodyYet, Waiting, Answers, Paired
  <1>6. Progress'
    BY DEF Progress, TypeOK, SocketError, Goto
  <1>7. Met'
    BY DEF Met, TypeOK, SocketError, Goto, Progress
  <1>8. Sized'
    BY DEF Sized, TypeOK, SocketError, Goto, BytesFor
  <1> QED
    BY <1>1, <1>2, <1>3, <1>4, <1>5, <1>6, <1>7, <1>8

LEMMA SyncWriteStep ==
  ASSUME SetupInv, NEW p \in Peers, SyncWrite(p)
  PROVE  SetupInv'
  <1> USE SetupAssumption DEF SetupInv, Peers, Nobody, OverTcp
  <1>1. TypeOK'
    BY DEF TypeOK, Locations, SyncWrite, Goto, Progress
  <1>2. NobodyYet'
    BY DEF NobodyYet, TypeOK, Waiting, SyncWrite, Goto, Answers, Paired, Chosen
  <1>3. Answers'
    BY DEF Answers, TypeOK, SyncWrite, Goto, NobodyYet, Waiting, Paired, Chosen
  <1>4. Paired'
    BY DEF Paired, TypeOK, SyncWrite, Goto, NobodyYet, Waiting, Answers, Chosen
  <1>5. Chosen'
    BY DEF Chosen, TypeOK, SyncWrite, Goto, NobodyYet, Waiting, Answers, Paired
  <1>6. Progress'
    BY DEF Progress, TypeOK, SyncWrite, Goto
  <1>7. Met'
    BY DEF Met, TypeOK, SyncWrite, Goto, Progress
  <1>8. Sized'
    BY DEF Sized, TypeOK, SyncWrite, Goto, BytesFor
  <1> QED
    BY <1>1, <1>2, <1>3, <1>4, <1>5, <1>6, <1>7, <1>8

LEMMA SyncReadStep ==
  ASSUME SetupInv, NEW p \in Peers, SyncRead(p)
  PROVE  SetupInv'
  <1> USE SetupAssumption DEF SetupInv, Peers, Nobody, OverTcp
  <1>1. TypeOK'
    BY DEF TypeOK, Locations, SyncRead, Goto, OtherEnd, BlockThere
  <1>2. NobodyYet'
    BY DEF NobodyYet, TypeOK, Waiting, SyncRead, Goto, OtherEnd, BlockThere, Answers, Paired, Chosen
  <1>3. Answers'
    BY DEF Answers, TypeOK, SyncRead, Goto, OtherEnd, BlockThere, NobodyYet, Waiting, Paired, Chosen
  <1>4. Paired'
    BY DEF Paired, TypeOK, SyncRead, Goto, OtherEnd, BlockThere, NobodyYet, Waiting, Answers, Chosen
  <1>5. Chosen'
    BY DEF Chosen, TypeOK, SyncRead, Goto, OtherEnd, BlockThere, NobodyYet, Waiting, Answers, Paired
  <1>6. Progress'
    BY DEF Progress, TypeOK, SyncRead, Goto, OtherEnd, BlockThere
  <1>7. Met'
    BY DEF Met, TypeOK, SyncRead, Goto, OtherEnd, BlockThere, Progress
  <1>8. Sized'
    BY DEF Sized, TypeOK, SyncRead, Goto, OtherEnd, BlockThere, BytesFor
  <1> QED
    BY <1>1, <1>2, <1>3, <1>4, <1>5, <1>6, <1>7, <1>8

LEMMA SyncFailsStep ==
  ASSUME SetupInv, NEW p \in Peers, SyncFails(p)
  PROVE  SetupInv'
  <1> USE SetupAssumption DEF SetupInv, Peers, Nobody, OverTcp
  <1>1. TypeOK'
    BY DEF TypeOK, Locations, SyncFails, Goto
  <1>2. NobodyYet'
    BY DEF NobodyYet, TypeOK, Waiting, SyncFails, Goto, Answers, Paired, Chosen
  <1>3. Answers'
    BY DEF Answers, TypeOK, SyncFails, Goto, NobodyYet, Waiting, Paired, Chosen
  <1>4. Paired'
    BY DEF Paired, TypeOK, SyncFails, Goto, NobodyYet, Waiting, Answers, Chosen
  <1>5. Chosen'
    BY DEF Chosen, TypeOK, SyncFails, Goto, NobodyYet, Waiting, Answers, Paired
  <1>6. Progress'
    BY DEF Progress, TypeOK, SyncFails, Goto
  <1>7. Met'
    BY DEF Met, TypeOK, SyncFails, Goto, Progress
  <1>8. Sized'
    BY DEF Sized, TypeOK, SyncFails, Goto, BytesFor
  <1> QED
    BY <1>1, <1>2, <1>3, <1>4, <1>5, <1>6, <1>7, <1>8

LEMMA ToInitStep ==
  ASSUME SetupInv, NEW p \in Peers, ToInit(p)
  PROVE  SetupInv'
  <1> USE SetupAssumption DEF SetupInv, Peers, Nobody, OverTcp
  <1>1. TypeOK'
    BY DEF TypeOK, Locations, ToInit, Goto, Paired, Chosen
  <1>2. NobodyYet'
    BY DEF NobodyYet, TypeOK, Waiting, ToInit, Goto, Answers, Paired, Chosen
  <1>3. Answers'
    BY DEF Answers, TypeOK, ToInit, Goto, NobodyYet, Waiting, Paired, Chosen
  <1>4. Paired'
    BY DEF Paired, TypeOK, ToInit, Goto, NobodyYet, Waiting, Answers, Chosen
  <1>5. Chosen'
    BY DEF Chosen, TypeOK, ToInit, Goto, NobodyYet, Waiting, Answers, Paired
  <1>6. Progress'
    BY DEF Progress, TypeOK, ToInit, Goto
  <1>7. Met'
    BY DEF Met, TypeOK, ToInit, Goto, Progress
  <1>8. Sized'
    BY DEF Sized, TypeOK, ToInit, Goto, BytesFor
  <1> QED
    BY <1>1, <1>2, <1>3, <1>4, <1>5, <1>6, <1>7, <1>8

LEMMA ToRtrStep ==
  ASSUME SetupInv, NEW p \in Peers, ToRtr(p)
  PROVE  SetupInv'
  <1> USE SetupAssumption DEF SetupInv, Peers, Nobody, OverTcp
  <1>1. TypeOK'
    BY DEF TypeOK, Locations, ToRtr, Goto, Paired, Chosen
  <1>2. NobodyYet'
    BY DEF NobodyYet, TypeOK, Waiting, ToRtr, Goto, Answers, Paired, Chosen
  <1>3. Answers'
    BY DEF Answers, TypeOK, ToRtr, Goto, NobodyYet, Waiting, Paired, Chosen
  <1>4. Paired'
    BY DEF Paired, TypeOK, ToRtr, Goto, NobodyYet, Waiting, Answers, Chosen
  <1>5. Chosen'
    BY DEF Chosen, TypeOK, ToRtr, Goto, NobodyYet, Waiting, Answers, Paired
  <1>6. Progress'
    BY DEF Progress, TypeOK, ToRtr, Goto
  <1>7. Met'
    BY DEF Met, TypeOK, ToRtr, Goto, Progress
  <1>8. Sized'
    BY DEF Sized, TypeOK, ToRtr, Goto, BytesFor
  <1> QED
    BY <1>1, <1>2, <1>3, <1>4, <1>5, <1>6, <1>7, <1>8

LEMMA ToRtsStep ==
  ASSUME SetupInv, NEW p \in Peers, ToRts(p)
  PROVE  SetupInv'
  <1> USE SetupAssumption DEF SetupInv, Peers, Nobody, OverTcp
  <1>1. TypeOK'
    BY DEF TypeOK, Locations, ToRts, Goto, AfterRts, Paired, Chosen
  <1>2. NobodyYet'
    BY DEF NobodyYet, TypeOK, Waiting, ToRts, Goto, AfterRts, Answers, Paired, Chosen
  <1>3. Answers'
    BY DEF Answers, TypeOK, ToRts, Goto, AfterRts, NobodyYet, Waiting, Paired, Chosen
  <1>4. Paired'
    BY DEF Paired, TypeOK, ToRts, Goto, AfterRts, NobodyYet, Waiting, Answers, Chosen
  <1>5. Chosen'
    BY DEF Chosen, TypeOK, ToRts, Goto, AfterRts, NobodyYet, Waiting, Answers, Paired
  <1>6. Progress'
    BY DEF Progress, TypeOK, ToRts, Goto, AfterRts
  <1>7. Met'
    BY DEF Met, TypeOK, ToRts, Goto, AfterRts, Progress
  <1>8. Sized'
    BY DEF Sized, TypeOK, ToRts, Goto, AfterRts, BytesFor
  <1> QED
    BY <1>1, <1>2, <1>3, <1>4, <1>5, <1>6, <1>7, <1>8

LEMMA HelloStep ==
  ASSUME SetupInv, NEW c \in Clients, Hello(c)
  PROVE  SetupInv'
  <1> USE SetupAssumption DEF SetupInv, Peers, Nobody, OverTcp
  <1>1. TypeOK'
    BY DEF TypeOK, Locations, Hello, Goto, Bound, Datagram
  <1>2. NobodyYet'
    BY DEF NobodyYet, TypeOK, Waiting, Hello, Goto, Bound, Datagram, Answers, Paired, Chosen
  <1>3. Answers'
    BY DEF Answers, TypeOK, Hello, Goto, Bound, Datagram, NobodyYet, Waiting, Paired, Chosen
  <1>4. Paired'
    BY DEF Paired, TypeOK, Hello, Goto, Bound, Datagram, NobodyYet, Waiting, Answers, Chosen
  <1>5. Chosen'
    BY DEF Chosen, TypeOK, Hello, Goto, Bound, Datagram, NobodyYet, Waiting, Answers, Paired
  <1>6. Progress'
    BY DEF Progress, TypeOK, Hello, Goto, Bound, Datagram
  <1>7. Met'
    BY DEF Met, TypeOK, Hello, Goto, Bound, Datagram, Progress
  <1>8. Sized'
    BY DEF Sized, TypeOK, Hello, Goto, Bound, Datagram, BytesFor
  <1> QED
    BY <1>1, <1>2, <1>3, <1>4, <1>5, <1>6, <1>7, <1>8

LEMMA TakeReplyStep ==
  ASSUME SetupInv, NEW c \in Clients, TakeReply(c)
  PROVE  SetupInv'
  <1> USE SetupAssumption DEF SetupInv, Peers, Nobody, OverTcp
  <1>1. TypeOK'
    BY DEF TypeOK, Locations, TakeReply, Goto, Take, Datagram, Answers
  <1>2. NobodyYet'
    BY DEF NobodyYet, TypeOK, Waiting, TakeReply, Goto, Take, Datagram, Answers, Paired, Chosen
  <1>3. Answers'
    BY DEF Answers, TypeOK, TakeReply, Goto, Take, Datagram, NobodyYet, Waiting, Paired, Chosen
  <1>4. Paired'
    BY DEF Paired, TypeOK, TakeReply, Goto, Take, Datagram, NobodyYet, Waiting, Answers, Chosen
  <1>5. Chosen'
    BY DEF Chosen, TypeOK, TakeReply, Goto, Take, Datagram, NobodyYet, Waiting, Answers, Paired
  <1>6. Progress'
    BY DEF Progress, TypeOK, TakeReply, Goto, Take, Datagram
  <1>7. Met'
    BY DEF Met, TypeOK, TakeReply, Goto, Take, Datagram, Progress
  <1>8. Sized'
    BY DEF Sized, TypeOK, TakeReply, Goto, Take, Datagram, BytesFor
  <1> QED
    BY <1>1, <1>2, <1>3, <1>4, <1>5, <1>6, <1>7, <1>8

LEMMA AckStep ==
  ASSUME SetupInv, NEW c \in Clients, Ack(c)
  PROVE  SetupInv'
  <1> USE SetupAssumption DEF SetupInv, Peers, Nobody, OverTcp
  <1>1. TypeOK'
    BY DEF TypeOK, Locations, Ack, Goto, Send, Datagram
  <1>2. NobodyYet'
    BY DEF NobodyYet, TypeOK, Waiting, Ack, Goto, Send, Datagram, Answers, Paired, Chosen
  <1>3. Answers'
    BY DEF Answers, TypeOK, Ack, Goto, Send, Datagram, NobodyYet, Waiting, Paired, Chosen
  <1>4. Paired'
    BY DEF Paired, TypeOK, Ack, Goto, Send, Datagram, NobodyYet, Waiting, Answers, Chosen
  <1>5. Chosen'
    BY DEF Chosen, TypeOK, Ack, Goto, Send, Datagram, NobodyYet, Waiting, Answers, Paired
  <1>6. Progress'
    BY DEF Progress, TypeOK, Ack, Goto, Send, Datagram
  <1>7. Met'
    BY DEF Met, TypeOK, Ack, Goto, Send, Datagram, Progress
  <1>8. Sized'
    BY DEF Sized, TypeOK, Ack, Goto, Send, Datagram, BytesFor
  <1> QED
    BY <1>1, <1>2, <1>3, <1>4, <1>5, <1>6, <1>7, <1>8

LEMMA ConnectStep ==
  ASSUME SetupInv, NEW c \in Clients, Connect(c)
  PROVE  SetupInv'
  <1> USE SetupAssumption DEF SetupInv, Peers, Nobody, OverTcp
  <1>1. TypeOK'
    BY DEF TypeOK, Locations, Connect, Goto
  <1>2. NobodyYet'
    BY DEF NobodyYet, TypeOK, Waiting, Connect, Goto, Answers, Paired, Chosen
  <1>3. Answers'
    BY DEF Answers, TypeOK, Connect, Goto, NobodyYet, Waiting, Paired, Chosen
  <1>4. Paired'
    BY DEF Paired, TypeOK, Connect, Goto, NobodyYet, Waiting, Answers, Chosen
  <1>5. Chosen'
    BY DEF Chosen, TypeOK, Connect, Goto, NobodyYet, Waiting, Answers, Paired
  <1>6. Progress'
    BY DEF Progress, TypeOK, Connect, Goto
  <1>7. Met'
    BY DEF Met, TypeOK, Connect, Goto, Progress
  <1>8. Sized'
    BY DEF Sized, TypeOK, Connect, Goto, BytesFor
  <1> QED
    BY <1>1, <1>2, <1>3, <1>4, <1>5, <1>6, <1>7, <1>8

LEMMA BindStep ==
  ASSUME SetupInv, Bind
  PROVE  SetupInv'
  <1> USE SetupAssumption DEF SetupInv, Peers, Nobody, OverTcp
  <1>1. TypeOK'
    BY DEF TypeOK, Locations, Bind, Goto
  <1>2. NobodyYet'
    BY DEF NobodyYet, TypeOK, Waiting, Bind, Goto, Answers, Paired, Chosen
  <1>3. Answers'
    BY DEF Answers, TypeOK, Bind, Goto, NobodyYet, Waiting, Paired, Chosen
  <1>4. Paired'
    BY DEF Paired, TypeOK, Bind, Goto, NobodyYet, Waiting, Answers, Chosen
  <1>5. Chosen'
    BY DEF Chosen, TypeOK, Bind, Goto, NobodyYet, Waiting, Answers, Paired
  <1>6. Progress'
    BY DEF Progress, TypeOK, Bind, Goto
  <1>7. Met'
    BY DEF Met, TypeOK, Bind, Goto, Progress
  <1>8. Sized'
    BY DEF Sized, TypeOK, Bind, Goto, BytesFor
  <1> QED
    BY <1>1, <1>2, <1>3, <1>4, <1>5, <1>6, <1>7, <1>8

LEMMA TakeHelloStep ==
  ASSUME SetupInv, TakeHello
  PROVE  SetupInv'
  <1> USE SetupAssumption DEF SetupInv, Peers, Nobody, OverTcp
  <1>1. TypeOK'
    BY DEF TypeOK, Locations, TakeHello, Goto, Take, Datagram, NobodyYet, Waiting, Progress
  <1>2. NobodyYet'
    BY DEF NobodyYet, TypeOK, Waiting, TakeHello, Goto, Take, Datagram, Answers, Paired, Chosen
  <1>3. Answers'
    BY DEF Answers, TypeOK, TakeHello, Goto, Take, Datagram, NobodyYet, Waiting, Paired, Chosen, Progress
  <1>4. Paired'
    BY DEF Paired, TypeOK, TakeHello, Goto, Take, Datagram, NobodyYet, Waiting, Answers, Chosen, Progress
  <1>5. Chosen'
    BY DEF Chosen, TypeOK, TakeHello, Goto, Take, Datagram, NobodyYet, Waiting, Answers, Paired, Progress
  <1>6. Progress'
    BY DEF Progress, TypeOK, TakeHello, Goto, Take, Datagram
  <1>7. Met'
    BY DEF Met, TypeOK, TakeHello, Goto, Take, Datagram, Progress
  <1>8. Sized'
    BY DEF Sized, TypeOK, TakeHello, Goto, Take, Datagram, BytesFor
  <1> QED
    BY <1>1, <1>2, <1>3, <1>4, <1>5, <1>6, <1>7, <1>8

LEMMA ReplyStep ==
  ASSUME SetupInv, Reply
  PROVE  SetupInv'
  <1> USE SetupAssumption DEF SetupInv, Peers, Nobody, OverTcp
  <1>1. TypeOK'
    BY DEF TypeOK, Locations, Reply, Goto, Send, ReplyData, Datagram, Chosen
  <1>2. NobodyYet'
    BY DEF NobodyYet, TypeOK, Waiting, Reply, Goto, Send, ReplyData, Datagram, Answers, Paired, Chosen
  <1>3. Answers'
    BY DEF Answers, TypeOK, Reply, Goto, Send, ReplyData, Datagram, NobodyYet, Waiting, Paired, Chosen
  <1>4. Paired'
    BY DEF Paired, TypeOK, Reply, Goto, Send, ReplyData, Datagram, NobodyYet, Waiting, Answers, Chosen
  <1>5. Chosen'
    BY DEF Chosen, TypeOK, Reply, Goto, Send, ReplyData, Datagram, NobodyYet, Waiting, Answers, Paired
  <1>6. Progress'
    BY DEF Progress, TypeOK, Reply, Goto, Send, ReplyData, Datagram
  <1>7. Met'
    BY DEF Met, TypeOK, Reply, Goto, Send, ReplyData, Datagram, Progress
  <1>8. Sized'
    BY DEF Sized, TypeOK, Reply, Goto, Send, ReplyData, Datagram, BytesFor
  <1> QED
    BY <1>1, <1>2, <1>3, <1>4, <1>5, <1>6, <1>7, <1>8

LEMMA TakeAckStep ==
  ASSUME SetupInv, TakeAck
  PROVE  SetupInv'
  <1> USE SetupAssumption DEF SetupInv, Peers, Nobody, OverTcp
  <1>1. TypeOK'
    BY DEF TypeOK, Locations, TakeAck, Goto, Take, AfterAck, Datagram
  <1>2. NobodyYet'
    BY DEF NobodyYet, TypeOK, Waiting, TakeAck, Goto, Take, AfterAck, Datagram, Answers, Paired, Chosen
  <1>3. Answers'
    BY DEF Answers, TypeOK, TakeAck, Goto, Take, AfterAck, Datagram, NobodyYet, Waiting, Paired, Chosen
  <1>4. Paired'
    BY DEF Paired, TypeOK, TakeAck, Goto, Take, AfterAck, Datagram, NobodyYet, Waiting, Answers, Chosen
  <1>5. Chosen'
    BY DEF Chosen, TypeOK, TakeAck, Goto, Take, AfterAck, Datagram, NobodyYet, Waiting, Answers, Paired
  <1>6. Progress'
    BY DEF Progress, TypeOK, TakeAck, Goto, Take, AfterAck, Datagram
  <1>7. Met'
    BY DEF Met, TypeOK, TakeAck, Goto, Take, AfterAck, Datagram, Progress
  <1>8. Sized'
    BY DEF Sized, TypeOK, TakeAck, Goto, Take, AfterAck, Datagram, BytesFor
  <1> QED
    BY <1>1, <1>2, <1>3, <1>4, <1>5, <1>6, <1>7, <1>8

LEMMA ListenStep ==
  ASSUME SetupInv, Listen
  PROVE  SetupInv'
  <1> USE SetupAssumption DEF SetupInv, Peers, Nobody, OverTcp
  <1>1. TypeOK'
    BY DEF TypeOK, Locations, Listen, Goto
  <1>2. NobodyYet'
    BY DEF NobodyYet, TypeOK, Waiting, Listen, Goto, Answers, Paired, Chosen
  <1>3. Answers'
    BY DEF Answers, TypeOK, Listen, Goto, NobodyYet, Waiting, Paired, Chosen
  <1>4. Paired'
    BY DEF Paired, TypeOK, Listen, Goto, NobodyYet, Waiting, Answers, Chosen
  <1>5. Chosen'
    BY DEF Chosen, TypeOK, Listen, Goto, NobodyYet, Waiting, Answers, Paired
  <1>6. Progress'
    BY DEF Progress, TypeOK, Listen, Goto
  <1>7. Met'
    BY DEF Met, TypeOK, Listen, Goto, Progress
  <1>8. Sized'
    BY DEF Sized, TypeOK, Listen, Goto, BytesFor
  <1> QED
    BY <1>1, <1>2, <1>3, <1>4, <1>5, <1>6, <1>7, <1>8

LEMMA AcceptStep ==
  ASSUME SetupInv, Accept
  PROVE  SetupInv'
  <1> USE SetupAssumption DEF SetupInv, Peers, Nobody, OverTcp
  <1>1. TypeOK'
    BY DEF TypeOK, Locations, Accept, Goto
  <1>2. NobodyYet'
    BY DEF NobodyYet, TypeOK, Waiting, Accept, Goto, Answers, Paired, Chosen
  <1>3. Answers'
    BY DEF Answers, TypeOK, Accept, Goto, NobodyYet, Waiting, Paired, Chosen, Progress
  <1>4. Paired'
    BY DEF Paired, TypeOK, Accept, Goto, NobodyYet, Waiting, Answers, Chosen, Progress
  <1>5. Chosen'
    BY DEF Chosen, TypeOK, Accept, Goto, NobodyYet, Waiting, Answers, Paired, Progress
  <1>6. Progress'
    BY DEF Progress, TypeOK, Accept, Goto
  <1>7. Met'
    BY DEF Met, TypeOK, Accept, Goto, Progress
  <1>8. Sized'
    BY DEF Sized, TypeOK, Accept, Goto, BytesFor
  <1> QED
    BY <1>1, <1>2, <1>3, <1>4, <1>5, <1>6, <1>7, <1>8

LEMMA SetupStep == SetupInv /\ [Next]_vars => SetupInv'
  <1> SUFFICES ASSUME SetupInv, [Next]_vars
               PROVE  SetupInv'
    OBVIOUS
  <1>1. ASSUME NEW p \in Peers, Process(p)
        PROVE  SetupInv'
    BY <1>1, CreateStep, SyncWriteStep, SyncReadStep, SyncFailsStep, ToInitStep, ToRtrStep,
       ToRtsStep DEF Process
  <1>2. ASSUME NEW c \in Clients, ClientStep(c)
        PROVE  SetupInv'
    BY <1>1, <1>2, HelloStep, TakeReplyStep, AckStep, ConnectStep DEF ClientStep, Peers
  <1>3. CASE ServerStep
    BY <1>1, <1>3, BindStep, TakeHelloStep, ReplyStep, TakeAckStep, ListenStep, AcceptStep
    DEF ServerStep, Peers
  <1>4. CASE Faults
    BY <1>4, NoDeviceStep, LoseStep, SocketErrorStep DEF Faults
  <1>5. CASE UNCHANGED vars
    <2> USE <1>5 DEF vars, SetupInv, OverTcp
    <2>1. TypeOK' /\ Answers' /\ Paired' /\ Chosen'
      BY DEF TypeOK, Answers, Paired, Chosen
    <2>2. NobodyYet' /\ Progress' /\ Met' /\ Sized'
      BY DEF NobodyYet, Waiting, Progress, Met, Sized, BytesFor
    <2> QED
      BY <2>1, <2>2
  <1> QED
    BY <1>2, <1>3, <1>4, <1>5 DEF Next

LEMMA SetupAlways == Spec => []SetupInv
  BY SetupStart, SetupStep, PTL DEF Spec

-----------------------------------------------------------------------------
(* The results. *)

\* Every variable has its type, and no QP leaves RESET without the data of another
\* process: modify_qp_to_rtr never runs on an empty remote_props.
THEOREM SetupTypeCorrect == Spec => []TypeOK
  <1>1. SetupInv => TypeOK
    BY DEF SetupInv
  <1> QED
    BY <1>1, SetupAlways, PTL

\* However many clients call do_uc, whatever datagrams are lost or come in between and
\* whichever socket call fails: a client whose QP is past RESET is connected to the
\* server and the server to it, so at most one client ever is.
THEOREM MutualCorrect == Spec => []Mutual
  <1>1. SetupInv => Mutual
    BY DEF SetupInv, Paired, Mutual
  <1> QED
    BY <1>1, SetupAlways, PTL

\* Over TCP connect_qp returns on either side only when both QPs are in RTS: the
\* closing block of sock_sync_data is written after modify_qp_to_rts, and the two
\* blocks of a process are never mistaken for one another.
THEOREM SyncedCorrect == Spec => []SyncedOnReturn
  <1>1. SetupInv => SyncedOnReturn
    BY DEF SetupInv, Progress, Met, SyncedOnReturn
  <1> QED
    BY <1>1, SetupAlways, PTL

\* Up to 64 queues the buffer of rdma_uc.cc holds 64 bytes for every thread.
LEMMA UcBytesUpTo64 ==
  ASSUME NEW n \in Nat \ {0}, n <= 64
  PROVE  UcBytes(n) = 64 * NumThreads
  <1>1. n # 64 => n % 64 # 0 /\ n \div 64 = 0
    OBVIOUS
  <1>2. (IF n >= 64 THEN 64 ELSE IF n % 64 = 0 THEN n ELSE ((n \div 64) + 1) * 64) = 64
    BY <1>1
  <1> QED
    BY <1>2 DEF UcBytes

\* For every number of threads and every number of queues up to 64 the threads' scan of
\* their vectors, eight bytes at a time, stays inside the buffer resources_create
\* registered.  The bound on the queues is needed: beyond, the buffer is too small.
THEOREM ScanCorrect == Spec => []ScanInBounds
  <1>1. SetupInv => ScanInBounds
    <2> SUFFICES ASSUME SetupInv, variant = "uc", queues <= 64, qp[Server] # "none"
                 PROVE  ScanEnd <= bytes
      BY DEF ScanInBounds
    <2>1. queues \in Nat \ {0} /\ NumThreads \in Nat \ {0}
      BY SetupAssumption DEF SetupInv, TypeOK
    <2>2. bytes = 64 * NumThreads
      BY <2>1, UcBytesUpTo64 DEF SetupInv, Sized, BytesFor
    <2>3. ((queues + 7) \div 8) * 8 <= 64
      BY <2>1
    <2>4. queues * (NumThreads - 1) <= 64 * (NumThreads - 1)
      BY <2>1
    <2>5. queues * (NumThreads - 1) \in Int /\ ((queues + 7) \div 8) * 8 \in Int
      BY <2>1
    <2> QED
      BY <2>1, <2>2, <2>3, <2>4, <2>5 DEF ScanEnd
  <1> QED
    BY <1>1, SetupAlways, PTL
=============================================================================
