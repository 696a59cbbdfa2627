------------------------------ MODULE RdmaVerbs ------------------------------
(***************************************************************************)
(* The RDMA device as the servers use it: one unreliable-datagram queue    *)
(* pair per connection, each with a receive queue, a send queue and one    *)
(* completion queue shared by both directions, plus the registered buffers *)
(* buf_recv and buf_send.                                                  *)
(*                                                                         *)
(* The device and libibverbs are not part of the repository; what is here  *)
(* is what ServerRDMAConnection.cc asks of them.  Work requests keep the   *)
(* numbering of the source: a receive has wr_id in NumBufs..2*NumBufs-1, a *)
(* send has wr_id in 0..NumBufs-1, and buffer b serves receive b + NumBufs *)
(* and send b.                                                             *)
(*                                                                         *)
(* A packet is known by its number, its place in the log of everything the *)
(* clients ever sent; that number is all the buffers hold.  The bytes the  *)
(* server reads (priority in 52 and 53, terminate marker in 42 and 43) and *)
(* the source QP in the completion are fields of the log entry.            *)
(***************************************************************************)
EXTENDS Integers, Sequences, FiniteSets

CONSTANTS
  NumQueues,      \* NUM_QUEUES: connections, each with its own QP and CQ
  BuffersPerQ,    \* buffersPerQ: receive buffers posted on each QP at start
  RxDepth,        \* rx_depth: capacity of a send queue and of a receive queue
  NumPriorities,  \* numberOfPriorities
  Sources,        \* QP numbers of the clients
  MaxPackets      \* bound: packets the clients send in one behaviour

ASSUME VerbsAssumption ==
  /\ NumQueues \in Nat \ {0}
  /\ BuffersPerQ \in Nat \ {0}
  /\ RxDepth \in Nat \ {0}
  /\ BuffersPerQ <= RxDepth      \* the constructor's receives all fit
  /\ NumPriorities \in Nat \ {0}
  /\ MaxPackets \in Nat

VARIABLES
  rq,       \* rq[q]: receives posted on QP q and not yet consumed (wr_ids)
  cq,       \* cq[q]: completions the device wrote and nobody polled yet
  sq,       \* sq[q]: sends posted on QP q and not yet transmitted
  sqDone,   \* sqDone[q]: sends transmitted whose slot is still taken; TRUE = signaled
  bufRecv,  \* bufRecv[b]: number of the packet last written into buf_recv[b]
  bufSend,  \* bufSend[b]: number of the packet last copied into buf_send[b]
  sent,     \* log of the packets sent by the clients
  replies   \* replies[i]: where responses carrying packet i were sent, in order

verbsVars == <<rq, cq, sq, sqDone, bufRecv, bufSend, sent, replies>>

-----------------------------------------------------------------------------
Queues == 0 .. NumQueues - 1
Priorities == 0 .. NumPriorities - 1
NumBufs == BuffersPerQ * NumQueues           \* recv_bufs_num
SendIds == 0 .. NumBufs - 1
RecvIds == NumBufs .. 2 * NumBufs - 1
PacketIds == 1 .. MaxPackets

\* src: client QP; prio: bytes 52 and 53; last: bytes 42 and 43 are both 255.
Packet == [src : Sources, prio : Priorities, last : BOOLEAN]

\* ibv_wc: work request number and, for a receive, the QP of the sender.
Completion == [wr_id : SendIds \cup RecvIds, src_qp : Sources]

\* ibv_send_wr; the payload is copied when the request is posted (inline).
SendRequest == [wr_id : SendIds, qpn : Sources, pkt : 0 .. MaxPackets, signal : BOOLEAN]

\* The test that tells receives from sends in every completion loop.
IsRecv(c) == c.wr_id >= NumBufs

\* The packet in the buffer of a receive work request.
PacketIn(bufID) == sent[bufRecv[bufID - NumBufs]]

\* Mutation: the posting loop starts one buffer too late.
InitialRecvsOffByOne(q) == [i \in 1 .. BuffersPerQ |-> NumBufs + q * BuffersPerQ + i]

\* Receive numbers the constructor posts on QP q, in posting order.
InitialRecvs(q) == [i \in 1 .. BuffersPerQ |-> NumBufs + q * BuffersPerQ + i - 1]

VerbsInit ==
  /\ rq = [q \in Queues |-> InitialRecvs(q)]
  /\ cq = [q \in Queues |-> <<>>]
  /\ sq = [q \in Queues |-> <<>>]
  /\ sqDone = [q \in Queues |-> <<>>]
  /\ bufRecv = [b \in SendIds |-> 0]
  /\ bufSend = [b \in SendIds |-> 0]
  /\ sent = <<>>
  /\ replies = [i \in PacketIds |-> <<>>]

-----------------------------------------------------------------------------
(* Steps of the device. *)

\* A packet reaches QP q while a receive is posted: the device takes the oldest
\* receive, writes the packet into its buffer and completes it.
NicReceive(q, pkt) ==
  /\ Len(sent) < MaxPackets
  /\ rq[q] # <<>>
  /\ sent' = Append(sent, pkt)
  /\ bufRecv' = [bufRecv EXCEPT ![Head(rq[q]) - NumBufs] = Len(sent) + 1]
  /\ rq' = [rq EXCEPT ![q] = Tail(@)]
  /\ cq' = [cq EXCEPT ![q] = Append(@, [wr_id |-> Head(rq[q]), src_qp |-> pkt.src])]
  /\ UNCHANGED <<sq, sqDone, bufSend, replies>>

\* A packet reaches QP q while no receive is posted: datagrams are dropped.
NicDrop(q, pkt) ==
  /\ Len(sent) < MaxPackets
  /\ rq[q] = <<>>
  /\ sent' = Append(sent, pkt)
  /\ UNCHANGED <<rq, cq, sq, sqDone, bufRecv, bufSend, replies>>

\* The device transmits the oldest posted send.  Its slot stays taken until a
\* signaled completion that covers it is polled.
NicSend(q) ==
  /\ sq[q] # <<>>
  /\ LET wr == Head(sq[q]) IN
       /\ sq' = [sq EXCEPT ![q] = Tail(@)]
       /\ sqDone' = [sqDone EXCEPT ![q] = Append(@, wr.signal)]
       /\ replies' = IF wr.pkt \in PacketIds
                       THEN [replies EXCEPT ![wr.pkt] = Append(@, wr.qpn)]
                       ELSE replies
       /\ cq' = IF wr.signal
                  THEN [cq EXCEPT ![q] = Append(@, [wr_id |-> wr.wr_id, src_qp |-> wr.qpn])]
                  ELSE cq
  /\ UNCHANGED <<rq, bufRecv, bufSend, sent>>

-----------------------------------------------------------------------------
(* Calls of the program.  Each one says how it changes its own queues. *)

\* ibv_poll_cq(cq, 2*num_bufs, wc): how many completions one poll returns.
PollCount(q) ==
  IF Len(cq[q]) <= 2 * NumBufs THEN Len(cq[q]) ELSE 2 * NumBufs

Polled(q) == SubSeq(cq[q], 1, PollCount(q))

\* Polling m send completions frees the slots up to the m-th signaled send.
FreesSlots(q, k) ==
  /\ k # 0 => sqDone[q][k]
  /\ Cardinality({j \in 1 .. k : sqDone[q][j]})
       = Cardinality({j \in 1 .. PollCount(q) : ~IsRecv(cq[q][j])})

PollCq(q) ==
  /\ cq' = [cq EXCEPT ![q] = SubSeq(@, PollCount(q) + 1, Len(@))]
  /\ \E k \in 0 .. Len(sqDone[q]) :
       /\ FreesSlots(q, k)
       /\ sqDone' = [sqDone EXCEPT ![q] = SubSeq(@, k + 1, Len(@))]

\* Mutations: the receive is posted twice, or always on QP 0.
PostRecvTwice(q, wr_id) == rq' = [rq EXCEPT ![q] = @ \o <<wr_id, wr_id>>]
PostRecvOnFirst(q, wr_id) == rq' = [rq EXCEPT ![0] = Append(@, wr_id)]

\* pp_post_recv: receive wr_id goes to the tail of QP q's receive queue, which has room:
\* the servers ask for 16384 receives and have fewer buffers altogether.
PostRecvWR(q, wr_id) == rq' = [rq EXCEPT ![q] = Append(@, wr_id)]

\* pp_post_send fails with ENOMEM when no slot of the send queue is free.
SendQueueFull(q) == Len(sq[q]) + Len(sqDone[q]) >= RxDepth

\* Mutation: the response is sent straight from the receive buffer.
RecvPayload(wr_id) == bufRecv[wr_id]

\* The 20 bytes of buf_send[wr_id] travel with the request.
Payload(wr_id) == bufSend[wr_id]

\* pp_post_send
PostSendWR(q, qpn, wr_id, signal) ==
  sq' = IF SendQueueFull(q)
          THEN sq
          ELSE [sq EXCEPT ![q] =
                  Append(@, [wr_id |-> wr_id, qpn |-> qpn,
                             pkt |-> Payload(wr_id), signal |-> signal])]

-----------------------------------------------------------------------------
VerbsTypeOK ==
  /\ rq \in [Queues -> Seq(RecvIds)]
  /\ cq \in [Queues -> Seq(Completion)]
  /\ sq \in [Queues -> Seq(SendRequest)]
  /\ sqDone \in [Queues -> Seq(BOOLEAN)]
  /\ bufRecv \in [SendIds -> 0 .. MaxPackets]
  /\ bufSend \in [SendIds -> 0 .. MaxPackets]
  /\ sent \in Seq(Packet)
  /\ Len(sent) <= MaxPackets
  /\ replies \in [PacketIds -> Seq(Sources)]
=============================================================================
