---------------------------- MODULE ServerThreads ----------------------------
(***************************************************************************)
(* What the server programs have in common: threads that poll the          *)
(* completion queue of a connection, the request each one is serving, the  *)
(* flag that ends the run, and the release of the device.  The scheduler,  *)
(* which decides the request served next, is in the modules that extend    *)
(* this one.                                                               *)
(***************************************************************************)
EXTENDS RdmaVerbs, Functions

CONSTANTS
  NumThreads,      \* NUM_THREADS
  SignalInterval,  \* signalInterval: any value but 0, where rcnt % signalInterval would trap;
                   \* the programs compute theirs from rx_depth and recv_bufs_num
  NoReq            \* bufID and srcQP of a thread hold no request

ASSUME ServerAssumption ==
  /\ NumThreads \in Nat \ {0}
  /\ SignalInterval \in Nat \ {0}
  /\ NoReq \notin [bufID : RecvIds, srcQP : Sources]

VARIABLES
  pc,            \* pc[t]: where thread t is in its loop
  wc,            \* wc[t]: completions of the last poll not handled yet
  cur,           \* cur[t]: the request (bufID, srcQP) thread t is serving
  rcnt,          \* rcnt[q]: requests taken by the threads of connection q (conn->rcnt)
  terminateRun,  \* the flag every loop tests
  device         \* "closed" after thread 0 called pp_close_ctx, "crashed" if the process died

threadVars == <<pc, wc, cur, rcnt, terminateRun, device>>

-----------------------------------------------------------------------------
Threads == 0 .. NumThreads - 1
Req == [bufID : RecvIds, srcQP : Sources]

\* The connection of thread t; threads share one when there are more threads.
ConnOf(t) == t % NumQueues
Shared(t) == \E u \in Threads \ {t} : ConnOf(u) = ConnOf(t)
PolledQueues == {ConnOf(t) : t \in Threads}

\* Mutation: the scheduler looks at the wrong end of the set.
LastOf(S) == CHOOSE p \in S : \A x \in S : p >= x

\* The most urgent waiting priority: *skipList.begin() of an ordered set.
First(S) == CHOOSE p \in S : \A x \in S : p <= x

ThreadsInit ==
  /\ pc = [t \in Threads |-> "init"]
  /\ wc = [t \in Threads |-> <<>>]
  /\ cur = [t \in Threads |-> NoReq]
  /\ rcnt = [q \in Queues |-> 0]
  /\ terminateRun = FALSE
  /\ device = "open"

Goto(t, l) == pc' = [pc EXCEPT ![t] = l]

\* metaCQ[priority].emplace_back(x)
Enlist(list, r) == Append(list, r)

\* Mutation: the priority of an emptied list is not erased.
NeverErased(S, p, list) == S

\* if(metaCQ[priority].size() == 0) skipList.erase(priority)
StillWaiting(S, p, list) == IF list = <<>> THEN S \ {p} ELSE S

\* Mutations: every send is signaled, or none.
AlwaysSignaled(t) == TRUE
NeverSignaled(t) == FALSE

\* One response in signalInterval asks for a completion.
Signaled(t) == rcnt[ConnOf(t)] % SignalInterval = 0

\* ++conn->rcnt.  Threads that share a connection increment it without a lock: a thread
\* that read it long ago writes that value plus one and undoes the increments since.
CountRequest(t) ==
  \E n \in 1 .. rcnt[ConnOf(t)] + 1 :
    /\ n <= rcnt[ConnOf(t)] => Shared(t)
    /\ rcnt' = [rcnt EXCEPT ![ConnOf(t)] = n]

\* Destroying the QP of connection 0 stops its traffic.
Alive(q) == device = "open" \/ (device = "closed" /\ q # 0)

\* main has joined every thread, or the process is gone.
Stopped == device = "crashed" \/ (\A t \in Threads : pc[t] = "done")

-----------------------------------------------------------------------------
(* The buffers named by completions and by waiting requests. *)

RecvsIn(s) == {s[i].wr_id : i \in {j \in DOMAIN s : IsRecv(s[j])}}
BufsIn(s) == {s[i].bufID : i \in DOMAIN s}

DistinctRecvs(s) ==
  \A i, j \in DOMAIN s : IsRecv(s[i]) /\ s[i].wr_id = s[j].wr_id => i = j
DistinctBufs(s) == \A i, j \in DOMAIN s : s[i].bufID = s[j].bufID => i = j

\* The receives the constructor gave to connection q.
OwnBuffers(q) == NumBufs + q * BuffersPerQ .. NumBufs + q * BuffersPerQ + BuffersPerQ - 1

\* Receives whose buffer holds a packet.
Filled == {b \in RecvIds : bufRecv[b - NumBufs] \in 1 .. Len(sent)}

ThreadsTypeOK ==
  /\ wc \in [Threads -> Seq(Completion)]
  /\ cur \in [Threads -> Req \cup {NoReq}]
  /\ rcnt \in [Queues -> Nat]
  /\ terminateRun \in BOOLEAN
  /\ device \in {"open", "closed", "crashed"}

-----------------------------------------------------------------------------
(* Properties of every server. *)

\* The completion queue is created with 2*buffersPerQ+1 entries; the device never
\* writes more.  (It needs at least rx_depth/signalInterval <= buffersPerQ+1, with slack
\* once a full send queue drops unsignaled sends, and buffers that stay with their
\* connection.)
CompletionQueueFits == \A q \in Queues : Len(cq[q]) <= 2 * BuffersPerQ + 1

\* A response that carries packet i goes to the client that sent packet i, no packet
\* is answered twice and the terminate packet is not answered.  It holds when no two
\* threads share a connection: PostRecv gives the buffer back before PostSend reads
\* buf_send, so only the thread that polls the connection may touch it in between.
EchoOnce ==
  \A i \in PacketIds :
    replies[i] # <<>> => ~sent[i].last /\ replies[i] = <<sent[i].src>>

Completed(i) ==
  \E q \in PolledQueues : \E k \in DOMAIN cq[q] :
    IsRecv(cq[q][k]) /\ bufRecv[cq[q][k].wr_id - NumBufs] = i

\* Every request the device delivers to a polled connection is answered, unless the
\* run is terminated first: a packet that is not answered was dropped.
RequestsAnswered ==
  \A i \in PacketIds : Completed(i) ~> (replies[i] # <<>> \/ terminateRun)

\* Once the terminate packet is served every thread leaves its loop.
TerminationSpreads == terminateRun ~> Stopped

\* A full send queue gets a free slot again: the signaled sends are frequent enough
\* for their completions to free the slots of the unsignaled ones.  A signaled send
\* that fails on a full queue leaves up to 2*(signalInterval-1) unsignaled ones in a
\* row, so the property needs rx_depth > 2*(signalInterval-1).
SendQueueRecovers ==
  \A q \in PolledQueues : SendQueueFull(q) ~> (~SendQueueFull(q) \/ terminateRun)
=============================================================================
