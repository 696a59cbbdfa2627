---------------------------- MODULE ReorderServer ----------------------------
(***************************************************************************)
(* ud_pingpong_server_reorder_fast.cc as it ships: STRICT_PRIORITY, one    *)
(* completion queue per connection, no FPGA notification.                  *)
(*                                                                         *)
(* Every thread owns a metaCQ (one list of requests per priority) and a    *)
(* skipList (the priorities whose list is not empty).  It polls all        *)
(* completions of its connection, files every received request under its   *)
(* priority, then serves ONE request of the most urgent priority and polls *)
(* again.  Serving is: copy the payload to buf_send, post the receive      *)
(* buffer again, post the response.  A packet with the terminate marker    *)
(* ends the loop of every thread; thread 0 then releases the device.       *)
(*                                                                         *)
(* Counters that are only printed (scnt, souts, routs, countPriority) are  *)
(* left out; conn->rcnt stays because it decides which sends are signaled. *)
(***************************************************************************)
EXTENDS ServerThreads

VARIABLES
  metaCQ,    \* metaCQ[t][p]: requests of priority p waiting at thread t
  skipList   \* skipList[t]: priorities with waiting requests

serverVars == <<threadVars, metaCQ, skipList>>
vars == <<verbsVars, serverVars>>

-----------------------------------------------------------------------------
Locations == {"init", "barrier", "test", "poll", "drain", "postRecv", "postSend",
              "exit", "done"}

Init ==
  /\ VerbsInit
  /\ ThreadsInit
  /\ metaCQ = [t \in Threads |-> [p \in Priorities |-> <<>>]]
  /\ skipList = [t \in Threads |-> {}]

-----------------------------------------------------------------------------
(* Start: set up, then wait until all threads are there. *)

EnterBarrier(t) ==
  /\ pc[t] = "init"
  /\ Goto(t, "barrier")
  /\ UNCHANGED <<verbsVars, wc, metaCQ, skipList, cur, rcnt, terminateRun, device>>

LeaveBarrier(t) ==
  /\ pc[t] = "barrier"
  /\ \A u \in Threads : pc[u] # "init"
  /\ Goto(t, "test")
  /\ UNCHANGED <<verbsVars, wc, metaCQ, skipList, cur, rcnt, terminateRun, device>>

-----------------------------------------------------------------------------
(* The loop. *)

\* Mutation: while (1).
LoopForever(t) ==
  /\ pc[t] = "test"
  /\ Goto(t, "poll")
  /\ UNCHANGED <<verbsVars, wc, metaCQ, skipList, cur, rcnt, terminateRun, device>>

\* while (terminateRun == false)
LoopTest(t) ==
  /\ pc[t] = "test"
  /\ Goto(t, IF terminateRun THEN "exit" ELSE "poll")
  /\ UNCHANGED <<verbsVars, wc, metaCQ, skipList, cur, rcnt, terminateRun, device>>

\* Mutation: an empty poll goes straight back to the top of the loop.
PollOrContinue(t) ==
  /\ pc[t] = "poll"
  /\ PollCq(ConnOf(t))
  /\ wc' = [wc EXCEPT ![t] = Polled(ConnOf(t))]
  /\ Goto(t, IF Polled(ConnOf(t)) = <<>> THEN "test" ELSE "drain")
  /\ UNCHANGED <<rq, sq, bufRecv, bufSend, sent, replies,
                 metaCQ, skipList, cur, rcnt, terminateRun, device>>

\* ne = ibv_poll_cq(conn->ctx->cq, num_bufs*2, wc)
Poll(t) ==
  /\ pc[t] = "poll"
  /\ PollCq(ConnOf(t))
  /\ wc' = [wc EXCEPT ![t] = Polled(ConnOf(t))]
  /\ Goto(t, "drain")
  /\ UNCHANGED <<rq, sq, bufRecv, bufSend, sent, replies,
                 metaCQ, skipList, cur, rcnt, terminateRun, device>>

\* A send completion only moves counters.
SendCompletion(t) ==
  /\ pc[t] = "drain"
  /\ wc[t] # <<>>
  /\ ~IsRecv(Head(wc[t]))
  /\ wc' = [wc EXCEPT ![t] = Tail(@)]
  /\ UNCHANGED <<verbsVars, pc, metaCQ, skipList, cur, rcnt, terminateRun, device>>

\* Mutation: the buffer is posted again as soon as its completion is filed.
RecvCompletionPosted(t) ==
  /\ pc[t] = "drain"
  /\ wc[t] # <<>>
  /\ IsRecv(Head(wc[t]))
  /\ LET c == Head(wc[t])
         p == PacketIn(c.wr_id).prio
     IN  /\ skipList' = [skipList EXCEPT ![t] = @ \cup {p}]
         /\ metaCQ' = [metaCQ EXCEPT ![t][p] =
                         Enlist(@, [bufID |-> c.wr_id, srcQP |-> c.src_qp])]
         /\ rq' = [rq EXCEPT ![ConnOf(t)] = Append(@, c.wr_id)]
  /\ wc' = [wc EXCEPT ![t] = Tail(@)]
  /\ UNCHANGED <<cq, sq, sqDone, bufRecv, bufSend, sent, replies,
                 pc, cur, rcnt, terminateRun, device>>

\* A receive completion is filed under the priority read from its buffer.
RecvCompletion(t) ==
  /\ pc[t] = "drain"
  /\ wc[t] # <<>>
  /\ IsRecv(Head(wc[t]))
  /\ LET c == Head(wc[t])
         p == PacketIn(c.wr_id).prio
     IN  /\ skipList' = [skipList EXCEPT ![t] = @ \cup {p}]
         /\ metaCQ' = [metaCQ EXCEPT ![t][p] =
                         Enlist(@, [bufID |-> c.wr_id, srcQP |-> c.src_qp])]
  /\ wc' = [wc EXCEPT ![t] = Tail(@)]
  /\ UNCHANGED <<verbsVars, pc, cur, rcnt, terminateRun, device>>

\* All completions are filed and nothing waits: poll again.
Idle(t) ==
  /\ pc[t] = "drain"
  /\ wc[t] = <<>>
  /\ skipList[t] = {}
  /\ Goto(t, "test")
  /\ UNCHANGED <<verbsVars, wc, metaCQ, skipList, cur, rcnt, terminateRun, device>>

\* Take the oldest request of the most urgent priority and count it.
TakeRequest(t) ==
  /\ pc[t] = "drain"
  /\ wc[t] = <<>>
  /\ skipList[t] # {}
  /\ LET p == First(skipList[t]) IN
       /\ metaCQ[t][p] # <<>>
       /\ cur' = [cur EXCEPT ![t] = Head(metaCQ[t][p])]
       /\ metaCQ' = [metaCQ EXCEPT ![t][p] = Tail(@)]
       /\ skipList' = [skipList EXCEPT ![t] = StillWaiting(@, p, Tail(metaCQ[t][p]))]
  /\ CountRequest(t)

\* The request carries the terminate marker: raise the flag and break.  Its
\* buffer is not posted again.
Terminate(t) ==
  /\ TakeRequest(t)
  /\ PacketIn(cur'[t].bufID).last
  /\ terminateRun' = TRUE
  /\ Goto(t, "exit")
  /\ UNCHANGED <<verbsVars, wc, device>>

\* my_sleep for the service time, then memcpy of the payload into buf_send.
Serve(t) ==
  /\ TakeRequest(t)
  /\ ~PacketIn(cur'[t].bufID).last
  /\ LET b == cur'[t].bufID - NumBufs IN
       bufSend' = [bufSend EXCEPT ![b] = bufRecv[b]]
  /\ Goto(t, "postRecv")
  /\ UNCHANGED <<rq, cq, sq, sqDone, bufRecv, sent, replies, wc, terminateRun, device>>

\* conn->pp_post_recv(conn->ctx, bufID)
PostRecv(t) ==
  /\ pc[t] = "postRecv"
  /\ PostRecvWR(ConnOf(t), cur[t].bufID)
  /\ Goto(t, "postSend")
  /\ UNCHANGED <<cq, sq, sqDone, bufRecv, bufSend, sent, replies,
                 wc, metaCQ, skipList, cur, rcnt, terminateRun, device>>

\* conn->pp_post_send(conn->ctx, srcQP, conn->size, bufID-num_bufs, ...); when the
\* send queue is full the error is printed and the response is lost.
PostSend(t) ==
  /\ pc[t] = "postSend"
  /\ PostSendWR(ConnOf(t), cur[t].srcQP, cur[t].bufID - NumBufs, Signaled(t))
  /\ cur' = [cur EXCEPT ![t] = NoReq]
  /\ Goto(t, "test")
  /\ UNCHANGED <<rq, cq, sqDone, bufRecv, bufSend, sent, replies,
                 wc, metaCQ, skipList, rcnt, terminateRun, device>>

-----------------------------------------------------------------------------
(* Shutdown. *)

\* After the loop thread 0, and no other, closes the context: its QP and CQ are
\* destroyed and the memory regions of ALL buffers are deregistered.
Exit(t) ==
  /\ pc[t] = "exit"
  /\ Goto(t, "done")
  /\ device' = IF t = 0 THEN "closed" ELSE device
  /\ UNCHANGED <<verbsVars, wc, metaCQ, skipList, cur, rcnt, terminateRun>>

\* The next step of thread t files a completed receive or takes a request: it reads the
\* priority, or the payload, in a receive buffer.
ReadsBuffer(t) ==
  /\ pc[t] = "drain"
  /\ IF wc[t] # <<>> THEN IsRecv(Head(wc[t])) ELSE skipList[t] # {}

\* The next step of thread t touches what pp_close_ctx has released: the memory region
\* of a buffer, the completion queue of connection 0 or, when there is a single QP and
\* the close runs to its end, the buffers themselves.
TouchesFreed(t) ==
  /\ device = "closed"
  /\ \/ pc[t] \in {"postRecv", "postSend"}
     \/ ConnOf(t) = 0 /\ pc[t] = "poll"
     \/ NumQueues = 1 /\ ReadsBuffer(t)

\* Undefined behaviour: the stale memory may still read as before, which the other
\* actions cover, or the process dies.
Crash(t) ==
  /\ TouchesFreed(t)
  /\ device' = "crashed"
  /\ UNCHANGED <<verbsVars, pc, wc, metaCQ, skipList, cur, rcnt, terminateRun>>

\* main has joined every thread, or the process is gone.
AtRest == Stopped /\ UNCHANGED vars

-----------------------------------------------------------------------------
Device ==
  \/ \E q \in Queues : \E pkt \in Packet :
       Alive(q) /\ (NicReceive(q, pkt) \/ NicDrop(q, pkt)) /\ UNCHANGED serverVars
  \/ \E q \in Queues : Alive(q) /\ NicSend(q) /\ UNCHANGED serverVars

Thread(t) ==
  /\ device # "crashed"
  /\ \/ EnterBarrier(t) \/ LeaveBarrier(t)
     \/ LoopTest(t) \/ Poll(t) \/ SendCompletion(t) \/ RecvCompletion(t)
     \/ Idle(t) \/ Terminate(t) \/ Serve(t) \/ PostRecv(t) \/ PostSend(t)
     \/ Exit(t) \/ Crash(t)

Next == Device \/ (\E t \in Threads : Thread(t)) \/ AtRest

Spec == Init /\ [][Next]_vars

\* Threads are pinned and spin, and the device drains its send queues; packets
\* come or do not come.
FairSpec ==
  /\ Spec
  /\ \A t \in Threads : WF_vars(Thread(t))
  /\ \A q \in Queues : WF_vars(Alive(q) /\ NicSend(q) /\ UNCHANGED serverVars)

-----------------------------------------------------------------------------
(* Where the receive buffers are. *)

\* The places a receive buffer can be: posted, completed, polled, filed, in use.
Places ==
  ({"rq", "cq"} \X Queues \X {0}) \cup ({"wc", "cur"} \X Threads \X {0})
    \cup ({"meta"} \X Threads \X Priorities)

\* A thread has the buffer of its request in hand until it has posted it again.
InHand(t) == IF cur[t] # NoReq /\ pc[t] # "postSend" THEN {cur[t].bufID} ELSE {}

Held(x) ==
  CASE x[1] = "rq" -> Range(rq[x[2]])
    [] x[1] = "cq" -> RecvsIn(cq[x[2]])
    [] x[1] = "wc" -> RecvsIn(wc[x[2]])
    [] x[1] = "cur" -> InHand(x[2])
    [] x[1] = "meta" -> BufsIn(metaCQ[x[2]][x[3]])

-----------------------------------------------------------------------------
(* Types. *)

ServerTypeOK ==
  /\ ThreadsTypeOK
  /\ pc \in [Threads -> Locations]
  /\ metaCQ \in [Threads -> [Priorities -> Seq(Req)]]
  /\ skipList \in [Threads -> SUBSET Priorities]

\* A thread holds a request while it serves one, and after a terminate packet; it
\* has completions of a poll in hand only while it files them.
HoldsWhileServing ==
  \A t \in Threads :
    /\ pc[t] \in {"postRecv", "postSend"} => cur[t] # NoReq
    /\ cur[t] # NoReq => pc[t] \in {"postRecv", "postSend", "exit", "done"}
    /\ wc[t] # <<>> => pc[t] = "drain"

\* Type invariant: every variable has its type, a thread holds a request or polled
\* completions only where the code uses them, and the buffer of every completed receive was written, so the
\* priority the completion loop reads from it exists.
TypeOK ==
  /\ VerbsTypeOK
  /\ ServerTypeOK
  /\ HoldsWhileServing
  /\ \A x \in Places : x[1] # "rq" => Held(x) \subseteq Filled

-----------------------------------------------------------------------------
(* The ready set. *)

\* At every step of every thread the skipList names exactly the priorities with a
\* waiting request.  This is why assert(metaCQ[priority].size() > 0) before the pop
\* cannot fail, and why no waiting request is invisible to the scheduler.
SkipListExact ==
  \A t \in Threads : \A p \in Priorities : p \in skipList[t] <=> metaCQ[t][p] # <<>>

\* Requests are filed under the priority that is in their buffer.
FiledUnderPriority ==
  \A t \in Threads : \A p \in Priorities : \A i \in DOMAIN metaCQ[t][p] :
    PacketIn(metaCQ[t][p][i].bufID).prio = p

-----------------------------------------------------------------------------
(* Conservation. *)

\* No queue holds the same buffer twice.
NoRepeats ==
  /\ \A q \in Queues : IsInjective(rq[q])
  /\ \A q \in Queues : DistinctRecvs(cq[q])
  /\ \A t \in Threads : DistinctRecvs(wc[t])
  /\ \A t \in Threads : \A p \in Priorities : DistinctBufs(metaCQ[t][p])

\* No buffer is in two places, and every buffer is in one.
Apart == \A x, y \in Places : x # y => Held(x) \cap Held(y) = {}
Complete == \A b \in RecvIds : \E x \in Places : b \in Held(x)

\* Conservation of receive buffers: at every step each of the recv_bufs_num buffers
\* is in exactly one place, once.  None leaks, so capacity never shrinks while the
\* server runs, and none is posted twice, so the device never writes into a buffer
\* that a waiting request still needs.
BuffersConserved == NoRepeats /\ Apart /\ Complete

\* The connection a place belongs to.
ConnAt(x) == IF x[1] \in {"rq", "cq"} THEN x[2] ELSE ConnOf(x[2])

\* A buffer never moves to another connection, whichever thread serves it: what the
\* disabled assertion on (bufID-num_bufs)/bufsPerQP relies on, and why no receive
\* queue ever needs more than buffersPerQ entries.
BuffersStayHome == \A x \in Places : Held(x) \subseteq OwnBuffers(ConnAt(x))

-----------------------------------------------------------------------------
(* Responses. *)

\* Strict priority and order of arrival: when a thread takes a request, everything
\* it leaves waiting is less urgent, or equally urgent and arrived later.
ServedInOrder ==
  [][\A t \in Threads : cur'[t] # cur[t] /\ cur'[t] # NoReq =>
       \A p \in Priorities : \A i \in DOMAIN metaCQ'[t][p] :
         LET taken == bufRecv[cur'[t].bufID - NumBufs]
             left == bufRecv[metaCQ'[t][p][i].bufID - NumBufs]
         IN  \/ sent[taken].prio < sent[left].prio
             \/ sent[taken].prio = sent[left].prio /\ taken < left]_vars

=============================================================================
