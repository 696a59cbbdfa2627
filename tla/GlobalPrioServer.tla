-------------------------- MODULE GlobalPrioServer --------------------------
(***************************************************************************)
(* ud_pingpong_server_reorder_fast_12Q12Tglobalprio.cc: the threads of a   *)
(* group share one metaCQ and one skipList under a mutex, so that a thread *)
(* serves the most urgent request any thread of its group has polled.      *)
(*                                                                         *)
(* Two things differ from ReorderServer besides the lock.  A thread posts  *)
(* the buffer it has served on its OWN connection, wherever the request    *)
(* came from, so buffers migrate between connections.  And a poll that     *)
(* returns nothing goes back to the top of the loop without looking at the *)
(* waiting requests.                                                       *)
(***************************************************************************)
EXTENDS ServerThreads

CONSTANT NumGroups   \* NUM_GROUPS

\* Groups are even, and a receive queue can take every buffer.
ASSUME GroupAssumption ==
  /\ NumGroups \in Nat \ {0}
  /\ NumThreads % NumGroups = 0
  /\ NumBufs <= RxDepth

VARIABLES
  metaCQ,         \* metaCQ[g][p]: requests of priority p waiting in group g
  skipList,       \* skipList[g]: priorities with waiting requests
  skipListMutex,  \* skipListMutex[g]: the threads inside the critical section of g
  priority        \* priority[t]: the priority thread t chose last, -1 at first

serverVars == <<threadVars, metaCQ, skipList, skipListMutex, priority>>
vars == <<verbsVars, serverVars>>

-----------------------------------------------------------------------------
Groups == 0 .. NumGroups - 1
GroupOf(t) == t \div (NumThreads \div NumGroups)

Locations == {"init", "barrier", "test", "poll", "drain", "filing", "taking", "serve",
              "postRecv", "postSend", "exit", "done"}

Init ==
  /\ VerbsInit
  /\ ThreadsInit
  /\ metaCQ = [g \in Groups |-> [p \in Priorities |-> <<>>]]
  /\ skipList = [g \in Groups |-> {}]
  /\ skipListMutex = [g \in Groups |-> {}]
  /\ priority = [t \in Threads |-> -1]

\* Mutation: the mutex is not awaited.
LockAnyway(t) == skipListMutex' = [skipListMutex EXCEPT ![GroupOf(t)] = @ \cup {t}]

Lock(t) ==
  /\ skipListMutex[GroupOf(t)] = {}
  /\ skipListMutex' = [skipListMutex EXCEPT ![GroupOf(t)] = @ \cup {t}]
Unlock(t) == skipListMutex' = [skipListMutex EXCEPT ![GroupOf(t)] = @ \ {t}]

-----------------------------------------------------------------------------
EnterBarrier(t) ==
  /\ pc[t] = "init"
  /\ Goto(t, "barrier")
  /\ UNCHANGED <<verbsVars, wc, cur, rcnt, terminateRun, device,
                 metaCQ, skipList, skipListMutex, priority>>

LeaveBarrier(t) ==
  /\ pc[t] = "barrier"
  /\ \A u \in Threads : pc[u] # "init"
  /\ Goto(t, "test")
  /\ UNCHANGED <<verbsVars, wc, cur, rcnt, terminateRun, device,
                 metaCQ, skipList, skipListMutex, priority>>

\* while (terminateRun == false)
LoopTest(t) ==
  /\ pc[t] = "test"
  /\ Goto(t, IF terminateRun THEN "exit" ELSE "poll")
  /\ UNCHANGED <<verbsVars, wc, cur, rcnt, terminateRun, device,
                 metaCQ, skipList, skipListMutex, priority>>

\* ibv_poll_cq, then: else if (ne == 0) continue
Poll(t) ==
  /\ pc[t] = "poll"
  /\ PollCq(ConnOf(t))
  /\ wc' = [wc EXCEPT ![t] = Polled(ConnOf(t))]
  /\ Goto(t, IF Polled(ConnOf(t)) = <<>> THEN "test" ELSE "drain")
  /\ UNCHANGED <<rq, sq, bufRecv, bufSend, sent, replies, cur, rcnt, terminateRun, device,
                 metaCQ, skipList, skipListMutex, priority>>

SendCompletion(t) ==
  /\ pc[t] = "drain"
  /\ wc[t] # <<>>
  /\ ~IsRecv(Head(wc[t]))
  /\ wc' = [wc EXCEPT ![t] = Tail(@)]
  /\ UNCHANGED <<verbsVars, pc, cur, rcnt, terminateRun, device,
                 metaCQ, skipList, skipListMutex, priority>>

\* skipListMutex[groupID].lock(); skipList[groupID].insert(priorityID)
InsertPriority(t) ==
  /\ pc[t] = "drain"
  /\ wc[t] # <<>>
  /\ IsRecv(Head(wc[t]))
  /\ Lock(t)
  /\ skipList' = [skipList EXCEPT ![GroupOf(t)] = @ \cup {PacketIn(Head(wc[t]).wr_id).prio}]
  /\ Goto(t, "filing")
  /\ UNCHANGED <<verbsVars, wc, cur, rcnt, terminateRun, device, metaCQ, priority>>

\* metaCQ[groupID][priorityID].emplace_back(x); skipListMutex[groupID].unlock()
EmplaceRequest(t) ==
  /\ pc[t] = "filing"
  /\ LET c == Head(wc[t]) IN
       metaCQ' = [metaCQ EXCEPT ![GroupOf(t)][PacketIn(c.wr_id).prio] =
                    Enlist(@, [bufID |-> c.wr_id, srcQP |-> c.src_qp])]
  /\ wc' = [wc EXCEPT ![t] = Tail(@)]
  /\ Unlock(t)
  /\ Goto(t, "drain")
  /\ UNCHANGED <<verbsVars, cur, rcnt, terminateRun, device, skipList, priority>>

\* skipListMutex[groupID].lock(), nothing waits, unlock.
Idle(t) ==
  /\ pc[t] = "drain"
  /\ wc[t] = <<>>
  /\ skipListMutex[GroupOf(t)] = {}
  /\ skipList[GroupOf(t)] = {}
  /\ Goto(t, "test")
  /\ UNCHANGED <<verbsVars, wc, cur, rcnt, terminateRun, device,
                 metaCQ, skipList, skipListMutex, priority>>

\* skipListMutex[groupID].lock(); priority = *iter; tmp = front()
ChooseRequest(t) ==
  /\ pc[t] = "drain"
  /\ wc[t] = <<>>
  /\ Lock(t)
  /\ skipList[GroupOf(t)] # {}
  /\ LET p == First(skipList[GroupOf(t)]) IN
       /\ metaCQ[GroupOf(t)][p] # <<>>
       /\ priority' = [priority EXCEPT ![t] = p]
       /\ cur' = [cur EXCEPT ![t] = Head(metaCQ[GroupOf(t)][p])]
  /\ Goto(t, "taking")
  /\ UNCHANGED <<verbsVars, wc, rcnt, terminateRun, device, metaCQ, skipList>>

\* Mutation: the mutex is still held when the request is looked at.
PopAndKeepLock(t) ==
  /\ pc[t] = "taking"
  /\ metaCQ' = [metaCQ EXCEPT ![GroupOf(t)][priority[t]] = Tail(@)]
  /\ skipList' = [skipList EXCEPT ![GroupOf(t)] =
                    StillWaiting(@, priority[t], Tail(metaCQ[GroupOf(t)][priority[t]]))]
  /\ Goto(t, "serve")
  /\ UNCHANGED <<verbsVars, wc, cur, rcnt, terminateRun, device, skipListMutex, priority>>

\* pop_front(); erase(iter) when the list is empty; skipListMutex[groupID].unlock()
PopRequest(t) ==
  /\ pc[t] = "taking"
  /\ metaCQ' = [metaCQ EXCEPT ![GroupOf(t)][priority[t]] = Tail(@)]
  /\ skipList' = [skipList EXCEPT ![GroupOf(t)] =
                    StillWaiting(@, priority[t], Tail(metaCQ[GroupOf(t)][priority[t]]))]
  /\ Unlock(t)
  /\ Goto(t, "serve")
  /\ UNCHANGED <<verbsVars, wc, cur, rcnt, terminateRun, device, priority>>

\* The request carries the terminate marker: raise the flag and break.
Terminate(t) ==
  /\ pc[t] = "serve"
  /\ PacketIn(cur[t].bufID).last
  /\ CountRequest(t)
  /\ terminateRun' = TRUE
  /\ Goto(t, "exit")
  /\ UNCHANGED <<verbsVars, wc, cur, device, metaCQ, skipList, skipListMutex, priority>>

\* my_sleep for the service time, then memcpy of the payload into buf_send.
Serve(t) ==
  /\ pc[t] = "serve"
  /\ ~PacketIn(cur[t].bufID).last
  /\ CountRequest(t)
  /\ LET b == cur[t].bufID - NumBufs IN
       bufSend' = [bufSend EXCEPT ![b] = bufRecv[b]]
  /\ Goto(t, "postRecv")
  /\ UNCHANGED <<rq, cq, sq, sqDone, bufRecv, sent, replies, wc, cur, terminateRun, device,
                 metaCQ, skipList, skipListMutex, priority>>

\* conn->pp_post_recv(conn->ctx, bufID), on the connection of the serving thread.
PostRecv(t) ==
  /\ pc[t] = "postRecv"
  /\ PostRecvWR(ConnOf(t), cur[t].bufID)
  /\ Goto(t, "postSend")
  /\ UNCHANGED <<cq, sq, sqDone, bufRecv, bufSend, sent, replies, wc, cur, rcnt, terminateRun,
                 device, metaCQ, skipList, skipListMutex, priority>>

\* conn->pp_post_send(...), from the QP of the serving thread.
PostSend(t) ==
  /\ pc[t] = "postSend"
  /\ PostSendWR(ConnOf(t), cur[t].srcQP, cur[t].bufID - NumBufs, Signaled(t))
  /\ cur' = [cur EXCEPT ![t] = NoReq]
  /\ Goto(t, "test")
  /\ UNCHANGED <<rq, cq, sqDone, bufRecv, bufSend, sent, replies, wc, rcnt, terminateRun,
                 device, metaCQ, skipList, skipListMutex, priority>>

\* Thread 0 closes the context, whatever the other threads are doing.
Exit(t) ==
  /\ pc[t] = "exit"
  /\ Goto(t, "done")
  /\ device' = IF t = 0 THEN "closed" ELSE device
  /\ UNCHANGED <<verbsVars, wc, cur, rcnt, terminateRun,
                 metaCQ, skipList, skipListMutex, priority>>

\* The next step of thread t reads the priority of a completed receive in its buffer, or
\* the request it serves.  Lists, sets and mutexes are global and never released.
ReadsBuffer(t) ==
  \/ pc[t] = "drain" /\ wc[t] # <<>> /\ IsRecv(Head(wc[t]))
  \/ pc[t] = "serve"

\* The next step of thread t touches what pp_close_ctx has released: the memory region
\* of a buffer, the completion queue of connection 0 or, when there is a single QP and
\* the close runs to its end, the buffers themselves.
TouchesFreed(t) ==
  /\ device = "closed"
  /\ \/ pc[t] \in {"postRecv", "postSend"}
     \/ ConnOf(t) = 0 /\ pc[t] = "poll"
     \/ NumQueues = 1 /\ ReadsBuffer(t)

Crash(t) ==
  /\ TouchesFreed(t)
  /\ device' = "crashed"
  /\ UNCHANGED <<verbsVars, pc, wc, cur, rcnt, terminateRun,
                 metaCQ, skipList, skipListMutex, priority>>

AtRest == Stopped /\ UNCHANGED vars

-----------------------------------------------------------------------------
Device ==
  \/ \E q \in Queues : \E pkt \in Packet :
       Alive(q) /\ (NicReceive(q, pkt) \/ NicDrop(q, pkt)) /\ UNCHANGED serverVars
  \/ \E q \in Queues : Alive(q) /\ NicSend(q) /\ UNCHANGED serverVars

Thread(t) ==
  /\ device # "crashed"
  /\ \/ EnterBarrier(t) \/ LeaveBarrier(t)
     \/ LoopTest(t) \/ Poll(t) \/ SendCompletion(t) \/ InsertPriority(t) \/ EmplaceRequest(t)
     \/ Idle(t) \/ ChooseRequest(t) \/ PopRequest(t) \/ Terminate(t) \/ Serve(t)
     \/ PostRecv(t) \/ PostSend(t) \/ Exit(t) \/ Crash(t)

Next == Device \/ (\E t \in Threads : Thread(t)) \/ AtRest

Spec == Init /\ [][Next]_vars

\* Threads are pinned and spin, and the device drains its send queues.
FairSpec ==
  /\ Spec
  /\ \A t \in Threads : WF_vars(Thread(t))
  /\ \A q \in Queues : WF_vars(Alive(q) /\ NicSend(q) /\ UNCHANGED serverVars)

-----------------------------------------------------------------------------
(* Where the receive buffers are. *)

Places ==
  ({"rq", "cq"} \X Queues \X {0}) \cup ({"wc", "cur"} \X Threads \X {0})
    \cup ({"meta"} \X Groups \X Priorities)

\* The request a thread has chosen is its own once it is popped.
InHand(t) ==
  IF cur[t] # NoReq /\ pc[t] \notin {"taking", "postSend"} THEN {cur[t].bufID} ELSE {}

Held(x) ==
  CASE x[1] = "rq" -> Range(rq[x[2]])
    [] x[1] = "cq" -> RecvsIn(cq[x[2]])
    [] x[1] = "wc" -> RecvsIn(wc[x[2]])
    [] x[1] = "cur" -> InHand(x[2])
    [] x[1] = "meta" -> BufsIn(metaCQ[x[2]][x[3]])

\* Type invariant: every variable has its type, and the buffer of every completed
\* receive was written, so the priority the completion loop reads from it exists.
TypeOK ==
  /\ VerbsTypeOK
  /\ ThreadsTypeOK
  /\ pc \in [Threads -> Locations]
  /\ metaCQ \in [Groups -> [Priorities -> Seq(Req)]]
  /\ skipList \in [Groups -> SUBSET Priorities]
  /\ skipListMutex \in [Groups -> SUBSET Threads]
  /\ priority \in [Threads -> Priorities \cup {-1}]
  /\ \A x \in Places : x[1] # "rq" => Held(x) \subseteq Filled

\* Whenever no thread of the group is in its critical section, the shared skipList
\* names exactly the priorities with a waiting request, so the assertion
\* metaCQ[groupID][priority].size() > 0 holds for whichever thread locks next.
SharedReadySetExact ==
  \A g \in Groups : skipListMutex[g] = {} =>
    \A p \in Priorities : p \in skipList[g] <=> metaCQ[g][p] # <<>>

DistinctPlaces ==
  /\ \A q \in Queues : IsInjective(rq[q])
  /\ \A q \in Queues : DistinctRecvs(cq[q])
  /\ \A t \in Threads : DistinctRecvs(wc[t])
  /\ \A g \in Groups : \A p \in Priorities : DistinctBufs(metaCQ[g][p])

\* Each receive buffer is in exactly one place, once, although threads pass requests
\* to one another and buffers change connection: no request is served by two threads,
\* and none is lost between the thread that polled it and the one that serves it.
NoDoubleService ==
  /\ DistinctPlaces
  /\ \A x, y \in Places : x # y => Held(x) \cap Held(y) = {}
  /\ \A b \in RecvIds : \E x \in Places : b \in Held(x)

\* Global strict priority: a thread chooses a request only when no thread of its
\* group has filed a more urgent one.
MostUrgentOfGroup ==
  [][\A t \in Threads : cur'[t] # cur[t] /\ cur'[t] # NoReq =>
       \A p \in Priorities : metaCQ[GroupOf(t)][p] # <<>> =>
         PacketIn(cur'[t].bufID).prio <= p]_vars
=============================================================================
