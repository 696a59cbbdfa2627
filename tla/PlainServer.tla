----------------------------- MODULE PlainServer -----------------------------
(***************************************************************************)
(* ud_pingpong_server.cc: the server without a scheduler.  A thread polls  *)
(* its connection and serves the completions in the order the poll gave    *)
(* them; there is no terminate packet, and while (1) has no way out.       *)
(*                                                                         *)
(* These are the steps of the server alone.  The packets come from the     *)
(* clients of the module that extends this one.                            *)
(***************************************************************************)
EXTENDS ServerThreads

serverVars == threadVars

ServerLocations == {"init", "poll", "drain", "postRecv", "postSend"}

ServerInit == VerbsInit /\ ThreadsInit

-----------------------------------------------------------------------------
\* Look up the connection of the thread and pin it to a core; no barrier.
Start(t) ==
  /\ pc[t] = "init"
  /\ Goto(t, "poll")
  /\ UNCHANGED <<verbsVars, wc, cur, rcnt, terminateRun, device>>

\* The completions of a poll are handled one after the other, then it polls again.
NextStep(left) == IF left = <<>> THEN "poll" ELSE "drain"

\* ne = ibv_poll_cq(conn->ctx->cq, num_bufs*2, wc)
Poll(t) ==
  /\ pc[t] = "poll"
  /\ PollCq(ConnOf(t))
  /\ wc' = [wc EXCEPT ![t] = Polled(ConnOf(t))]
  /\ Goto(t, NextStep(Polled(ConnOf(t))))
  /\ UNCHANGED <<rq, sq, bufRecv, bufSend, sent, replies, cur, rcnt, terminateRun, device>>

\* A send completion only moves counters.
SendCompletion(t) ==
  /\ pc[t] = "drain"
  /\ wc[t] # <<>>
  /\ ~IsRecv(Head(wc[t]))
  /\ wc' = [wc EXCEPT ![t] = Tail(@)]
  /\ Goto(t, NextStep(Tail(wc[t])))
  /\ UNCHANGED <<verbsVars, cur, rcnt, terminateRun, device>>

\* A receive is counted; after my_sleep the payload is copied into buf_send.
RecvCompletion(t) ==
  /\ pc[t] = "drain"
  /\ wc[t] # <<>>
  /\ IsRecv(Head(wc[t]))
  /\ LET c == Head(wc[t])
         b == c.wr_id - NumBufs
     IN  /\ cur' = [cur EXCEPT ![t] = [bufID |-> c.wr_id, srcQP |-> c.src_qp]]
         /\ bufSend' = [bufSend EXCEPT ![b] = bufRecv[b]]
  /\ CountRequest(t)
  /\ wc' = [wc EXCEPT ![t] = Tail(@)]
  /\ Goto(t, "postRecv")
  /\ UNCHANGED <<rq, cq, sq, sqDone, bufRecv, sent, replies, terminateRun, device>>

\* conn->pp_post_recv(conn->ctx, a)
PostRecv(t) ==
  /\ pc[t] = "postRecv"
  /\ PostRecvWR(ConnOf(t), cur[t].bufID)
  /\ Goto(t, "postSend")
  /\ UNCHANGED <<cq, sq, sqDone, bufRecv, bufSend, sent, replies,
                 wc, cur, rcnt, terminateRun, device>>

\* conn->pp_post_send(conn->ctx, wc[i].src_qp, conn->size, a-num_bufs, ...); a full
\* send queue loses the response.
PostSend(t) ==
  /\ pc[t] = "postSend"
  /\ PostSendWR(ConnOf(t), cur[t].srcQP, cur[t].bufID - NumBufs, Signaled(t))
  /\ cur' = [cur EXCEPT ![t] = NoReq]
  /\ Goto(t, NextStep(wc[t]))
  /\ UNCHANGED <<rq, cq, sqDone, bufRecv, bufSend, sent, replies,
                 wc, rcnt, terminateRun, device>>

ServerThread(t) ==
  \/ Start(t) \/ Poll(t) \/ SendCompletion(t) \/ RecvCompletion(t)
  \/ PostRecv(t) \/ PostSend(t)

ServerTypeOK ==
  /\ VerbsTypeOK
  /\ ThreadsTypeOK
  /\ pc \in [Threads -> ServerLocations]
=============================================================================
