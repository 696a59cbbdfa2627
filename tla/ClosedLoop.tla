----------------------------- MODULE ClosedLoop -----------------------------
(***************************************************************************)
(* ud_pingpong_client_works_closed_loop.cc against ud_pingpong_server.cc.  *)
(*                                                                         *)
(* Client threads 0..NumLoad-1 keep a window of requests outstanding: every *)
(* response they take lets them send the next request.  The last thread    *)
(* has a window of one and measures.  Three barriers hold the phases       *)
(* together: connections made; test packet answered; measurement over.     *)
(* When the measurement thread has its samples it raises terminate_load,   *)
(* which the load threads test between two polls, and after the last       *)
(* barrier it adds up the counters of all threads.                         *)
(*                                                                         *)
(* There is no timeout and no retry anywhere: the inner polling loops wait *)
(* for a completion for ever.  A thread's request carries its QP number    *)
(* (its thread number here) and nothing else the server looks at; service  *)
(* times are left out.  Destination remote_qp0+offset is server queue      *)
(* offset.                                                                 *)
(***************************************************************************)
EXTENDS PlainServer

CONSTANTS
  NumLoad,      \* -t: load threads; the measurement thread comes on top
  WindowSize,   \* -w: window_size
  Iters,        \* iters: requests of a load thread, if nobody stops it
  SyncIters,    \* sync_iters: requests of the measurement thread
  ClientDepth,  \* rx_depth of the client: slots of its send queue
  DrainPolls    \* polls of the final drain (1,000,000 in the code)

ClientThreads == 0 .. NumLoad
Meas == NumLoad

ASSUME ClosedLoopAssumption ==
  /\ NumLoad \in Nat
  /\ WindowSize \in Nat \ {0}
  /\ Iters \in Nat \ {0}
  /\ SyncIters \in Nat \ {0}
  /\ ClientDepth \in Nat
  /\ ClientDepth >= WindowSize
  /\ DrainPolls \in Nat
  /\ Sources = ClientThreads
  \* the log of the server has room for everything the clients can send
  /\ MaxPackets >= NumLoad * (Iters + WindowSize) + SyncIters + 1

VARIABLES
  cpc,            \* cpc[c]: where client thread c is
  gate,           \* gate[c]: barriers thread c has entered
  crq,            \* crq[c]: receives posted on the QP of c and not consumed
  csq,            \* csq[c]: posted sends not transmitted, by destination queue
  ccq,            \* ccq[c]: completions nobody polled, "send" or "recv"
  cwc,            \* cwc[c]: polled completions not handled yet
  crcnt,          \* crcnt[c]: conn->rcnt
  cscnt,          \* cscnt[c]: conn->scnt
  souts,          \* souts[c]: conn->souts
  offset,         \* offset[c]: server queue of the next request
  issuedTo,       \* issuedTo[c][q]: requests c has posted for queue q
  written,        \* indices of measured_latency that were assigned
  terminateLoad,  \* terminate_load
  allCnts,        \* allCnts[c]: all_rcnts[c] and all_scnts[c]
  drainLeft       \* drainLeft[c]: polls left of the final drain

clientDevice == <<crq, csq, ccq>>
clientCounts == <<crcnt, cscnt, souts, offset, issuedTo>>
clientRun == <<gate, written, terminateLoad, allCnts, drainLeft>>
clientVars == <<cpc, cwc, clientDevice, clientCounts, clientRun>>
vars == <<verbsVars, serverVars, clientVars>>

-----------------------------------------------------------------------------
\* Requests thread c may have outstanding, and how many it is to send.
WindowOf(c) == IF c = Meas THEN 1 ELSE WindowSize
ItersOf(c) == IF c = Meas THEN SyncIters ELSE Iters

Posted(c) == cscnt[c] + souts[c]

\* Bitwise and of two numbers up to NumQueues.
And[a \in 0 .. NumQueues] == [b \in 0 .. NumQueues |->
  IF a = 0 THEN 0 ELSE 2 * And[a \div 2][b \div 2] + (a % 2) * (b % 2)]

\* Mutation: the offset never moves.
NextQueueStuck(o) == o

\* offset = ((SERVER_THREADS-1) & (offset+1))
NextQueue(o) == And[NumQueues - 1][o + 1]

ClientInit ==
  /\ cpc = [c \in ClientThreads |-> "connect"]
  /\ gate = [c \in ClientThreads |-> 0]
  /\ crq = [c \in ClientThreads |-> 0]
  /\ csq = [c \in ClientThreads |-> <<>>]
  /\ ccq = [c \in ClientThreads |-> <<>>]
  /\ cwc = [c \in ClientThreads |-> <<>>]
  /\ crcnt = [c \in ClientThreads |-> 0]
  /\ cscnt = [c \in ClientThreads |-> 0]
  /\ souts = [c \in ClientThreads |-> 0]
  /\ offset = [c \in ClientThreads |-> c % NumQueues]
  /\ issuedTo = [c \in ClientThreads |-> [q \in Queues |-> 0]]
  /\ written = {}
  /\ terminateLoad = FALSE
  /\ allCnts = [c \in ClientThreads |-> <<0, 0>>]
  /\ drainLeft = [c \in ClientThreads |-> DrainPolls]

Init == ServerInit /\ ClientInit

-----------------------------------------------------------------------------
(* The network between the two programs. *)

\* The client's device transmits a request and completes the send; the server's device
\* receives it, or drops it when no receive is posted.  The completion of a send is there
\* before its response, as the client presumes: the measurement thread starts its clock at
\* the one and stops it at the other.
Transmit(c) ==
  /\ csq[c] # <<>>
  /\ csq' = [csq EXCEPT ![c] = Tail(@)]
  /\ ccq' = [ccq EXCEPT ![c] = Append(@, "send")]
  /\ LET q == Head(csq[c])
         pkt == [src |-> c, prio |-> 0, last |-> FALSE]
     IN  IF rq[q] = <<>> THEN NicDrop(q, pkt) ELSE NicReceive(q, pkt)
  /\ UNCHANGED <<serverVars, cpc, cwc, crq, clientCounts, clientRun>>

\* A response reaches its client; without a posted receive it is dropped.
Respond(q) ==
  /\ NicSend(q)
  /\ LET c == Head(sq[q]).qpn IN
       IF crq[c] = 0
         THEN UNCHANGED <<crq, ccq>>
         ELSE /\ crq' = [crq EXCEPT ![c] = @ - 1]
              /\ ccq' = [ccq EXCEPT ![c] = Append(@, "recv")]
  /\ UNCHANGED <<serverVars, cpc, cwc, csq, clientCounts, clientRun>>

-----------------------------------------------------------------------------
(* Calls and steps of a client thread. *)

CGoto(c, l) == cpc' = [cpc EXCEPT ![c] = l]

\* pp_post_send to dest_qpn, ++souts, then the next destination.  It fails when the
\* completions of ClientDepth sends have not been polled.
PostRequest(c) ==
  LET full == souts[c] >= ClientDepth IN
    /\ csq' = IF full THEN csq ELSE [csq EXCEPT ![c] = Append(@, offset[c])]
    /\ souts' = IF full THEN souts ELSE [souts EXCEPT ![c] = @ + 1]
    /\ issuedTo' = IF full THEN issuedTo ELSE [issuedTo EXCEPT ![c][offset[c]] = @ + 1]
    /\ offset' = [offset EXCEPT ![c] = NextQueue(@)]

\* The connection is made, or the thread is ready for the load phase.
EnterBarrier(c) ==
  /\ cpc[c] \in {"connect", "ready"}
  /\ gate' = [gate EXCEPT ![c] = @ + 1]
  /\ CGoto(c, "barrier")
  /\ UNCHANGED <<verbsVars, serverVars, cwc, clientDevice, clientCounts,
                 written, terminateLoad, allCnts, drainLeft>>

\* What follows the three barriers.
AfterBarrier(c) ==
  IF c = Meas THEN <<"fill", "loop", "dump">>[gate[c]]
              ELSE <<"ready", "fill", "close">>[gate[c]]

\* Mutation: the threads do not wait for one another.
PassBarrier(c) ==
  /\ cpc[c] = "barrier"
  /\ CGoto(c, AfterBarrier(c))
  /\ UNCHANGED <<verbsVars, serverVars, cwc, clientDevice, clientCounts, clientRun>>

LeaveBarrier(c) ==
  /\ cpc[c] = "barrier"
  /\ \A d \in ClientThreads : gate[d] >= gate[c]
  /\ CGoto(c, AfterBarrier(c))
  /\ UNCHANGED <<verbsVars, serverVars, cwc, clientDevice, clientCounts, clientRun>>

\* Post the receives of the window; the measurement thread posts one.
PostReceives(c) ==
  /\ cpc[c] = "fill"
  /\ crq' = [crq EXCEPT ![c] = WindowOf(c)]
  /\ CGoto(c, "send")
  /\ UNCHANGED <<verbsVars, serverVars, cwc, csq, ccq, clientCounts, clientRun>>

\* Mutation: i <= window_size.
WindowSentLate(c) == Posted(c) >= WindowOf(c)

\* The request being posted is the last of the first window.
WindowSent(c) == Posted(c) + 1 >= WindowOf(c)

\* Send the requests of the first window; the measurement thread its test packet.
FillWindow(c) ==
  /\ cpc[c] = "send"
  /\ PostRequest(c)
  /\ CGoto(c, IF WindowSent(c) THEN "loop" ELSE "send")
  /\ UNCHANGED <<verbsVars, serverVars, cwc, crq, ccq, crcnt, cscnt, clientRun>>

\* Both counters have reached n.
Reached(c, n) == crcnt[c] >= n /\ cscnt[c] >= n

\* The while conditions: the test packet, the samples, the load.
LoopOver(c) ==
  IF c = Meas THEN Reached(c, IF gate[c] = 1 THEN 1 ELSE SyncIters)
              ELSE Reached(c, Iters) \/ terminateLoad

AfterLoop(c) ==
  IF c # Meas THEN "drain" ELSE IF gate[c] = 1 THEN "ready" ELSE "finish"

LoopTest(c) ==
  /\ cpc[c] = "loop"
  /\ CGoto(c, IF LoopOver(c) THEN AfterLoop(c) ELSE "poll")
  /\ UNCHANGED <<verbsVars, serverVars, cwc, clientDevice, clientCounts, clientRun>>

\* ibv_poll_cq(cq, 2*num_bufs, wc), where the measurement thread has one buffer.
TakeCompletions(c) ==
  LET n == IF c = Meas /\ Len(ccq[c]) > 2 THEN 2 ELSE Len(ccq[c]) IN
    /\ cwc' = [cwc EXCEPT ![c] = SubSeq(ccq[c], 1, n)]
    /\ ccq' = [ccq EXCEPT ![c] = SubSeq(@, n + 1, Len(@))]

\* do ... while (ne < 1): only a completion ends the inner loop.
PollLoop(c) ==
  /\ cpc[c] \in {"poll", "await"}
  /\ ccq[c] # <<>>
  /\ TakeCompletions(c)
  /\ CGoto(c, IF cpc[c] = "poll" THEN "handle" ELSE "awaitHandle")
  /\ UNCHANGED <<verbsVars, serverVars, crq, csq, clientCounts, clientRun>>

Handling == {"handle", "awaitHandle", "drainHandle"}

\* Where the for loop over the completions goes when left are left of them and n
\* responses are counted.  The measurement thread leaves its last loop when a response
\* came (received), after the packet that ends the experiment.
Onward(c, left, n) ==
  IF left # <<>> THEN cpc[c]
  ELSE CASE cpc[c] = "handle" -> "loop"
         [] cpc[c] = "drainHandle" -> "drain"
         [] cpc[c] = "awaitHandle" -> IF n > allCnts[c][1] THEN "close" ELSE "await"

\* A send completion: ++scnt, --souts, in every loop.
HandleSend(c) ==
  /\ cpc[c] \in Handling
  /\ cwc[c] # <<>>
  /\ Head(cwc[c]) = "send"
  /\ cwc' = [cwc EXCEPT ![c] = Tail(@)]
  /\ cscnt' = [cscnt EXCEPT ![c] = @ + 1]
  /\ souts' = [souts EXCEPT ![c] = @ - 1]
  /\ CGoto(c, Onward(c, Tail(cwc[c]), crcnt[c]))
  /\ UNCHANGED <<verbsVars, serverVars, clientDevice, crcnt, offset, issuedTo, clientRun>>

\* Mutation: the sample is stored after ++rcnt.
SampleAfterCount(c) == crcnt[c] + 1

\* measured_latency[conn->rcnt] = ...
SampleIndex(c) == crcnt[c]

\* Mutation: the receive is not posted again.
NoRepost(c) == crq' = crq

\* pp_post_recv of the buffer just emptied.
Repost(c) == crq' = [crq EXCEPT ![c] = @ + 1]

\* if(conn->scnt < conn->iters)
MoreToSend(c) == cscnt[c] < ItersOf(c)

\* A response in the window loops: store the sample (measured loop only), count it,
\* post the receive again, and go on to the next request if there is one.
HandleRecv(c) ==
  /\ cpc[c] = "handle"
  /\ cwc[c] # <<>>
  /\ Head(cwc[c]) = "recv"
  /\ cwc' = [cwc EXCEPT ![c] = Tail(@)]
  /\ written' = IF c = Meas /\ gate[c] = 2 THEN written \cup {SampleIndex(c)} ELSE written
  /\ crcnt' = [crcnt EXCEPT ![c] = @ + 1]
  /\ Repost(c)
  /\ CGoto(c, IF MoreToSend(c) THEN "resend" ELSE Onward(c, Tail(cwc[c]), crcnt[c] + 1))
  /\ UNCHANGED <<verbsVars, serverVars, csq, ccq, cscnt, souts, offset, issuedTo,
                 gate, terminateLoad, allCnts, drainLeft>>

Resend(c) ==
  /\ cpc[c] = "resend"
  /\ PostRequest(c)
  /\ CGoto(c, IF cwc[c] = <<>> THEN "loop" ELSE "handle")
  /\ UNCHANGED <<verbsVars, serverVars, cwc, crq, ccq, crcnt, cscnt, clientRun>>

\* A response in the final loops: counted, nothing posted.
HandleLate(c) ==
  /\ cpc[c] \in {"awaitHandle", "drainHandle"}
  /\ cwc[c] # <<>>
  /\ Head(cwc[c]) = "recv"
  /\ cwc' = [cwc EXCEPT ![c] = Tail(@)]
  /\ crcnt' = [crcnt EXCEPT ![c] = @ + 1]
  /\ CGoto(c, Onward(c, Tail(cwc[c]), crcnt[c] + 1))
  /\ UNCHANGED <<verbsVars, serverVars, clientDevice, cscnt, souts, offset, issuedTo,
                 clientRun>>

\* The measurement is over: stop the load, publish the counters, wait.
Finish(c) ==
  /\ cpc[c] = "finish"
  /\ terminateLoad' = TRUE
  /\ allCnts' = [allCnts EXCEPT ![c] = <<crcnt[c], cscnt[c]>>]
  /\ gate' = [gate EXCEPT ![c] = @ + 1]
  /\ CGoto(c, "barrier")
  /\ UNCHANGED <<verbsVars, serverVars, cwc, clientDevice, clientCounts, written, drainLeft>>

\* A load thread polls DrainPolls times for what is still on its way.
DrainPoll(c) ==
  /\ cpc[c] = "drain"
  /\ drainLeft[c] > 0
  /\ drainLeft' = [drainLeft EXCEPT ![c] = @ - 1]
  /\ TakeCompletions(c)
  /\ CGoto(c, IF ccq[c] = <<>> THEN "drain" ELSE "drainHandle")
  /\ UNCHANGED <<verbsVars, serverVars, crq, csq, clientCounts,
                 gate, written, terminateLoad, allCnts>>

\* Then it publishes its counters and waits for the others.
Publish(c) ==
  /\ cpc[c] = "drain"
  /\ drainLeft[c] = 0
  /\ allCnts' = [allCnts EXCEPT ![c] = <<crcnt[c], cscnt[c]>>]
  /\ gate' = [gate EXCEPT ![c] = @ + 1]
  /\ CGoto(c, "barrier")
  /\ UNCHANGED <<verbsVars, serverVars, cwc, clientDevice, clientCounts,
                 written, terminateLoad, drainLeft>>

\* Add up all_rcnts and all_scnts, write measured_latency to the result file, send
\* the packet that ends the experiment.
Dump(c) ==
  /\ cpc[c] = "dump"
  /\ PostRequest(c)
  /\ CGoto(c, "await")
  /\ UNCHANGED <<verbsVars, serverVars, cwc, crq, ccq, crcnt, cscnt, clientRun>>

\* Print whether the connection drained; pp_close_ctx destroys its QP and CQ.
Close(c) ==
  /\ cpc[c] = "close"
  /\ crq' = [crq EXCEPT ![c] = 0]
  /\ csq' = [csq EXCEPT ![c] = <<>>]
  /\ ccq' = [ccq EXCEPT ![c] = <<>>]
  /\ CGoto(c, "done")
  /\ UNCHANGED <<verbsVars, serverVars, cwc, clientCounts, clientRun>>

-----------------------------------------------------------------------------
ClientThread(c) ==
  \/ EnterBarrier(c) \/ LeaveBarrier(c) \/ PostReceives(c) \/ FillWindow(c)
  \/ LoopTest(c) \/ PollLoop(c) \/ HandleSend(c) \/ HandleRecv(c) \/ Resend(c)
  \/ HandleLate(c) \/ Finish(c) \/ DrainPoll(c) \/ Publish(c)
  \/ Dump(c) \/ Close(c)

Network ==
  \/ \E c \in ClientThreads : Transmit(c)
  \/ \E q \in Queues : Respond(q)

Next ==
  \/ Network
  \/ \E t \in Threads : ServerThread(t) /\ UNCHANGED clientVars
  \/ \E c \in ClientThreads : ClientThread(c)

Spec == Init /\ [][Next]_vars

\* All threads are pinned and spin, and the network delivers: losses are not part of
\* this specification, other than those the missing of a receive or of a slot causes.
FairSpec ==
  /\ Spec
  /\ \A c \in ClientThreads : WF_vars(ClientThread(c)) /\ WF_vars(Transmit(c))
  /\ \A q \in Queues : WF_vars(Respond(q))
  /\ \A t \in Threads : WF_vars(ServerThread(t) /\ UNCHANGED clientVars)

-----------------------------------------------------------------------------
(* Properties. *)

ClientLocations ==
  {"connect", "barrier", "ready", "fill", "send", "loop", "poll", "resend", "drain",
   "finish", "dump", "await", "close", "done"} \cup Handling

Completions == {"send", "recv"}

\* Type invariant: every variable has its type; in particular souts, which is
\* unsigned, never passes below zero.
TypeOK ==
  /\ ServerTypeOK
  /\ cpc \in [ClientThreads -> ClientLocations]
  /\ gate \in [ClientThreads -> 0 .. 3]
  /\ crq \in [ClientThreads -> Nat]
  /\ csq \in [ClientThreads -> Seq(Queues)]
  /\ ccq \in [ClientThreads -> Seq(Completions)]
  /\ cwc \in [ClientThreads -> Seq(Completions)]
  /\ crcnt \in [ClientThreads -> Nat]
  /\ cscnt \in [ClientThreads -> Nat]
  /\ souts \in [ClientThreads -> Nat]
  /\ offset \in [ClientThreads -> Queues]
  /\ issuedTo \in [ClientThreads -> [Queues -> Nat]]
  /\ written \subseteq Nat
  /\ terminateLoad \in BOOLEAN
  /\ allCnts \in [ClientThreads -> Nat \X Nat]
  /\ drainLeft \in [ClientThreads -> 0 .. DrainPolls]

\* How many entries of s satisfy the test.
Count(s, Test(_)) == Cardinality({i \in DOMAIN s : Test(s[i])})

\* Requests of client c in the hands of connection q: completed or polled but not
\* served, being served, or answered but not transmitted.
InServer(c, q) ==
  LET Waiting(x) == IsRecv(x) /\ x.src_qp = c
      Leaving(x) == x.qpn = c
  IN  Count(cq[q], Waiting) + Count(sq[q], Leaving)
        + SumFunction([t \in {u \in Threads : ConnOf(u) = q} |->
             Count(wc[t], Waiting)
               + (IF cur[t] # NoReq /\ cur[t].srcQP = c THEN 1 ELSE 0)])

IsResponse(x) == x = "recv"

\* Every request a client has sent and not seen answered is somewhere: in its send
\* queue, in the server or in its completion queue.  Nothing is dropped
\* for want of a receive on either side, nor for want of a slot in a send queue.  It
\* needs a server queue with room for the windows of all clients, which the round
\* robin may bring together: buffersPerQ >= NumLoad * window_size + 1.
RequestsConserved ==
  \A c \in ClientThreads : cpc[c] # "done" =>
    Posted(c) - crcnt[c] =
      Len(csq[c]) + Count(ccq[c], IsResponse) + Count(cwc[c], IsResponse)
        + SumFunction([q \in Queues |-> InServer(c, q)])

\* What is written to the result file was measured: every sample is assigned except
\* the first, whose place the test packet takes, and no sample is stored past the end
\* of measured_latency, although the loop runs on while scnt lags behind.
SamplesExact ==
  /\ written \subseteq 1 .. SyncIters - 1
  /\ cpc[Meas] \in {"dump", "await", "close", "done"} => written = 1 .. SyncIters - 1

\* The counters the measurement thread adds up are final.
CountsFinal ==
  cpc[Meas] \in {"dump", "await", "awaitHandle", "close", "done"} =>
    \A c \in ClientThreads \ {Meas} : allCnts[c] = <<crcnt[c], cscnt[c]>>

\* Round robin: the numbers of requests a client has sent to two server queues differ
\* by at most one.  It needs a number of queues that is a power of two: the mask is
\* no remainder otherwise.
RoundRobinEven ==
  \A c \in ClientThreads : \A p, q \in Queues : issuedTo[c][p] <= issuedTo[c][q] + 1

\* The two programs and the network implement a window of requests per client.
Abstract == INSTANCE RequestWindow WITH
  Clients <- ClientThreads,
  Window <- [c \in ClientThreads |-> WindowOf(c)],
  issued <- [c \in ClientThreads |-> Posted(c)],
  answered <- [c \in ClientThreads |-> crcnt[c]],
  present <- [c \in ClientThreads |-> cpc[c] # "done"]

ImplementsWindow == Abstract!Spec

\* Every thread of the client gets to its end.
ClientFinishes == <>(\A c \in ClientThreads : cpc[c] = "done")
=============================================================================
