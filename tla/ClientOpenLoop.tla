--------------------------- MODULE ClientOpenLoop ---------------------------
(***************************************************************************)
(* ud_pingpong_client.cc as it ships: every connection has a sender thread *)
(* (client_send) that generates load at its own pace and a receiver thread *)
(* (client_threadfunc) that polls completions; main moves all of them from *)
(* warm-up to measurement to the end of the run.                           *)
(*                                                                         *)
(* Senders and main meet twice at warmUpBarrier; receivers meet at barrier *)
(* after they have drained.  The two threads of a connection share the     *)
(* counters sentCount and scnt, and buf_send, without a lock.              *)
(*                                                                         *)
(* The network and the server are external: they may answer a request,     *)
(* in any order, or lose it.  Every send is signaled and inline            *)
(* (send_flags in pp_init_ctx).  Receive buffers are interchangeable, so   *)
(* posted receives are a number.  Time (the warm-up's 10 s, the run time,  *)
(* the gaps between arrivals) may take any number of steps.  Counters that *)
(* are only printed (rcnt, souts, routs, rps, all_rcnts, all_scnts) are    *)
(* left out.                                                               *)
(***************************************************************************)
EXTENDS Integers, Sequences, FiniteSets, FiniteSetsExt

CONSTANTS
  NumThreads,     \* active_thread_num
  WindowSize,     \* window_size: receives posted and send buffers in use
  RxDepth,        \* rx_depth: capacity of a send queue
  NumPriorities,  \* numberOfPriorities
  Word,           \* 2^64: the counters are uint64_t
  DrainPolls,     \* polls of the drain loop (10000000 in the source)
  MaxRequests     \* bound: requests a sender posts in one behaviour

ASSUME ClientAssumption ==
  /\ NumThreads \in Nat \ {0}
  /\ WindowSize \in Nat \ {0}
  /\ RxDepth \in Nat \ {0}
  /\ NumPriorities \in Nat \ {0}
  /\ DrainPolls \in Nat
  /\ MaxRequests \in Nat
  /\ Word \in Nat
  /\ MaxRequests < Word /\ RxDepth < Word

VARIABLES
  main,           \* where main is
  warmUpDone,     \* flag: responses count from now on
  terminateLoad,  \* flag: the run time is over
  terminateAll,   \* flag: every receiver has drained
  tooManyDrops,   \* what main reports at the end
  sPc,            \* sPc[t]: where sender t is in its loop
  loop,           \* loop[t]: which of its two loops sender t has reached
  index,          \* index[t]: send buffer of the next request (i in client_send)
  sentCount,      \* sentCount[t]: requests posted and counted by sender t
  sends,          \* sends[t][p]: measured requests (sendDistribution)
  bufSend,        \* bufSend[t][i]: contents of send buffer i
  rPc,            \* rPc[t]: where receiver t is
  wc,             \* wc[t]: completions of the last poll not handled yet
  scnt,           \* scnt[t]: send completions counted by receiver t
  receives,       \* receives[t][p]: measured responses (recvDistribution)
  drainLeft,      \* drainLeft[t]: polls left in the drain loop
  rq,             \* rq[t]: receives posted on QP t
  sq,             \* sq[t]: sends posted on QP t and not yet transmitted
  cq,             \* cq[t]: completions of QP t nobody polled yet
  closed,         \* closed[t]: receiver t has closed its context
  net,            \* net[m]: copies of m on their way to the server, there, or coming back
  crashed         \* a thread used a closed context and the process died

mainVars == <<main, warmUpDone, terminateLoad, tooManyDrops>>
senderVars == <<sPc, loop, index, sentCount, sends>>
receiverVars == <<rPc, wc, scnt, receives, drainLeft>>
qpVars == <<rq, sq, cq>>
vars == <<mainVars, terminateAll, senderVars, receiverVars, qpVars, bufSend, closed, net, crashed>>

-----------------------------------------------------------------------------
Threads == 0 .. NumThreads - 1
Priorities == 0 .. NumPriorities - 1
Buffers == 0 .. WindowSize - 1

\* Contents of a send buffer: priority in bytes 12 and 13; bytes 2 and 3 tell warm-up
\* requests, measured requests and the packet that stops the server.
Message == [prio : Priorities, kind : {"warmUp", "load", "last"}]
InNet == [src : Threads, msg : Message]
Completion == [op : {"send", "recv"}, prio : Priorities]

\* Completions of one kind in a sequence.
CountOf(op, s) == Cardinality({i \in DOMAIN s : s[i].op = op})

Init ==
  /\ main = "init"
  /\ warmUpDone = FALSE
  /\ terminateLoad = FALSE
  /\ terminateAll = FALSE
  /\ tooManyDrops = "unknown"
  /\ sPc = [t \in Threads |-> "init"]
  /\ loop = [t \in Threads |-> "warmUp"]
  /\ index = [t \in Threads |-> 0]
  /\ sentCount = [t \in Threads |-> 0]
  /\ sends = [t \in Threads |-> [p \in Priorities |-> 0]]
  /\ bufSend = [t \in Threads |-> [i \in Buffers |-> [prio |-> 0, kind |-> "warmUp"]]]
  /\ rPc = [t \in Threads |-> "init"]
  /\ wc = [t \in Threads |-> <<>>]
  /\ scnt = [t \in Threads |-> 0]
  /\ receives = [t \in Threads |-> [p \in Priorities |-> 0]]
  /\ drainLeft = [t \in Threads |-> DrainPolls]
  /\ rq = [t \in Threads |-> 0]
  /\ sq = [t \in Threads |-> <<>>]
  /\ cq = [t \in Threads |-> <<>>]
  /\ closed = [t \in Threads |-> FALSE]
  /\ net = [m \in InNet |-> 0]
  /\ crashed = FALSE

-----------------------------------------------------------------------------
(* warmUpBarrier: active_thread_num senders and main, used twice. *)

\* Mutation: a barrier that holds nobody back.
NobodyAwaited == TRUE

SendersReady == \A t \in Threads : sPc[t] # "init"
SendersWarm == \A t \in Threads : sPc[t] = "warm" \/ loop[t] = "load"

-----------------------------------------------------------------------------
(* main *)

\* All threads are created; main arrives at warmUpBarrier.
MainArrives ==
  /\ main = "init"
  /\ main' = "barrier"
  /\ UNCHANGED <<warmUpDone, terminateLoad, tooManyDrops>>

\* First pass of the barrier, then my_sleep; main arrives again.  How long it sleeps is left
\* open: the argument, 10*1000000000, is the product of two ints and does not fit one.
MainSleeps ==
  /\ main = "barrier"
  /\ SendersReady
  /\ main' = "warm"
  /\ UNCHANGED <<warmUpDone, terminateLoad, tooManyDrops>>

\* Second pass of the barrier; only then is the flag raised.
WarmUpDone ==
  /\ main = "warm"
  /\ SendersWarm
  /\ warmUpDone' = TRUE
  /\ main' = "measure"
  /\ UNCHANGED <<terminateLoad, tooManyDrops>>

\* The run time is over.
TerminateLoad ==
  /\ main = "measure"
  /\ terminateLoad' = TRUE
  /\ main' = "join"
  /\ UNCHANGED <<warmUpDone, tooManyDrops>>

\* Total of priority p over all threads.
Total(f, p) == MapThenSumSet(LAMBDA t : f[t][p], Threads)

\* sendCount-recvCount > 0.01*sendCount, in uint64_t.
Missing(sendCount, recvCount) == 100 * ((sendCount - recvCount) % Word) > sendCount

\* main joins the first active_thread_num threads: the receivers.
Joined == \A t \in Threads : rPc[t] = "done"

\* main joins, compares sends and receives, writes the .drop file and returns.
Report ==
  /\ main = "join"
  /\ Joined
  /\ tooManyDrops' = IF \E p \in Priorities : Missing(Total(sends, p), Total(receives, p))
                       THEN "yes" ELSE "no"
  /\ main' = "done"
  /\ UNCHANGED <<warmUpDone, terminateLoad>>

\* Nothing runs after main has returned or the process died.
Running == main # "done" /\ ~crashed

Main ==
  /\ Running
  /\ MainArrives \/ MainSleeps \/ WarmUpDone \/ TerminateLoad \/ Report
  /\ UNCHANGED <<terminateAll, senderVars, receiverVars, qpVars, bufSend, closed, net, crashed>>

-----------------------------------------------------------------------------
(* Sender t *)

SenderGoto(t, l) == sPc' = [sPc EXCEPT ![t] = l]

\* The tables of service times, priorities and gaps are ready.
SenderArrives(t) ==
  /\ sPc[t] = "init"
  /\ SenderGoto(t, "barrier")
  /\ UNCHANGED <<loop, index, sentCount, sends, bufSend, sq, crashed>>

StartWarmUp(t) ==
  /\ sPc[t] = "barrier"
  /\ SendersReady
  /\ main # "init"
  /\ SenderGoto(t, "loop")
  /\ UNCHANGED <<loop, index, sentCount, sends, bufSend, sq, crashed>>

\* More than 10 s have passed.
WarmUpOver(t) ==
  /\ sPc[t] = "loop"
  /\ loop[t] = "warmUp"
  /\ SenderGoto(t, "warm")
  /\ UNCHANGED <<loop, index, sentCount, sends, bufSend, sq, crashed>>

StartLoad(t) ==
  /\ sPc[t] = "warm"
  /\ SendersWarm
  /\ main \notin {"init", "barrier"}
  /\ loop' = [loop EXCEPT ![t] = "load"]
  /\ SenderGoto(t, "loop")
  /\ UNCHANGED <<index, sentCount, sends, bufSend, sq, crashed>>

\* while(terminate_all == false) { if(terminate_load == true) break; ...
EndOfLoad(t) == loop[t] = "load" /\ (terminateAll \/ terminateLoad)

\* conn->sentCount - conn->scnt >= conn->rx_depth makes the sender spin.
WindowOpen(t) == (sentCount[t] - scnt[t]) % Word < RxDepth

SenderLeaves(t) ==
  /\ sPc[t] = "loop"
  /\ EndOfLoad(t)
  /\ SenderGoto(t, "done")
  /\ UNCHANGED <<loop, index, sentCount, sends, bufSend, sq, crashed>>

\* While the window is closed the measured loop spins without a call, reading plain
\* variables other threads write: the compiler may read them once.
SpinForever(t) ==
  /\ sPc[t] = "loop"
  /\ loop[t] = "load"
  /\ ~EndOfLoad(t)
  /\ ~WindowOpen(t)
  /\ SenderGoto(t, "stuck")
  /\ UNCHANGED <<loop, index, sentCount, sends, bufSend, sq, crashed>>

\* The tests at the head of the loop let a request through.
EnterLoop(t) ==
  /\ sPc[t] = "loop"
  /\ sentCount[t] < MaxRequests
  /\ ~EndOfLoad(t)
  /\ WindowOpen(t)
  /\ SenderGoto(t, "build")
  /\ UNCHANGED <<loop, index, sentCount, sends, bufSend, sq, crashed>>

\* Fill buf_send[i] with a request of priority p and, in the measured loop, count it;
\* the end of the load may have come since the tests.
BuildRequest(t, p) ==
  /\ sPc[t] = "build"
  /\ bufSend' = [bufSend EXCEPT ![t][index[t]] = [prio |-> p, kind |-> loop[t]]]
  /\ sends' = IF loop[t] = "load" THEN [sends EXCEPT ![t][p] = @ + 1] ELSE sends
  /\ SenderGoto(t, "post")
  /\ UNCHANGED <<loop, index, sentCount, sq, crashed>>

\* Send slots of QP t in use: a slot is free again when its completion is polled.
SlotsUsed(t) == Len(sq[t]) + CountOf("send", cq[t])
HasRoom(t) == ~closed[t] /\ SlotsUsed(t) < RxDepth

\* my_sleep until the arrival time, then pp_post_send(ctx, dest_qpn, size, i).  On
\* ENOMEM a message is printed and the loop goes on.
Post(t) ==
  /\ sPc[t] = "post"
  /\ sq' = IF HasRoom(t) THEN [sq EXCEPT ![t] = Append(@, bufSend[t][index[t]])] ELSE sq
  /\ SenderGoto(t, IF HasRoom(t) THEN "count" ELSE "loop")
  /\ UNCHANGED <<loop, index, sentCount, sends, bufSend, crashed>>

\* The receiver of the connection does not wait for the sender: the context may be
\* closed when the sender wakes up.
PostCrashes(t) ==
  /\ sPc[t] = "post"
  /\ closed[t]
  /\ crashed' = TRUE
  /\ UNCHANGED <<senderVars, bufSend, sq>>

\* Mutation: the window wraps one buffer too late.
NextBufferLate(i) == IF i = WindowSize THEN 0 ELSE i + 1

\* if(i == window_size - 1) i = 0; else i++
NextBuffer(i) == IF i = WindowSize - 1 THEN 0 ELSE i + 1

\* conn->sentCount++ and the next buffer of the window.
CountSend(t) ==
  /\ sPc[t] = "count"
  /\ sentCount' = [sentCount EXCEPT ![t] = @ + 1]
  /\ index' = [index EXCEPT ![t] = NextBuffer(@)]
  /\ SenderGoto(t, "loop")
  /\ UNCHANGED <<loop, sends, bufSend, sq, crashed>>

Sender(t) ==
  /\ Running
  /\ \/ SenderArrives(t) \/ StartWarmUp(t) \/ WarmUpOver(t) \/ StartLoad(t)
     \/ SenderLeaves(t) \/ SpinForever(t) \/ EnterLoop(t)
     \/ (\E p \in Priorities : BuildRequest(t, p))
     \/ Post(t) \/ PostCrashes(t) \/ CountSend(t)
  /\ UNCHANGED <<mainVars, terminateAll, receiverVars, rq, cq, closed, net>>

-----------------------------------------------------------------------------
(* Receiver t *)

ReceiverGoto(t, l) == rPc' = [rPc EXCEPT ![t] = l]

\* window_size receives are posted before the first poll.
PostInitialRecvs(t) ==
  /\ rPc[t] = "init"
  /\ rq' = [rq EXCEPT ![t] = WindowSize]
  /\ ReceiverGoto(t, "test")
  /\ UNCHANGED <<wc, scnt, receives, drainLeft, terminateAll, bufSend, sq, cq, closed>>

\* Mutation: the receivers wait for terminate_all, which one of them sets after draining.
ReceiverTestAll(t) ==
  /\ rPc[t] = "test"
  /\ ReceiverGoto(t, IF terminateAll THEN "drain" ELSE "poll")
  /\ UNCHANGED <<wc, scnt, receives, drainLeft, terminateAll, bufSend, sq, cq, rq, closed>>

\* while(terminate_load == false)
ReceiverTest(t) ==
  /\ rPc[t] = "test"
  /\ ReceiverGoto(t, IF terminateLoad THEN "drain" ELSE "poll")
  /\ UNCHANGED <<wc, scnt, receives, drainLeft, terminateAll, bufSend, sq, cq, rq, closed>>

\* ibv_poll_cq(conn->ctx->cq, 2*num_bufs, wc): the array holds all of the queue.
TakeCompletions(t) ==
  /\ wc' = [wc EXCEPT ![t] = cq[t]]
  /\ cq' = [cq EXCEPT ![t] = <<>>]

Poll(t) ==
  /\ rPc[t] = "poll"
  /\ TakeCompletions(t)
  /\ ReceiverGoto(t, "handle")
  /\ UNCHANGED <<scnt, receives, drainLeft, terminateAll, bufSend, sq, rq, closed>>

\* One iteration of the drain loop polls the same way.
DrainPoll(t) ==
  /\ rPc[t] = "drain"
  /\ drainLeft[t] > 0
  /\ drainLeft' = [drainLeft EXCEPT ![t] = @ - 1]
  /\ TakeCompletions(t)
  /\ ReceiverGoto(t, "drainHandle")
  /\ UNCHANGED <<scnt, receives, terminateAll, bufSend, sq, rq, closed>>

\* Mutation: a send completion counts every completion the poll returned.
SendCompletionBatch(t) ==
  /\ rPc[t] \in {"handle", "drainHandle"}
  /\ wc[t] # <<>>
  /\ Head(wc[t]).op = "send"
  /\ scnt' = [scnt EXCEPT ![t] = @ + Len(wc[t])]
  /\ wc' = [wc EXCEPT ![t] = Tail(@)]
  /\ UNCHANGED <<rPc, receives, drainLeft, terminateAll, bufSend, sq, cq, rq, closed>>

\* ++conn->scnt
SendCompletion(t) ==
  /\ rPc[t] \in {"handle", "drainHandle"}
  /\ wc[t] # <<>>
  /\ Head(wc[t]).op = "send"
  /\ scnt' = [scnt EXCEPT ![t] = @ + 1]
  /\ wc' = [wc EXCEPT ![t] = Tail(@)]
  /\ UNCHANGED <<rPc, receives, drainLeft, terminateAll, bufSend, sq, cq, rq, closed>>

\* Mutation: warm-up responses give no receive back.
RepostMeasuredOnly(t) == rPc[t] = "handle" /\ warmUpDone

\* The load loop posts the receive again, the drain loop does not.
Reposts(t) == rPc[t] = "handle"

\* A response counts once warmUpDone is set, whichever loop sent its request.
RecvCompletion(t) ==
  /\ rPc[t] \in {"handle", "drainHandle"}
  /\ wc[t] # <<>>
  /\ Head(wc[t]).op = "recv"
  /\ receives' = IF warmUpDone THEN [receives EXCEPT ![t][Head(wc[t]).prio] = @ + 1]
                               ELSE receives
  /\ wc' = [wc EXCEPT ![t] = Tail(@)]
  /\ rq' = IF Reposts(t) THEN [rq EXCEPT ![t] = @ + 1] ELSE rq
  /\ UNCHANGED <<rPc, scnt, drainLeft, terminateAll, bufSend, sq, cq, closed>>

\* All completions of the poll are handled.
Handled(t) ==
  /\ rPc[t] \in {"handle", "drainHandle"}
  /\ wc[t] = <<>>
  /\ ReceiverGoto(t, IF rPc[t] = "handle" THEN "test" ELSE "drain")
  /\ UNCHANGED <<wc, scnt, receives, drainLeft, terminateAll, bufSend, sq, cq, rq, closed>>

\* The drain loop is over; the receiver arrives at barrier.
DrainOver(t) ==
  /\ rPc[t] = "drain"
  /\ drainLeft[t] = 0
  /\ ReceiverGoto(t, "barrier")
  /\ UNCHANGED <<wc, scnt, receives, drainLeft, terminateAll, bufSend, sq, cq, rq, closed>>

Drained == \A u \in Threads : rPc[u] \in {"barrier", "last", "postLast", "close", "done"}

\* Thread 0 raises terminate_all; the last thread goes on to stop the server.
LeaveBarrier(t) ==
  /\ rPc[t] = "barrier"
  /\ Drained
  /\ terminateAll' = (terminateAll \/ t = 0)
  /\ ReceiverGoto(t, IF t = NumThreads - 1 THEN "last" ELSE "close")
  /\ UNCHANGED <<wc, scnt, receives, drainLeft, bufSend, sq, cq, rq, closed>>

\* Bytes 0 to 3 and byte 10 of buf_send[0]; the priority bytes 12 and 13 keep what the
\* sender wrote there.
BuildLast(t) ==
  /\ rPc[t] = "last"
  /\ bufSend' = [bufSend EXCEPT ![t][0] = [prio |-> @.prio, kind |-> "last"]]
  /\ ReceiverGoto(t, "postLast")
  /\ UNCHANGED <<wc, scnt, receives, drainLeft, terminateAll, sq, cq, rq, closed>>

PostLast(t) ==
  /\ rPc[t] = "postLast"
  /\ sq' = IF HasRoom(t) THEN [sq EXCEPT ![t] = Append(@, bufSend[t][0])] ELSE sq
  /\ ReceiverGoto(t, "close")
  /\ UNCHANGED <<wc, scnt, receives, drainLeft, terminateAll, bufSend, cq, rq, closed>>

\* pp_close_ctx destroys the QP with whatever it still holds.
CloseCtx(t) ==
  /\ rPc[t] = "close"
  /\ closed' = [closed EXCEPT ![t] = TRUE]
  /\ sq' = [sq EXCEPT ![t] = <<>>]
  /\ cq' = [cq EXCEPT ![t] = <<>>]
  /\ rq' = [rq EXCEPT ![t] = 0]
  /\ ReceiverGoto(t, "done")
  /\ UNCHANGED <<wc, scnt, receives, drainLeft, terminateAll, bufSend>>

Receiver(t) ==
  /\ Running
  /\ \/ PostInitialRecvs(t) \/ ReceiverTest(t) \/ Poll(t) \/ SendCompletion(t)
     \/ RecvCompletion(t) \/ Handled(t) \/ DrainPoll(t) \/ DrainOver(t)
     \/ LeaveBarrier(t) \/ BuildLast(t) \/ PostLast(t) \/ CloseCtx(t)
  /\ UNCHANGED <<mainVars, senderVars, net, crashed>>

-----------------------------------------------------------------------------
(* Device, network and server *)

\* The oldest send of QP t leaves and completes.
NicSend(t) ==
  /\ sq[t] # <<>>
  /\ net' = [net EXCEPT ![[src |-> t, msg |-> Head(sq[t])]] = @ + 1]
  /\ sq' = [sq EXCEPT ![t] = Tail(@)]
  /\ cq' = [cq EXCEPT ![t] = Append(@, [op |-> "send", prio |-> Head(sq[t]).prio])]
  /\ UNCHANGED rq

\* A response reaches its client; it is dropped if no receive is posted there.
Answer(m) ==
  /\ net[m] > 0
  /\ m.msg.kind # "last"
  /\ net' = [net EXCEPT ![m] = @ - 1]
  /\ IF rq[m.src] > 0
       THEN /\ rq' = [rq EXCEPT ![m.src] = @ - 1]
            /\ cq' = [cq EXCEPT ![m.src] = Append(@, [op |-> "recv", prio |-> m.msg.prio])]
       ELSE UNCHANGED <<rq, cq>>
  /\ UNCHANGED sq

\* A request, or its response, is lost on the way.
Lose(m) ==
  /\ net[m] > 0
  /\ net' = [net EXCEPT ![m] = @ - 1]
  /\ UNCHANGED qpVars

Network ==
  /\ Running
  /\ \/ \E t \in Threads : NicSend(t)
     \/ \E m \in InNet : Answer(m) \/ Lose(m)
  /\ UNCHANGED <<mainVars, terminateAll, senderVars, receiverVars, bufSend, closed, crashed>>

-----------------------------------------------------------------------------
\* main has returned, or the process died.
AtRest == ~Running /\ UNCHANGED vars

Next == Main \/ (\E t \in Threads : Sender(t) \/ Receiver(t)) \/ Network \/ AtRest

Spec == Init /\ [][Next]_vars

\* Threads run on cores of their own; clocks advance.  The network owes nothing.
FairSpec ==
  /\ Spec
  /\ WF_vars(Main)
  /\ \A t \in Threads : WF_vars(Sender(t)) /\ WF_vars(Receiver(t))

-----------------------------------------------------------------------------
(* Types. *)

\* Type invariant: every variable has its type, and a request that is being posted is
\* within the bound.
TypeOK ==
  /\ main \in {"init", "barrier", "warm", "measure", "join", "done"}
  /\ {warmUpDone, terminateLoad, terminateAll, crashed} \subseteq BOOLEAN
  /\ tooManyDrops \in {"unknown", "yes", "no"}
  /\ sPc \in [Threads -> {"init", "barrier", "loop", "build", "post", "count", "warm",
                          "stuck", "done"}]
  /\ loop \in [Threads -> {"warmUp", "load"}]
  /\ index \in [Threads -> Buffers]
  /\ sentCount \in [Threads -> 0 .. MaxRequests]
  /\ scnt \in [Threads -> Nat]
  /\ sends \in [Threads -> [Priorities -> Nat]]
  /\ receives \in [Threads -> [Priorities -> Nat]]
  /\ bufSend \in [Threads -> [Buffers -> Message]]
  /\ rPc \in [Threads -> {"init", "test", "poll", "handle", "drain", "drainHandle",
                          "barrier", "last", "postLast", "close", "done"}]
  /\ wc \in [Threads -> Seq(Completion)]
  /\ drainLeft \in [Threads -> 0 .. DrainPolls]
  /\ rq \in [Threads -> Nat]
  /\ sq \in [Threads -> Seq(Message)]
  /\ cq \in [Threads -> Seq(Completion)]
  /\ closed \in [Threads -> BOOLEAN]
  /\ net \in [InNet -> Nat]
  /\ \A t \in Threads : sPc[t] \in {"build", "post", "count"} => sentCount[t] < MaxRequests

-----------------------------------------------------------------------------
(* Flow control. *)

\* The terminate packet, which no counter counts, has been posted on connection t.
StopPosted(t) == t = NumThreads - 1 /\ rPc[t] \in {"close", "done"}

\* The sender's test of sentCount - scnt, two counters of different threads that are
\* updated after the events they count, is sound: the unsigned difference never wraps
\* when the sender looks at it, and a request it lets through always finds a free slot
\* in the send queue, so no request is lost to ENOMEM (and counted in sends all the same).
GuardSound ==
  \A t \in Threads :
    /\ sPc[t] = "loop" => scnt[t] <= sentCount[t]
    /\ (sPc[t] = "post" /\ ~StopPosted(t)) => SlotsUsed(t) < RxDepth

\* While the load lasts every one of the window_size receives is posted or waiting as
\* a completion, so a response is dropped only if window_size others are unhandled.
\* It is what "Loading thread couldn't post receive" reports the absence of.
ReceivesPosted ==
  \A t \in Threads :
    rPc[t] \in {"test", "poll", "handle"} =>
      rq[t] + CountOf("recv", cq[t]) + CountOf("recv", wc[t]) = WindowSize

-----------------------------------------------------------------------------
(* Phases. *)

\* No request is measured while another sender still warms up: once one sender builds
\* measured requests no warm-up request is posted by any, and main has slept its 10 s.
WarmUpSeparate ==
  (\E t \in Threads, p \in Priorities : sends[t][p] > 0) =>
    /\ main \notin {"init", "barrier"}
    /\ \A u \in Threads : loop[u] = "load" \/ sPc[u] = "warm"

\* Once the last receiver is about to stop the server the measured counts are final:
\* every receiver has drained and counts no more responses.
CountsFinal ==
  [][rPc[NumThreads - 1] \in {"last", "postLast", "close", "done"} => receives' = receives]_vars

\* The client ends, whatever the network loses and although a sender may spin for ever:
\* main joins the receivers only.
ClientFinishes == <>(main = "done" \/ crashed)

-----------------------------------------------------------------------------
(* What documents and comments say and the code does not do. *)

Outstanding(t) == Len(sq[t]) + MapThenSumSet(LAMBDA m : net[m], {m \in InNet : m.src = t})

\* window_size bounds the requests a client thread has outstanding.
WindowRespected == \A t \in Threads : Outstanding(t) <= WindowSize

\* Too many drops are reported only if fewer responses than requests were counted for
\* some priority.
DropsAreReal ==
  tooManyDrops = "yes" =>
    \E p \in Priorities : Total(receives, p) < Total(sends, p)
=============================================================================
