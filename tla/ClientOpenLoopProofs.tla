------------------------ MODULE ClientOpenLoopProofs ------------------------
(***************************************************************************)
(* Proofs about ClientOpenLoop for any number of threads, window, depth    *)
(* and priorities: types, the sender's flow-control test and the receive   *)
(* window.                                                                 *)
(***************************************************************************)
EXTENDS ClientOpenLoop, FiniteSetTheorems, TLAPS

-----------------------------------------------------------------------------
(* Counting completions. *)

\* A sequence holds finitely many completions of a kind.
LEMMA CountType ==
  ASSUME NEW s \in Seq(Completion), NEW op
  PROVE  /\ IsFiniteSet({i \in DOMAIN s : s[i].op = op})
         /\ CountOf(op, s) \in Nat
<1>1. DOMAIN s = 1 .. Len(s) /\ Len(s) \in Nat
  OBVIOUS
<1>2. IsFiniteSet(1 .. Len(s))
  BY <1>1, FS_Interval
<1>3. {i \in DOMAIN s : s[i].op = op} \in SUBSET (1 .. Len(s))
  BY <1>1
<1> QED
  BY <1>2, <1>3, FS_Subset, FS_CardinalityType DEF CountOf

LEMMA CountEmpty ==
  ASSUME NEW op
  PROVE  CountOf(op, <<>>) = 0
<1>1. {i \in DOMAIN <<>> : <<>>[i].op = op} = {}
  OBVIOUS
<1> QED
  BY <1>1, FS_EmptySet DEF CountOf

\* Appending counts one more of its kind.
LEMMA CountAppend ==
  ASSUME NEW s \in Seq(Completion), NEW c \in Completion, NEW op
  PROVE  CountOf(op, Append(s, c)) = CountOf(op, s) + (IF c.op = op THEN 1 ELSE 0)
<1> DEFINE S == {i \in DOMAIN s : s[i].op = op}
           T == {i \in DOMAIN Append(s, c) : Append(s, c)[i].op = op}
           n == Len(s) + 1
<1>1. /\ DOMAIN s = 1 .. Len(s)
      /\ DOMAIN Append(s, c) = 1 .. n
      /\ Append(s, c)[n] = c
      /\ \A i \in 1 .. Len(s) : Append(s, c)[i] = s[i]
      /\ Len(s) \in Nat
  OBVIOUS
<1>2. IsFiniteSet(S) /\ Cardinality(S) \in Nat
  BY CountType DEF CountOf
<1>3. n \notin S
  BY <1>1
<1>4. CASE c.op = op
  <2>1. T = S \cup {n}
    BY <1>1, <1>4
  <2> QED
    BY <2>1, <1>2, <1>3, <1>4, FS_AddElement DEF CountOf
<1>5. CASE c.op # op
  <2>1. T = S
    BY <1>1, <1>5
  <2>2. CountOf(op, s) = Cardinality(S) /\ CountOf(op, Append(s, c)) = Cardinality(T)
    BY DEF CountOf
  <2> HIDE DEF S, T
  <2> QED
    BY <2>1, <2>2, <1>2, <1>5
<1> QED
  BY <1>4, <1>5

\* Taking the head counts one less of its kind.
LEMMA CountTail ==
  ASSUME NEW s \in Seq(Completion), s # <<>>, NEW op
  PROVE  CountOf(op, s) = CountOf(op, Tail(s)) + (IF Head(s).op = op THEN 1 ELSE 0)
<1> DEFINE S == {i \in DOMAIN s : s[i].op = op}
           T == {i \in DOMAIN Tail(s) : Tail(s)[i].op = op}
           f == [i \in T |-> i + 1]
<1>1. /\ DOMAIN s = 1 .. Len(s)
      /\ DOMAIN Tail(s) = 1 .. Len(s) - 1
      /\ \A i \in 1 .. Len(s) - 1 : Tail(s)[i] = s[i + 1]
      /\ Head(s) = s[1]
      /\ Len(s) \in Nat \ {0}
      /\ Tail(s) \in Seq(Completion)
  OBVIOUS
<1>2. IsFiniteSet(S) /\ IsFiniteSet(T) /\ Cardinality(S) \in Nat /\ Cardinality(T) \in Nat
  BY <1>1, CountType DEF CountOf
<1>3. f \in Bijection(T, S \ {1})
  <2>1. \A i \in T : i \in Int /\ i + 1 \in S \ {1}
    BY <1>1
  <2>2. f \in [T -> S \ {1}]
    BY <2>1
  <2>3. \A i, j \in T : f[i] = f[j] => i = j
    BY <2>1
  <2>4. \A k \in S \ {1} : k - 1 \in T /\ f[k - 1] = k
    BY <1>1
  <2>5. f \in Injection(T, S \ {1})
    BY <2>2, <2>3 DEF Injection, IsInjective
  <2>6. f \in Surjection(T, S \ {1})
    BY <2>2, <2>4 DEF Surjection
  <2> QED
    BY <2>5, <2>6 DEF Bijection
<1>4. Cardinality(S \ {1}) = Cardinality(T)
  BY <1>2, <1>3, FS_Bijection DEF ExistsBijection
<1>5. 1 \in S <=> Head(s).op = op
  BY <1>1
<1>6. Cardinality(S \ {1}) = IF 1 \in S THEN Cardinality(S) - 1 ELSE Cardinality(S)
  BY <1>2, FS_RemoveElement
<1>7. CountOf(op, s) = Cardinality(S) /\ CountOf(op, Tail(s)) = Cardinality(T)
  BY DEF CountOf
<1> HIDE DEF S, T
<1> QED
  BY <1>2, <1>4, <1>5, <1>6, <1>7

-----------------------------------------------------------------------------
(* Types. *)

\* The constants in the form the steps below use.
LEMMA Constants ==
  /\ NumThreads \in Nat \ {0} /\ WindowSize \in Nat \ {0} /\ RxDepth \in Nat \ {0}
  /\ NumPriorities \in Nat \ {0} /\ DrainPolls \in Nat /\ MaxRequests \in Nat
  /\ Word \in Nat /\ MaxRequests < Word /\ RxDepth < Word
  /\ 0 \in Buffers /\ 0 \in Priorities /\ 0 \in Threads
  BY ClientAssumption DEF Buffers, Priorities, Threads

\* Counting one event of priority p at thread t.
LEMMA CountUp ==
  ASSUME NEW f \in [Threads -> [Priorities -> Nat]], NEW t \in Threads, NEW p \in Priorities
  PROVE  [f EXCEPT ![t][p] = @ + 1] \in [Threads -> [Priorities -> Nat]]
<1>1. f[t] \in [Priorities -> Nat]
  OBVIOUS
<1>2. [f[t] EXCEPT ![p] = @ + 1] \in [Priorities -> Nat]
  BY <1>1
<1>3. [f EXCEPT ![t][p] = @ + 1] = [f EXCEPT ![t] = [f[t] EXCEPT ![p] = @ + 1]]
  OBVIOUS
<1> QED
  BY <1>2, <1>3

\* Writing one send buffer.
LEMMA WriteBuffer ==
  ASSUME NEW f \in [Threads -> [Buffers -> Message]], NEW t \in Threads, NEW i \in Buffers,
         NEW m \in Message
  PROVE  [f EXCEPT ![t][i] = m] \in [Threads -> [Buffers -> Message]]
<1>1. [f[t] EXCEPT ![i] = m] \in [Buffers -> Message]
  OBVIOUS
<1>2. [f EXCEPT ![t][i] = m] = [f EXCEPT ![t] = [f[t] EXCEPT ![i] = m]]
  OBVIOUS
<1> QED
  BY <1>1, <1>2

LEMMA TypeInit == Init => TypeOK
<1> SUFFICES ASSUME Init PROVE TypeOK
  OBVIOUS
<1>1. [prio |-> 0, kind |-> "warmUp"] \in Message
  BY Constants DEF Message
<1> QED
  <2>1. /\ main \in {"init"} /\ tooManyDrops \in {"unknown"}
        /\ {warmUpDone, terminateLoad, terminateAll, crashed} \subseteq BOOLEAN
        /\ sPc \in [Threads -> {"init"}] /\ loop \in [Threads -> {"warmUp"}]
        /\ rPc \in [Threads -> {"init"}]
        /\ closed \in [Threads -> BOOLEAN]
    BY DEF Init
  <2>2. /\ index \in [Threads -> Buffers] /\ sentCount \in [Threads -> 0 .. MaxRequests]
        /\ scnt \in [Threads -> Nat] /\ drainLeft \in [Threads -> 0 .. DrainPolls]
        /\ rq \in [Threads -> Nat] /\ net \in [InNet -> Nat]
    BY Constants DEF Init
  <2>3. /\ sends \in [Threads -> [Priorities -> Nat]]
        /\ receives \in [Threads -> [Priorities -> Nat]]
    BY DEF Init
  <2>4. bufSend \in [Threads -> [Buffers -> Message]]
    BY <1>1 DEF Init
  <2>5. /\ wc \in [Threads -> Seq(Completion)] /\ sq \in [Threads -> Seq(Message)]
        /\ cq \in [Threads -> Seq(Completion)]
    BY DEF Init
  <2>6. \A t \in Threads : sPc[t] = "init"
    BY DEF Init
  <2> QED
    BY <2>1, <2>2, <2>3, <2>4, <2>5, <2>6 DEF TypeOK

LEMMA TypeMain == TypeOK /\ Main => TypeOK'
<1> SUFFICES ASSUME TypeOK, Main PROVE TypeOK'
  OBVIOUS
<1> QED
  BY DEF TypeOK, Main, MainArrives, MainSleeps, WarmUpDone, TerminateLoad, Report,
         senderVars, receiverVars, qpVars

LEMMA TypeSender ==
  ASSUME TypeOK, NEW t \in Threads, Sender(t)
  PROVE  TypeOK'
<1> USE DEF SenderGoto
<1> DEFINE Rest == UNCHANGED <<mainVars, terminateAll, receiverVars, rq, cq, closed, net>>
<1>0. Rest
  BY DEF Sender
<1>1. CASE SenderArrives(t) \/ StartWarmUp(t) \/ WarmUpOver(t) \/ SenderLeaves(t) \/ SpinForever(t)
            \/ EnterLoop(t)
  BY <1>0, <1>1 DEF TypeOK, SenderArrives, StartWarmUp, WarmUpOver, SenderLeaves, SpinForever,
                    EnterLoop, mainVars, receiverVars
<1>2. CASE StartLoad(t)
  BY <1>0, <1>2 DEF TypeOK, StartLoad, mainVars, receiverVars
<1>3. ASSUME NEW p \in Priorities, BuildRequest(t, p) PROVE TypeOK'
  <2>1. bufSend' \in [Threads -> [Buffers -> Message]]
    <3>1. [prio |-> p, kind |-> loop[t]] \in Message
      BY <1>3 DEF TypeOK, Message
    <3> QED
      BY <1>3, <3>1, WriteBuffer DEF TypeOK, BuildRequest
  <2>2. sends' \in [Threads -> [Priorities -> Nat]]
    BY <1>3, CountUp DEF TypeOK, BuildRequest
  <2> QED
    BY <1>0, <1>3, <2>1, <2>2 DEF TypeOK, BuildRequest, mainVars, receiverVars
<1>4. CASE Post(t)
  <2>1. sq' \in [Threads -> Seq(Message)]
    <3>1. bufSend[t][index[t]] \in Message
      BY DEF TypeOK
    <3>2. Append(sq[t], bufSend[t][index[t]]) \in Seq(Message)
      BY <3>1 DEF TypeOK
    <3> QED
      BY <1>4, <3>2 DEF TypeOK, Post
  <2> QED
    BY <1>0, <1>4, <2>1 DEF TypeOK, Post, mainVars, receiverVars
<1>5. CASE PostCrashes(t)
  BY <1>0, <1>5 DEF TypeOK, PostCrashes, mainVars, senderVars, receiverVars
<1>6. CASE CountSend(t)
  <2>1. NextBuffer(index[t]) \in Buffers
    <3>1. index[t] \in Buffers
      BY DEF TypeOK
    <3> QED
      BY <3>1, Constants DEF NextBuffer, Buffers
  <2>2. sentCount[t] + 1 \in 0 .. MaxRequests
    <3>1. sentCount[t] \in 0 .. MaxRequests /\ sentCount[t] < MaxRequests
      BY <1>6 DEF TypeOK, CountSend
    <3> QED
      BY <3>1, Constants
  <2> QED
    BY <1>0, <1>6, <2>1, <2>2 DEF TypeOK, CountSend, mainVars, receiverVars
<1> QED
  BY <1>1, <1>2, <1>3, <1>4, <1>5, <1>6 DEF Sender

LEMMA TypeReceiver ==
  ASSUME TypeOK, NEW t \in Threads, Receiver(t)
  PROVE  TypeOK'
<1> USE DEF ReceiverGoto
<1>0. UNCHANGED <<mainVars, senderVars, net, crashed>>
  BY DEF Receiver
<1>a. wc[t] # <<>> => Head(wc[t]) \in Completion /\ Tail(wc[t]) \in Seq(Completion)
  BY DEF TypeOK
<1>1. CASE PostInitialRecvs(t)
  BY <1>0, <1>1, Constants DEF TypeOK, PostInitialRecvs, mainVars, senderVars
<1>2. CASE ReceiverTest(t) \/ Handled(t) \/ DrainOver(t)
  BY <1>0, <1>2 DEF TypeOK, ReceiverTest, Handled, DrainOver, mainVars, senderVars
<1>3. CASE Poll(t)
  BY <1>0, <1>3 DEF TypeOK, Poll, TakeCompletions, mainVars, senderVars
<1>4. CASE DrainPoll(t)
  <2>1. drainLeft[t] - 1 \in 0 .. DrainPolls
    <3>1. drainLeft[t] \in 0 .. DrainPolls /\ drainLeft[t] > 0
      BY <1>4 DEF TypeOK, DrainPoll
    <3> QED
      BY <3>1, Constants
  <2> QED
    BY SMTT(30), <1>0, <1>4, <2>1 DEF TypeOK, DrainPoll, TakeCompletions, mainVars, senderVars
<1>5. CASE SendCompletion(t)
  <2>1. scnt[t] + 1 \in Nat
    BY DEF TypeOK
  <2> QED
    BY <1>0, <1>a, <1>5, <2>1 DEF TypeOK, SendCompletion, mainVars, senderVars
<1>6. CASE RecvCompletion(t)
  <2>1. Head(wc[t]).prio \in Priorities
    BY <1>a, <1>6 DEF RecvCompletion, Completion
  <2>2. receives' \in [Threads -> [Priorities -> Nat]]
    BY <1>6, <2>1, CountUp DEF TypeOK, RecvCompletion
  <2>3. rq[t] + 1 \in Nat
    BY DEF TypeOK
  <2>4. rq' \in [Threads -> Nat]
    BY <1>6, <2>3 DEF TypeOK, RecvCompletion
  <2>5. wc' \in [Threads -> Seq(Completion)]
    BY <1>6, <1>a DEF TypeOK, RecvCompletion
  <2>6. UNCHANGED <<rPc, scnt, drainLeft, terminateAll, bufSend, sq, cq, closed>>
    BY <1>6 DEF RecvCompletion
  <2> QED
    BY <1>0, <2>2, <2>4, <2>5, <2>6 DEF TypeOK, mainVars, senderVars
<1>7. CASE LeaveBarrier(t)
  BY <1>0, <1>7 DEF TypeOK, LeaveBarrier, mainVars, senderVars
<1>8. CASE BuildLast(t)
  <2>1. bufSend' \in [Threads -> [Buffers -> Message]]
    <3>0. bufSend[t][0] \in Message
      BY Constants DEF TypeOK
    <3>1. [prio |-> bufSend[t][0].prio, kind |-> "last"] \in Message
      BY <3>0 DEF Message
    <3>2. bufSend' = [bufSend EXCEPT ![t][0] = [prio |-> bufSend[t][0].prio, kind |-> "last"]]
      BY <1>8 DEF BuildLast
    <3> QED
      BY <3>1, <3>2, Constants, WriteBuffer DEF TypeOK
  <2> QED
    BY <1>0, <1>8, <2>1 DEF TypeOK, BuildLast, mainVars, senderVars
<1>9. CASE PostLast(t)
  <2>1. sq' \in [Threads -> Seq(Message)]
    <3>1. bufSend[t][0] \in Message
      BY Constants DEF TypeOK
    <3>2. Append(sq[t], bufSend[t][0]) \in Seq(Message)
      BY <3>1 DEF TypeOK
    <3> QED
      BY <1>9, <3>2 DEF TypeOK, PostLast
  <2> QED
    BY <1>0, <1>9, <2>1 DEF TypeOK, PostLast, mainVars, senderVars
<1>10. CASE CloseCtx(t)
  BY <1>0, <1>10 DEF TypeOK, CloseCtx, mainVars, senderVars
<1> QED
  BY <1>1, <1>2, <1>3, <1>4, <1>5, <1>6, <1>7, <1>8, <1>9, <1>10 DEF Receiver

\* A send of QP t leaves.
LEMMA NicSendParts ==
  ASSUME TypeOK, NEW t \in Threads, NicSend(t)
  PROVE  /\ Head(sq[t]) \in Message
         /\ Tail(sq[t]) \in Seq(Message)
         /\ [src |-> t, msg |-> Head(sq[t])] \in InNet
         /\ [op |-> "send", prio |-> Head(sq[t]).prio] \in Completion
<1>1. sq[t] \in Seq(Message) /\ sq[t] # <<>>
  BY DEF TypeOK, NicSend
<1>2. Head(sq[t]) \in Message /\ Tail(sq[t]) \in Seq(Message)
  BY <1>1
<1>3. Head(sq[t]).prio \in Priorities
  BY <1>2 DEF Message
<1> QED
  BY <1>2, <1>3 DEF InNet, Completion

\* A response of connection m.src.
LEMMA AnswerParts ==
  ASSUME NEW m \in InNet
  PROVE  m.src \in Threads /\ [op |-> "recv", prio |-> m.msg.prio] \in Completion
<1>1. m.src \in Threads /\ m.msg \in Message
  BY DEF InNet
<1>2. m.msg.prio \in Priorities
  BY <1>1 DEF Message
<1> QED
  BY <1>1, <1>2 DEF Completion

LEMMA TypeNetwork ==
  ASSUME TypeOK, Network
  PROVE  TypeOK'
<1>0. UNCHANGED <<mainVars, terminateAll, senderVars, receiverVars, bufSend, closed, crashed>>
  BY DEF Network
<1>q. SUFFICES /\ rq' \in [Threads -> Nat] /\ sq' \in [Threads -> Seq(Message)]
               /\ cq' \in [Threads -> Seq(Completion)] /\ net' \in [InNet -> Nat]
  BY <1>0 DEF TypeOK, mainVars, senderVars, receiverVars
<1>1. ASSUME NEW t \in Threads, NicSend(t) PROVE <1>q!1
  <2>1. /\ Head(sq[t]) \in Message
        /\ Tail(sq[t]) \in Seq(Message)
        /\ [src |-> t, msg |-> Head(sq[t])] \in InNet
        /\ [op |-> "send", prio |-> Head(sq[t]).prio] \in Completion
    BY <1>1, NicSendParts
  <2>2. net' \in [InNet -> Nat]
    BY <1>1, <2>1 DEF TypeOK, NicSend
  <2>3. Append(cq[t], [op |-> "send", prio |-> Head(sq[t]).prio]) \in Seq(Completion)
    BY <2>1 DEF TypeOK
  <2>4. cq' \in [Threads -> Seq(Completion)]
    BY <1>1, <2>3 DEF TypeOK, NicSend
  <2> QED
    BY <1>1, <2>1, <2>2, <2>4 DEF TypeOK, NicSend
<1>2. ASSUME NEW m \in InNet, Answer(m) PROVE <1>q!1
  <2>1. m.src \in Threads /\ [op |-> "recv", prio |-> m.msg.prio] \in Completion
    BY AnswerParts
  <2>2. net[m] \in Nat /\ net[m] > 0 /\ rq[m.src] \in Nat
    BY <1>2, <2>1 DEF TypeOK, Answer
  <2>3. net[m] - 1 \in Nat /\ (rq[m.src] > 0 => rq[m.src] - 1 \in Nat)
    BY <2>2
  <2>4. Append(cq[m.src], [op |-> "recv", prio |-> m.msg.prio]) \in Seq(Completion)
    BY <2>1 DEF TypeOK
  <2>5. net' \in [InNet -> Nat]
    BY <1>2, <2>3 DEF TypeOK, Answer
  <2>6. CASE rq[m.src] > 0
    <3>1. rq' \in [Threads -> Nat]
      BY <1>2, <2>1, <2>3, <2>6 DEF TypeOK, Answer
    <3>2. cq' \in [Threads -> Seq(Completion)]
      BY <1>2, <2>1, <2>4, <2>6 DEF TypeOK, Answer
    <3> QED
      BY <1>2, <2>5, <3>1, <3>2 DEF TypeOK, Answer
  <2>7. CASE ~(rq[m.src] > 0)
    BY <1>2, <2>5, <2>7 DEF TypeOK, Answer
  <2> QED
    BY <2>6, <2>7
<1>3. ASSUME NEW m \in InNet, Lose(m) PROVE <1>q!1
  <2>1. net[m] \in Nat /\ net[m] > 0
    BY <1>3 DEF TypeOK, Lose
  <2>2. net[m] - 1 \in Nat
    BY <2>1
  <2> QED
    BY <1>3, <2>2 DEF TypeOK, Lose, qpVars
<1> QED
  BY <1>1, <1>2, <1>3 DEF Network

LEMMA TypeStutter == TypeOK /\ UNCHANGED vars => TypeOK'
  BY DEF TypeOK, vars, mainVars, senderVars, receiverVars, qpVars

LEMMA TypeNext == TypeOK /\ [Next]_vars => TypeOK'
<1> SUFFICES ASSUME TypeOK, [Next]_vars PROVE TypeOK'
  OBVIOUS
<1>1. CASE Main
  BY <1>1, TypeMain
<1>2. ASSUME NEW t \in Threads, Sender(t) PROVE TypeOK'
  BY <1>2, TypeSender
<1>3. ASSUME NEW t \in Threads, Receiver(t) PROVE TypeOK'
  BY <1>3, TypeReceiver
<1>4. CASE Network
  BY <1>4, TypeNetwork
<1>5. CASE UNCHANGED vars
  BY <1>5, TypeStutter
<1> QED
  BY <1>1, <1>2, <1>3, <1>4, <1>5 DEF Next, AtRest

\* Every reachable state of the open-loop client is well typed; in particular the
\* sender's index i stays inside its window_size send buffers.
THEOREM ClientTypeCorrect == Spec => []TypeOK
  BY TypeInit, TypeNext, PTL DEF Spec

-----------------------------------------------------------------------------
(* Flow control and the receive window, connection by connection. *)

Handling(t) == rPc[t] \in {"handle", "drainHandle"}

\* A request that is posted and not counted in sentCount yet.
Pending(t) == IF sPc[t] = "count" THEN 1 ELSE 0

\* Sends of connection t between the post and ++scnt: queued, completed, or polled.
InSend(t) == Len(sq[t]) + CountOf("send", cq[t]) + CountOf("send", wc[t])

\* What makes the sender's test sound: counted completions never overtake counted
\* posts by more than the post under way, and all sends in the device are accounted for.
Flow(t) ==
  /\ scnt[t] + CountOf("send", wc[t]) <= sentCount[t] + Pending(t)
  /\ ~StopPosted(t) => InSend(t) + scnt[t] <= sentCount[t] + Pending(t)
  /\ sPc[t] \in {"build", "post"} => sentCount[t] - scnt[t] < RxDepth

\* The receives of connection t: posted, completed or polled.
Window(t) ==
  /\ rPc[t] = "init" => rq[t] = 0 /\ CountOf("recv", cq[t]) = 0
  /\ rPc[t] \in {"test", "poll", "handle"} =>
       rq[t] + CountOf("recv", cq[t]) + CountOf("recv", wc[t]) = WindowSize

\* Completions are held only while they are handled; the last thread alone stops the server.
Places(t) ==
  /\ Handling(t) \/ wc[t] = <<>>
  /\ rPc[t] \in {"last", "postLast"} => t = NumThreads - 1

Connection(t) == Places(t) /\ Flow(t) /\ Window(t)

ClientInv == TypeOK /\ \A t \in Threads : Connection(t)

\* What connection t owns.
conn(t) == <<sPc[t], sentCount[t], rPc[t], wc[t], scnt[t], rq[t], sq[t], cq[t]>>

LEMMA ConnectionKept ==
  ASSUME NEW t \in Threads, Connection(t), UNCHANGED conn(t)
  PROVE  Connection(t)'
  BY DEF Connection, Places, Handling, Flow, Window, Pending, InSend, StopPosted, conn

\* The types of what connection t owns.
LEMMA ConnectionTypes ==
  ASSUME TypeOK, NEW t \in Threads
  PROVE  /\ sentCount[t] \in Nat /\ sentCount[t] <= MaxRequests
         /\ scnt[t] \in Nat /\ rq[t] \in Nat /\ Len(sq[t]) \in Nat
         /\ wc[t] \in Seq(Completion) /\ cq[t] \in Seq(Completion) /\ sq[t] \in Seq(Message)
         /\ \A op : CountOf(op, cq[t]) \in Nat /\ CountOf(op, wc[t]) \in Nat
<1>1. sentCount[t] \in 0 .. MaxRequests
  BY DEF TypeOK
<1>2. wc[t] \in Seq(Completion) /\ cq[t] \in Seq(Completion) /\ sq[t] \in Seq(Message)
  BY DEF TypeOK
<1>3. scnt[t] \in Nat /\ rq[t] \in Nat
  BY DEF TypeOK
<1>4. \A op : CountOf(op, cq[t]) \in Nat /\ CountOf(op, wc[t]) \in Nat
  BY <1>2, CountType
<1>5. sentCount[t] \in Nat /\ sentCount[t] <= MaxRequests
  BY <1>1, Constants
<1> QED
  BY <1>2, <1>3, <1>4, <1>5

\* An unsigned difference that does not wrap is the difference.
LEMMA NoWrap ==
  ASSUME NEW a \in Nat, NEW w \in Nat, a < w
  PROVE  a % w = a
  OBVIOUS

\* Arithmetic of moving one unit between counters.
LEMMA Regroup ==
  ASSUME NEW a \in Nat, NEW b \in Nat, NEW n \in Nat
  PROVE  /\ a + b + (n + 1) = a + b + n + 1
         /\ (a + 1) + b + n = a + b + n + 1
         /\ a + b + n \in Nat
  OBVIOUS

LEMMA OneMoreCounted ==
  ASSUME NEW x \in Nat, NEW n \in Nat, NEW k \in Nat, NEW c \in Nat, NEW b \in {0, 1}
  PROVE  /\ x + (n + 1) <= c + b => (x + 1) + n <= c + b
         /\ k + 1 + x <= c + b => k + (x + 1) <= c + b
         /\ c - x < RxDepth => c - (x + 1) < RxDepth
  BY Constants

LEMMA ConnectionInit == Init => \A t \in Threads : Connection(t)
<1> SUFFICES ASSUME Init, NEW t \in Threads PROVE Connection(t)
  OBVIOUS
<1>1. /\ sPc[t] = "init" /\ rPc[t] = "init" /\ wc[t] = <<>> /\ sq[t] = <<>> /\ cq[t] = <<>>
      /\ scnt[t] = 0 /\ sentCount[t] = 0 /\ rq[t] = 0
  BY DEF Init
<1>2. CountOf("send", wc[t]) = 0 /\ CountOf("send", cq[t]) = 0 /\ CountOf("recv", cq[t]) = 0
  BY <1>1, CountEmpty
<1>3. Len(sq[t]) = 0
  BY <1>1
<1> QED
  BY <1>1, <1>2, <1>3 DEF Connection, Places, Flow, Window, Pending, InSend

LEMMA ConnectionSender ==
  ASSUME TypeOK, NEW u \in Threads, Connection(u), NEW t \in Threads, Sender(t)
  PROVE  Connection(u)'
<1> USE DEF SenderGoto
<1>0. UNCHANGED <<receiverVars, rq, cq>>
  BY DEF Sender
<1>a. UNCHANGED <<rPc[u], wc[u], scnt[u], rq[u], cq[u]>>
  BY <1>0 DEF receiverVars
<1>t. /\ sentCount[u] \in Nat /\ sentCount[u] <= MaxRequests
      /\ scnt[u] \in Nat /\ Len(sq[u]) \in Nat /\ sq[u] \in Seq(Message)
      /\ CountOf("send", cq[u]) \in Nat /\ CountOf("send", wc[u]) \in Nat
  BY ConnectionTypes
<1>w. Flow(u)' => Connection(u)'
  BY <1>a DEF Connection, Places, Handling, Window
<1>f. Flow(u)
  BY DEF Connection
<1>1. CASE u # t
  <2>1. UNCHANGED <<sPc[u], sentCount[u], sq[u]>>
    BY <1>1 DEF Sender, SenderArrives, StartWarmUp, WarmUpOver, StartLoad, SenderLeaves,
                SpinForever, EnterLoop, BuildRequest, Post, PostCrashes, CountSend, senderVars, TypeOK
  <2> QED
    BY <1>a, <2>1, ConnectionKept DEF conn
<1>2. CASE u = t /\ (SenderArrives(t) \/ StartWarmUp(t) \/ WarmUpOver(t) \/ StartLoad(t)
                      \/ SenderLeaves(t) \/ SpinForever(t))
  <2>1. /\ sPc[u] \notin {"count", "build", "post"} /\ sPc'[u] \notin {"count", "build", "post"}
        /\ UNCHANGED <<sentCount[u], sq[u]>>
    BY <1>2 DEF SenderArrives, StartWarmUp, WarmUpOver, StartLoad, SenderLeaves, SpinForever,
                TypeOK
  <2>2. Flow(u)'
    BY <1>a, <1>f, <2>1 DEF Flow, Pending, InSend, StopPosted
  <2> QED
    BY <2>2, <1>w
<1>3. CASE u = t /\ EnterLoop(t)
  <2>1. /\ sPc[u] = "loop" /\ sPc'[u] = "build" /\ UNCHANGED <<sentCount[u], sq[u]>>
        /\ WindowOpen(u)
    BY <1>3 DEF EnterLoop, TypeOK
  <2>2. scnt[u] <= sentCount[u]
    BY <1>f, <1>t, <2>1 DEF Flow, Pending
  <2>3. (sentCount[u] - scnt[u]) % Word = sentCount[u] - scnt[u]
    <3>1. sentCount[u] - scnt[u] \in Nat /\ sentCount[u] - scnt[u] < Word /\ Word \in Nat
      BY <1>t, <2>2, Constants
    <3> QED
      BY <3>1, NoWrap
  <2>4. sentCount[u] - scnt[u] < RxDepth
    BY <2>1, <2>3 DEF WindowOpen
  <2>5. Flow(u)'
    BY <1>a, <1>f, <2>1, <2>4 DEF Flow, Pending, InSend, StopPosted
  <2> QED
    BY <2>5, <1>w
<1>4. CASE u = t /\ Post(t)
  <2>1. sPc[u] = "post" /\ sentCount'[u] = sentCount[u]
    BY <1>4 DEF Post
  <2>2. CASE HasRoom(t)
    <3>1. sPc'[u] = "count" /\ sq'[u] = Append(sq[u], bufSend[u][index[u]])
      BY <1>4, <2>2 DEF Post, TypeOK
    <3>2. bufSend[u][index[u]] \in Message
      BY DEF TypeOK
    <3>3. Len(sq'[u]) = Len(sq[u]) + 1
      BY <1>t, <3>1, <3>2
    <3>a. Pending(u) = 0 /\ Pending(u)' = 1
      BY <2>1, <3>1 DEF Pending
    <3>b. InSend(u)' = InSend(u) + 1 /\ InSend(u) \in Nat
      <4>1. /\ InSend(u)' = Len(sq[u]) + 1 + CountOf("send", cq[u]) + CountOf("send", wc[u])
            /\ InSend(u) = Len(sq[u]) + CountOf("send", cq[u]) + CountOf("send", wc[u])
        BY <1>a, <3>3 DEF InSend
      <4> QED
        BY <1>t, <4>1
    <3>c. StopPosted(u)' <=> StopPosted(u)
      BY <1>a DEF StopPosted
    <3>4. Flow(u)'
      BY <1>a, <1>f, <1>t, <2>1, <3>1, <3>a, <3>b, <3>c DEF Flow
    <3> QED
      BY <3>4, <1>w
  <2>3. CASE ~HasRoom(t)
    <3>1. sPc'[u] = "loop" /\ sq'[u] = sq[u]
      BY <1>4, <2>3 DEF Post, TypeOK
    <3>2. Flow(u)'
      BY <1>a, <1>f, <2>1, <3>1 DEF Flow, Pending, InSend, StopPosted
    <3> QED
      BY <3>2, <1>w
  <2> QED
    BY <2>2, <2>3
<1>5. CASE u = t /\ PostCrashes(t)
  BY <1>5, <1>a, ConnectionKept DEF PostCrashes, senderVars, conn
<1>6. CASE u = t /\ CountSend(t)
  <2>1. /\ sPc[u] = "count" /\ sPc'[u] = "loop" /\ sentCount'[u] = sentCount[u] + 1
        /\ sq'[u] = sq[u]
    BY <1>6 DEF CountSend, TypeOK
  <2>2. Flow(u)'
    BY <1>a, <1>f, <1>t, <2>1 DEF Flow, Pending, InSend, StopPosted
  <2> QED
    BY <2>2, <1>w
<1>7. ASSUME u = t, NEW p \in Priorities, BuildRequest(t, p) PROVE Connection(u)'
  <2>1. /\ sPc[u] = "build" /\ sPc'[u] = "post" /\ UNCHANGED <<sentCount[u], sq[u]>>
    BY <1>7 DEF BuildRequest, TypeOK
  <2>2. Flow(u)'
    BY <1>a, <1>f, <2>1 DEF Flow, Pending, InSend, StopPosted
  <2> QED
    BY <2>2, <1>w
<1> QED
  BY <1>1, <1>2, <1>3, <1>4, <1>5, <1>6, <1>7 DEF Sender

LEMMA ConnectionReceiver ==
  ASSUME TypeOK, NEW u \in Threads, Connection(u), NEW t \in Threads, Receiver(t)
  PROVE  Connection(u)'
<1> USE DEF ReceiverGoto
<1>0. UNCHANGED senderVars
  BY DEF Receiver
<1>a. UNCHANGED <<sPc[u], sentCount[u]>> /\ Pending(u)' = Pending(u) /\ Pending(u) \in {0, 1}
  BY <1>0 DEF senderVars, Pending
<1>t. /\ sentCount[u] \in Nat /\ sentCount[u] <= MaxRequests
      /\ scnt[u] \in Nat /\ rq[u] \in Nat /\ Len(sq[u]) \in Nat
      /\ wc[u] \in Seq(Completion) /\ cq[u] \in Seq(Completion) /\ sq[u] \in Seq(Message)
      /\ CountOf("send", cq[u]) \in Nat /\ CountOf("send", wc[u]) \in Nat
      /\ CountOf("recv", cq[u]) \in Nat /\ CountOf("recv", wc[u]) \in Nat
  BY ConnectionTypes
<1>e. CountOf("send", <<>>) = 0 /\ CountOf("recv", <<>>) = 0
  BY CountEmpty
<1>1. CASE u # t
  <2>1. UNCHANGED <<rPc[u], wc[u], scnt[u], rq[u], sq[u], cq[u]>>
    BY <1>1 DEF Receiver, PostInitialRecvs, ReceiverTest, Poll, TakeCompletions, SendCompletion,
                RecvCompletion, Handled, DrainPoll, DrainOver, LeaveBarrier, BuildLast, PostLast,
                CloseCtx, TypeOK
  <2> QED
    BY <1>a, <2>1, ConnectionKept DEF conn
<1>2. CASE u = t /\ PostInitialRecvs(t)
  <2>1. /\ rPc[u] = "init" /\ rPc'[u] = "test" /\ rq'[u] = WindowSize
        /\ UNCHANGED <<wc[u], scnt[u], sq[u], cq[u]>>
    BY <1>2 DEF PostInitialRecvs, TypeOK
  <2>2. wc[u] = <<>> /\ CountOf("recv", cq[u]) = 0
    BY <2>1 DEF Connection, Places, Handling, Window
  <2>3. Window(u)'
    BY <1>e, <2>1, <2>2, Constants DEF Window
  <2>4. Flow(u)'
    BY <1>a, <2>1 DEF Connection, Flow, InSend, StopPosted
  <2> QED
    BY <2>1, <2>2, <2>3, <2>4 DEF Connection, Places
<1>3. CASE u = t /\ (ReceiverTest(t) \/ DrainOver(t) \/ LeaveBarrier(t) \/ BuildLast(t) \/ Handled(t))
  <2>1. /\ UNCHANGED <<wc[u], scnt[u], rq[u], sq[u], cq[u]>>
        /\ ~StopPosted(u)
        /\ wc[u] = <<>>
        /\ rPc'[u] # "init"
        /\ rPc'[u] \in {"test", "poll", "handle"} => rPc[u] \in {"test", "poll", "handle"}
        /\ rPc'[u] \in {"last", "postLast"} => u = NumThreads - 1
    BY <1>3 DEF ReceiverTest, DrainOver, LeaveBarrier, BuildLast, Handled, TypeOK, StopPosted,
                Connection, Places, Handling
  <2>2. Window(u)'
    BY <2>1 DEF Connection, Window
  <2>3. Flow(u)'
    BY <1>a, <2>1 DEF Connection, Flow, InSend
  <2> QED
    BY <2>1, <2>2, <2>3 DEF Connection, Places
<1>4. CASE u = t /\ (Poll(t) \/ DrainPoll(t))
  <2>1. /\ UNCHANGED <<scnt[u], rq[u], sq[u]>> /\ wc'[u] = cq[u] /\ cq'[u] = <<>>
        /\ wc[u] = <<>> /\ rPc[u] \in {"poll", "drain"}
        /\ rPc'[u] = IF rPc[u] = "poll" THEN "handle" ELSE "drainHandle"
    BY <1>4 DEF Poll, DrainPoll, TakeCompletions, TypeOK, Connection, Places, Handling
  <2>2. ~StopPosted(u) /\ ~StopPosted(u)' /\ Handling(u)'
    BY <2>1 DEF StopPosted, Handling
  <2>3. InSend(u)' = InSend(u) /\ CountOf("send", wc[u])' <= InSend(u) /\ InSend(u) \in Nat
    BY <1>e, <1>t, <2>1 DEF InSend
  <2>4. CountOf("send", wc[u])' \in Nat
    BY <1>t, <2>1
  <2>5. Flow(u)'
    BY <1>a, <1>t, <2>1, <2>2, <2>3, <2>4 DEF Connection, Flow
  <2>6. Window(u)'
    BY <1>e, <1>t, <2>1 DEF Connection, Window
  <2> QED
    BY <2>1, <2>2, <2>5, <2>6 DEF Connection, Places
<1>5. CASE u = t /\ SendCompletion(t)
  <2>1. /\ wc[u] # <<>> /\ Head(wc[u]).op = "send" /\ wc'[u] = Tail(wc[u])
        /\ scnt'[u] = scnt[u] + 1 /\ Handling(u) /\ UNCHANGED <<rPc[u], rq[u], sq[u], cq[u]>>
    BY <1>5 DEF SendCompletion, TypeOK, Handling
  <2>2. Tail(wc[u]) \in Seq(Completion)
    BY <1>t, <2>1
  <2>3. /\ CountOf("send", wc[u]) = CountOf("send", wc[u])' + 1
        /\ CountOf("recv", wc[u]) = CountOf("recv", wc[u])'
        /\ CountOf("send", wc[u])' \in Nat
        /\ CountOf("recv", wc[u])' \in Nat
    <3>1. /\ CountOf("send", Tail(wc[u])) \in Nat /\ CountOf("recv", Tail(wc[u])) \in Nat
          /\ CountOf("send", wc[u]) = CountOf("send", Tail(wc[u])) + 1
          /\ CountOf("recv", wc[u]) = CountOf("recv", Tail(wc[u])) + 0
      BY <1>t, <2>1, <2>2, CountTail, CountType
    <3> QED
      BY <2>1, <3>1
  <2>n. PICK n \in Nat : n = CountOf("send", wc[u])'
    BY <2>3
  <2>4. InSend(u)' + 1 = InSend(u) /\ InSend(u)' \in Nat
    <3>1. /\ InSend(u)' = Len(sq[u]) + CountOf("send", cq[u]) + n
          /\ InSend(u) = Len(sq[u]) + CountOf("send", cq[u]) + (n + 1)
      BY <2>1, <2>3, <2>n DEF InSend
    <3>2. /\ Len(sq[u]) + CountOf("send", cq[u]) + (n + 1)
               = Len(sq[u]) + CountOf("send", cq[u]) + n + 1
          /\ Len(sq[u]) + CountOf("send", cq[u]) + n \in Nat
      <4>1. PICK a \in Nat, b \in Nat : a = Len(sq[u]) /\ b = CountOf("send", cq[u])
        BY <1>t
      <4>2. a + b + (n + 1) = a + b + n + 1 /\ a + b + n \in Nat
        BY Regroup
      <4> QED
        BY <4>1, <4>2
    <3> QED
      BY <3>1, <3>2, Zenon
  <2>5. StopPosted(u)' <=> StopPosted(u)
    BY <2>1 DEF StopPosted
  <2>6. Flow(u)'
    <3>1. /\ scnt[u] + (n + 1) <= sentCount[u] + Pending(u)
          /\ ~StopPosted(u) => InSend(u)' + 1 + scnt[u] <= sentCount[u] + Pending(u)
          /\ sPc[u] \in {"build", "post"} => sentCount[u] - scnt[u] < RxDepth
      BY <2>3, <2>4, <2>n DEF Connection, Flow
    <3>2. /\ (scnt[u] + 1) + n <= sentCount[u] + Pending(u)
          /\ ~StopPosted(u) => InSend(u)' + (scnt[u] + 1) <= sentCount[u] + Pending(u)
          /\ sPc[u] \in {"build", "post"} => sentCount[u] - (scnt[u] + 1) < RxDepth
      BY <1>a, <1>t, <2>4, <2>n, <3>1, OneMoreCounted
    <3> QED
      BY <1>a, <2>1, <2>5, <2>n, <3>2 DEF Flow
  <2>7. Window(u)' /\ Handling(u)'
    BY <2>1, <2>3 DEF Connection, Window, Handling
  <2> QED
    BY <2>1, <2>6, <2>7 DEF Connection, Places
<1>6. CASE u = t /\ RecvCompletion(t)
  <2>1. /\ wc[u] # <<>> /\ Head(wc[u]).op = "recv" /\ wc'[u] = Tail(wc[u])
        /\ rq'[u] = (IF rPc[u] = "handle" THEN rq[u] + 1 ELSE rq[u])
        /\ Handling(u) /\ UNCHANGED <<rPc[u], scnt[u], sq[u], cq[u]>>
    BY <1>6 DEF RecvCompletion, Reposts, TypeOK, Handling
  <2>2. Tail(wc[u]) \in Seq(Completion)
    BY <1>t, <2>1
  <2>3. /\ CountOf("recv", wc[u]) = CountOf("recv", wc[u])' + 1
        /\ CountOf("send", wc[u]) = CountOf("send", wc[u])'
        /\ CountOf("recv", wc[u])' \in Nat
    <3>1. /\ CountOf("send", Tail(wc[u])) \in Nat /\ CountOf("recv", Tail(wc[u])) \in Nat
          /\ CountOf("recv", wc[u]) = CountOf("recv", Tail(wc[u])) + 1
          /\ CountOf("send", wc[u]) = CountOf("send", Tail(wc[u])) + 0
      BY <1>t, <2>1, <2>2, CountTail, CountType
    <3> QED
      BY <2>1, <3>1
  <2>4. Flow(u)'
    BY <1>a, <2>1, <2>3 DEF Connection, Flow, InSend, StopPosted
  <2>5. Window(u)' /\ Handling(u)'
    <3>n. PICK n \in Nat : n = CountOf("recv", wc[u])'
      BY <2>3
    <3>1. rPc[u] = "handle" => rq[u] + CountOf("recv", cq[u]) + (n + 1) = WindowSize
      BY <2>3, <3>n DEF Connection, Window
    <3>2. rPc[u] = "handle" => (rq[u] + 1) + CountOf("recv", cq[u]) + n = WindowSize
      <4>1. rq[u] + CountOf("recv", cq[u]) + (n + 1) = (rq[u] + 1) + CountOf("recv", cq[u]) + n
        <5>1. PICK a \in Nat, b \in Nat : a = rq[u] /\ b = CountOf("recv", cq[u])
          BY <1>t
        <5>2. a + b + (n + 1) = (a + 1) + b + n
          BY Regroup
        <5> QED
          BY <5>1, <5>2
      <4> QED
        BY <3>1, <4>1, Zenon
    <3> QED
      BY <2>1, <3>2, <3>n DEF Window, Handling
  <2> QED
    BY <2>1, <2>4, <2>5 DEF Connection, Places
<1>7. CASE u = t /\ (PostLast(t) \/ CloseCtx(t))
  <2>1. /\ UNCHANGED <<wc[u], scnt[u]>> /\ wc[u] = <<>>
        /\ rPc'[u] \in {"close", "done"}
        /\ u = NumThreads - 1 \/ (sq'[u] = <<>> /\ cq'[u] = <<>>)
    BY <1>7 DEF PostLast, CloseCtx, TypeOK, Connection, Places, Handling
  <2>2. Window(u)' /\ Places(u)'
    BY <2>1 DEF Window, Places
  <2>3. CASE u = NumThreads - 1
    <3>1. StopPosted(u)'
      BY <2>1, <2>3 DEF StopPosted
    <3>2. Flow(u)'
      BY <1>a, <2>1, <3>1 DEF Connection, Flow
    <3> QED
      BY <2>2, <3>2 DEF Connection
  <2>4. CASE sq'[u] = <<>> /\ cq'[u] = <<>>
    <3>1. InSend(u)' = 0
      BY <1>e, <2>1, <2>4 DEF InSend
    <3>2. scnt[u] <= sentCount[u] + Pending(u)
      BY <1>e, <1>t, <2>1 DEF Connection, Flow
    <3>3. Flow(u)'
      BY <1>a, <1>t, <2>1, <3>1, <3>2 DEF Connection, Flow
    <3> QED
      BY <2>2, <3>3 DEF Connection
  <2> QED
    BY <2>1, <2>3, <2>4
<1> QED
  BY <1>1, <1>2, <1>3, <1>4, <1>5, <1>6, <1>7 DEF Receiver

LEMMA ConnectionNicSend ==
  ASSUME TypeOK, NEW u \in Threads, Connection(u), NicSend(u),
         UNCHANGED <<senderVars, receiverVars>>
  PROVE  Connection(u)'
<1> DEFINE c == [op |-> "send", prio |-> Head(sq[u]).prio]
<1>1. UNCHANGED <<sPc[u], sentCount[u], rPc[u], wc[u], scnt[u], rq[u]>>
  BY DEF senderVars, receiverVars, NicSend
<1>2. sq'[u] = Tail(sq[u]) /\ cq'[u] = Append(cq[u], c) /\ sq[u] # <<>>
  BY DEF NicSend, TypeOK
<1>3. cq[u] \in Seq(Completion) /\ sq[u] \in Seq(Message) /\ c \in Completion
  BY ConnectionTypes, NicSendParts
<1>4. PICK l \in Nat, k \in Nat, w \in Nat :
         l + 1 = Len(sq[u]) /\ k = CountOf("send", cq[u]) /\ w = CountOf("send", wc[u])
  <2>1. Len(sq[u]) - 1 \in Nat /\ (Len(sq[u]) - 1) + 1 = Len(sq[u])
    BY <1>2, <1>3
  <2> QED
    BY <2>1, ConnectionTypes
<1>5. Len(sq'[u]) = l
  BY <1>2, <1>3, <1>4
<1>6. CountOf("send", cq'[u]) = k + 1 /\ CountOf("recv", cq'[u]) = CountOf("recv", cq[u])
  <2>1. c.op = "send"
    OBVIOUS
  <2>2. CountOf("send", Append(cq[u], c)) = CountOf("send", cq[u]) + 1
    BY <1>3, <2>1, CountAppend
  <2>3. CountOf("recv", Append(cq[u], c)) = CountOf("recv", cq[u]) + 0
    BY <1>3, <2>1, CountAppend
  <2>4. CountOf("recv", cq[u]) \in Nat
    BY ConnectionTypes
  <2> QED
    BY <1>2, <1>4, <2>2, <2>3, <2>4
<1>7. InSend(u)' = InSend(u)
  <2>1. InSend(u) = (l + 1) + k + w /\ InSend(u)' = l + (k + 1) + w
    BY <1>1, <1>4, <1>5, <1>6 DEF InSend
  <2>2. (l + 1) + k + w = l + (k + 1) + w
    OBVIOUS
  <2> QED
    BY <2>1, <2>2
<1>8. Flow(u)'
  BY <1>1, <1>7 DEF Connection, Flow, StopPosted, Pending
<1>9. Window(u)' /\ Places(u)'
  BY <1>1, <1>6 DEF Connection, Window, Places, Handling
<1> QED
  BY <1>8, <1>9 DEF Connection

LEMMA ConnectionAnswer ==
  ASSUME TypeOK, NEW u \in Threads, Connection(u), NEW m \in InNet, m.src = u, Answer(m),
         UNCHANGED <<senderVars, receiverVars>>, rq[u] > 0
  PROVE  Connection(u)'
<1> DEFINE c == [op |-> "recv", prio |-> m.msg.prio]
<1>1. UNCHANGED <<sPc[u], sentCount[u], rPc[u], wc[u], scnt[u], sq[u]>>
  BY DEF senderVars, receiverVars, Answer
<1>2. rq'[u] = rq[u] - 1 /\ cq'[u] = Append(cq[u], c)
  BY DEF Answer, TypeOK
<1>3. cq[u] \in Seq(Completion) /\ c \in Completion
  BY ConnectionTypes, AnswerParts
<1>4. PICK r \in Nat, k \in Nat, w \in Nat :
         r + 1 = rq[u] /\ k = CountOf("recv", cq[u]) /\ w = CountOf("recv", wc[u])
  <2>1. rq[u] - 1 \in Nat /\ (rq[u] - 1) + 1 = rq[u]
    BY ConnectionTypes
  <2> QED
    BY <2>1, ConnectionTypes
<1>5. rq'[u] = r
  BY SMTT(30), <1>2, <1>4
<1>6. CountOf("recv", cq'[u]) = k + 1 /\ CountOf("send", cq'[u]) = CountOf("send", cq[u])
  <2>1. c.op = "recv"
    OBVIOUS
  <2>2. CountOf("recv", Append(cq[u], c)) = CountOf("recv", cq[u]) + 1
    BY <1>3, <2>1, CountAppend
  <2>3. CountOf("send", Append(cq[u], c)) = CountOf("send", cq[u]) + 0
    BY <1>3, <2>1, CountAppend
  <2>4. CountOf("send", cq[u]) \in Nat
    BY ConnectionTypes
  <2> QED
    BY <1>2, <1>4, <2>2, <2>3, <2>4
<1>7. Flow(u)'
  BY <1>1, <1>6 DEF Connection, Flow, InSend, StopPosted, Pending
<1>8. Window(u)'
  <2>1. rPc[u] # "init"
    <3>1. rq[u] # 0
      BY <1>4
    <3> QED
      BY <3>1 DEF Connection, Window
  <2>2. (r + 1) + k + w = r + (k + 1) + w
    OBVIOUS
  <2>3. rPc[u] \in {"test", "poll", "handle"} => (r + 1) + k + w = WindowSize
    BY <1>4 DEF Connection, Window
  <2> QED
    BY <1>1, <1>4, <1>5, <1>6, <2>1, <2>2, <2>3 DEF Window
<1>9. Places(u)'
  BY <1>1 DEF Connection, Places, Handling
<1> QED
  BY <1>7, <1>8, <1>9 DEF Connection

LEMMA ConnectionNetwork ==
  ASSUME TypeOK, NEW u \in Threads, Connection(u), Network
  PROVE  Connection(u)'
<1>0. UNCHANGED <<senderVars, receiverVars>>
  BY DEF Network
<1>a. UNCHANGED <<rq[u], sq[u], cq[u]>> => Connection(u)'
  BY <1>0, ConnectionKept DEF conn, senderVars, receiverVars
<1>1. ASSUME NEW t \in Threads, NicSend(t) PROVE Connection(u)'
  <2>1. CASE t = u
    BY <1>0, <1>1, <2>1, ConnectionNicSend
  <2>2. CASE t # u
    BY <1>1, <1>a, <2>2 DEF NicSend, TypeOK
  <2> QED
    BY <2>1, <2>2
<1>2. ASSUME NEW m \in InNet, Answer(m) PROVE Connection(u)'
  <2>1. CASE m.src = u /\ rq[u] > 0
    BY <1>0, <1>2, <2>1, ConnectionAnswer
  <2>2. CASE m.src # u \/ ~(rq[m.src] > 0)
    <3>1. m.src \in Threads
      BY AnswerParts
    <3> QED
      BY <1>2, <1>a, <2>2, <3>1 DEF Answer, TypeOK
  <2> QED
    BY <2>1, <2>2
<1>3. ASSUME NEW m \in InNet, Lose(m) PROVE Connection(u)'
  BY <1>3, <1>a DEF Lose, qpVars
<1> QED
  BY <1>1, <1>2, <1>3 DEF Network

LEMMA ClientInvInit == Init => ClientInv
  BY TypeInit, ConnectionInit DEF ClientInv

LEMMA ClientInvNext == ClientInv /\ [Next]_vars => ClientInv'
<1> SUFFICES ASSUME ClientInv, [Next]_vars PROVE ClientInv'
  OBVIOUS
<1>0. TypeOK /\ TypeOK'
  BY TypeNext DEF ClientInv
<1> SUFFICES ASSUME NEW u \in Threads PROVE Connection(u)'
  BY <1>0 DEF ClientInv, Threads
<1>c. Connection(u)
  BY DEF ClientInv
<1>1. CASE Main \/ UNCHANGED vars
  <2>1. UNCHANGED conn(u)
    BY <1>1 DEF Main, vars, senderVars, receiverVars, qpVars, conn
  <2> QED
    BY <1>c, <2>1, ConnectionKept
<1>2. ASSUME NEW t \in Threads, Sender(t) PROVE Connection(u)'
  BY <1>0, <1>c, <1>2, ConnectionSender
<1>3. ASSUME NEW t \in Threads, Receiver(t) PROVE Connection(u)'
  BY <1>0, <1>c, <1>3, ConnectionReceiver
<1>4. CASE Network
  BY <1>0, <1>c, <1>4, ConnectionNetwork
<1> QED
  BY <1>1, <1>2, <1>3, <1>4 DEF Next, AtRest

LEMMA ClientInvGuard == ClientInv => GuardSound
<1> SUFFICES ASSUME ClientInv, NEW t \in Threads
             PROVE  /\ sPc[t] = "loop" => scnt[t] <= sentCount[t]
                    /\ (sPc[t] = "post" /\ ~StopPosted(t)) => SlotsUsed(t) < RxDepth
  BY DEF GuardSound
<1>1. PICK l \in Nat, k \in Nat, w \in Nat, x \in Nat, s \in Nat :
         /\ l = Len(sq[t]) /\ k = CountOf("send", cq[t]) /\ w = CountOf("send", wc[t])
         /\ x = scnt[t] /\ s = sentCount[t]
  BY ConnectionTypes DEF ClientInv
<1>2. sPc[t] \in {"loop", "post"} =>
        x + w <= s + 0 /\ (~StopPosted(t) => l + k + w + x <= s + 0)
  BY <1>1 DEF ClientInv, Connection, Flow, InSend, Pending
<1>3. sPc[t] = "post" => s - x < RxDepth
  BY <1>1 DEF ClientInv, Connection, Flow
<1>4. SlotsUsed(t) = l + k
  BY <1>1 DEF SlotsUsed
<1>5. sPc[t] = "loop" => x <= s
  BY <1>2
<1>6. (sPc[t] = "post" /\ ~StopPosted(t)) => l + k < RxDepth
  BY <1>2, <1>3, Constants
<1> QED
  BY <1>1, <1>4, <1>5, <1>6

LEMMA ClientInvWindow == ClientInv => ReceivesPosted
  BY DEF ClientInv, Connection, Window, ReceivesPosted

\* The sender's test sentCount - scnt >= rx_depth, made on two counters that trail the
\* events they count, never sees the unsigned difference wrap and never lets a request
\* through that finds the send queue full, for every number of threads, window and depth.
THEOREM GuardCorrect == Spec => []GuardSound
<1>1. Spec => []ClientInv
  BY ClientInvInit, ClientInvNext, PTL DEF Spec
<1> QED
  BY <1>1, ClientInvGuard, PTL

\* While the load lasts the window_size receives of every connection are all posted or
\* waiting as completions: the receiver's repost never loses one.
THEOREM WindowKept == Spec => []ReceivesPosted
<1>1. Spec => []ClientInv
  BY ClientInvInit, ClientInvNext, PTL DEF Spec
<1> QED
  BY <1>1, ClientInvWindow, PTL

-----------------------------------------------------------------------------
(* The phases of the run. *)

\* Measured requests come from senders in their second loop, and nobody reaches it before
\* every sender has left the first and main has passed the barrier once.
MeasuredByLoad == \A t \in Threads, p \in Priorities : sends[t][p] > 0 => loop[t] = "load"

Separated == (\E t \in Threads : loop[t] = "load") => SendersWarm /\ main \notin {"init", "barrier"}

\* The last receiver gets past the barrier only when every receiver is there, and from
\* there nobody goes back to handling completions.
DrainedFirst == rPc[NumThreads - 1] \in {"last", "postLast", "close", "done"} => Drained

PhaseInv == TypeOK /\ MeasuredByLoad /\ Separated /\ DrainedFirst

LEMMA PhaseInit == Init => PhaseInv
<1> SUFFICES ASSUME Init PROVE PhaseInv
  OBVIOUS
<1>1. NumThreads - 1 \in Threads
  BY ClientAssumption DEF Threads
<1>2. MeasuredByLoad /\ Separated /\ DrainedFirst
  BY <1>1 DEF Init, MeasuredByLoad, Separated, DrainedFirst
<1> QED
  BY <1>2, TypeInit DEF PhaseInv

LEMMA PhaseSender ==
  ASSUME TypeOK, MeasuredByLoad, Separated, NEW t \in Threads, Sender(t)
  PROVE  MeasuredByLoad' /\ Separated'
<1>0. /\ sPc \in [Threads -> {"init", "barrier", "loop", "build", "post", "count", "warm", "stuck",
                            "done"}]
      /\ loop \in [Threads -> {"warmUp", "load"}] /\ sends \in [Threads -> [Priorities -> Nat]]
      /\ main' = main
  BY DEF TypeOK, Sender, mainVars
<1>1. CASE StartLoad(t)
  <2>1. /\ sends' = sends /\ loop' = [loop EXCEPT ![t] = "load"] /\ SendersWarm
        /\ sPc' = [sPc EXCEPT ![t] = "loop"] /\ main \notin {"init", "barrier"}
    BY <1>1 DEF StartLoad, SenderGoto
  <2>2. MeasuredByLoad'
    BY <1>0, <2>1 DEF MeasuredByLoad
  <2>3. SendersWarm'
    BY <1>0, <2>1 DEF SendersWarm
  <2> QED
    BY <1>0, <2>1, <2>2, <2>3 DEF Separated
<1>2. ASSUME ~StartLoad(t)
      PROVE  /\ loop' = loop
             /\ sPc' = sPc \/ \E l : sPc' = [sPc EXCEPT ![t] = l] /\ (sPc[t] # "warm" \/ loop[t] = "load")
  BY <1>2 DEF Sender, SenderArrives, StartWarmUp, WarmUpOver, SenderLeaves, SpinForever,
              EnterLoop, BuildRequest, Post, PostCrashes, CountSend, SenderGoto, senderVars
<1>3. CASE ~StartLoad(t)
  <2>1. SendersWarm => SendersWarm'
    <3>1. ASSUME SendersWarm, NEW u \in Threads
          PROVE  sPc'[u] = "warm" \/ loop'[u] = "load"
      BY <1>0, <1>2, <1>3, <3>1 DEF SendersWarm
    <3> QED
      BY <3>1 DEF SendersWarm
  <2>2. Separated'
    BY <1>0, <1>2, <1>3, <2>1 DEF Separated
  <2>3. sends' = sends \/ \E p \in Priorities : loop[t] = "load" /\ sends' = [sends EXCEPT ![t][p] = @ + 1]
    BY <1>3 DEF Sender, SenderArrives, StartWarmUp, WarmUpOver, SenderLeaves, SpinForever,
                EnterLoop, BuildRequest, Post, PostCrashes, CountSend, senderVars
  <2>4. \A u \in Threads : sends'[u] = sends[u] \/ loop[u] = "load"
    BY <1>0, <2>3
  <2>5. MeasuredByLoad'
    BY <1>2, <1>3, <2>4 DEF MeasuredByLoad
  <2> QED
    BY <2>2, <2>5
<1> QED
  BY <1>1, <1>3

LEMMA PhaseReceiver ==
  ASSUME TypeOK, DrainedFirst, NEW t \in Threads, Receiver(t)
  PROVE  DrainedFirst' /\ (Drained => receives' = receives)
<1> DEFINE Past == {"barrier", "last", "postLast", "close", "done"}
<1>0. /\ NumThreads - 1 \in Threads /\ DOMAIN rPc = Threads
      /\ rPc = [u \in Threads |-> rPc[u]]
  BY ClientAssumption DEF Threads, TypeOK
<1>1. PICK l : rPc' = [rPc EXCEPT ![t] = l] /\ (rPc[t] \in Past => l \in Past)
  <2>1. rPc' = rPc => rPc' = [rPc EXCEPT ![t] = rPc[t]]
    <3>1. [rPc EXCEPT ![t] = rPc[t]] = [u \in Threads |-> rPc[u]]
      BY <1>0
    <3> QED
      BY <1>0, <3>1
  <2> QED
    BY <2>1 DEF Receiver, PostInitialRecvs, ReceiverTest, Poll, SendCompletion, RecvCompletion,
           Handled, DrainPoll, DrainOver, LeaveBarrier, BuildLast, PostLast, CloseCtx,
           ReceiverGoto
<1>2. Drained => Drained'
  <2>1. Drained <=> \A u \in Threads : rPc[u] \in Past
    BY DEF Drained
  <2>2. Drained' <=> \A u \in Threads : rPc'[u] \in Past
    BY DEF Drained
  <2> QED
    BY <1>0, <1>1, <2>1, <2>2
<1>3. Drained => receives' = receives
  BY DEF Drained, Receiver, PostInitialRecvs, ReceiverTest, Poll, SendCompletion, RecvCompletion,
         Handled, DrainPoll, DrainOver, LeaveBarrier, BuildLast, PostLast, CloseCtx
<1>4. ASSUME rPc'[NumThreads - 1] \in {"last", "postLast", "close", "done"}
      PROVE  Drained
  <2>1. CASE rPc[NumThreads - 1] \in {"last", "postLast", "close", "done"}
    BY <2>1 DEF DrainedFirst
  <2>2. CASE rPc[NumThreads - 1] \notin {"last", "postLast", "close", "done"}
    <3>1. t = NumThreads - 1
      BY <1>0, <1>1, <1>4, <2>2
    <3>2. rPc'[t] \in {"last", "postLast", "close", "done"} /\ rPc[t] \notin {"last", "postLast", "close", "done"}
      BY <1>4, <2>2, <3>1
    <3>3. LeaveBarrier(t)
      BY <1>0, <3>2 DEF Receiver, PostInitialRecvs, ReceiverTest, Poll, SendCompletion,
           RecvCompletion, Handled, DrainPoll, DrainOver, BuildLast, PostLast, CloseCtx, ReceiverGoto
    <3> QED
      BY <3>3 DEF LeaveBarrier
  <2> QED
    BY <2>1, <2>2
<1> QED
  BY <1>2, <1>3, <1>4 DEF DrainedFirst

LEMMA PhaseStep ==
  ASSUME PhaseInv, [Next]_vars
  PROVE  PhaseInv' /\ (Drained => receives' = receives)
<1>0. TypeOK /\ MeasuredByLoad /\ Separated /\ DrainedFirst /\ TypeOK'
  BY TypeNext DEF PhaseInv
<1>1. ASSUME UNCHANGED <<loop, sPc, sends>>, main' = main \/ main' \notin {"init", "barrier"}
      PROVE  MeasuredByLoad' /\ Separated'
  BY <1>0, <1>1 DEF MeasuredByLoad, Separated, SendersWarm
<1>2. ASSUME UNCHANGED <<rPc, receives>>
      PROVE  DrainedFirst' /\ (Drained => receives' = receives)
  BY <1>0, <1>2 DEF DrainedFirst, Drained
<1>3. CASE Main
  <2>1. UNCHANGED <<loop, sPc, sends, rPc, receives>>
    BY <1>3 DEF Main, senderVars, receiverVars
  <2>2. main = "init" \/ main' \notin {"init", "barrier"}
    BY <1>3 DEF Main, MainArrives, MainSleeps, WarmUpDone, TerminateLoad, Report
  <2>3. CASE main = "init"
    <3>1. \A t \in Threads : loop[t] # "load"
      BY <1>0, <2>3 DEF Separated
    <3> QED
      BY <1>0, <1>2, <2>1, <3>1 DEF MeasuredByLoad, Separated, PhaseInv
  <2> QED
    BY <1>0, <1>1, <1>2, <2>1, <2>2, <2>3 DEF PhaseInv
<1>4. ASSUME NEW t \in Threads, Sender(t)
      PROVE  PhaseInv' /\ (Drained => receives' = receives)
  <2>1. UNCHANGED <<rPc, receives>>
    BY <1>4 DEF Sender, receiverVars
  <2> QED
    BY <1>0, <1>2, <1>4, <2>1, PhaseSender DEF PhaseInv
<1>5. ASSUME NEW t \in Threads, Receiver(t)
      PROVE  PhaseInv' /\ (Drained => receives' = receives)
  <2>1. UNCHANGED <<loop, sPc, sends, main>>
    BY <1>5 DEF Receiver, senderVars, mainVars
  <2> QED
    BY <1>0, <1>1, <1>5, <2>1, PhaseReceiver DEF PhaseInv
<1>6. CASE Network \/ UNCHANGED vars
  <2>1. UNCHANGED <<loop, sPc, sends, main, rPc, receives>>
    BY <1>6 DEF Network, vars, senderVars, mainVars, receiverVars
  <2> QED
    BY <1>0, <1>1, <1>2, <2>1 DEF PhaseInv
<1> QED
  BY <1>3, <1>4, <1>5, <1>6 DEF Next, AtRest

LEMMA PhaseAlways == Spec => []PhaseInv
<1>1. PhaseInv /\ [Next]_vars => PhaseInv'
  BY PhaseStep
<1> QED
  BY <1>1, PhaseInit, PTL DEF Spec

\* The two phases are apart, for every number of threads: once one sender has counted a
\* measured request, none builds or posts warm-up requests any more and main has slept.
THEOREM WarmUpCorrect == Spec => []WarmUpSeparate
<1>1. PhaseInv => WarmUpSeparate
  BY DEF PhaseInv, MeasuredByLoad, Separated, SendersWarm, WarmUpSeparate
<1> QED
  BY <1>1, PhaseAlways, PTL

\* From the moment the last receiver leaves the barrier no receiver counts a response:
\* what main compares with the sends does not change while the server is being stopped.
THEOREM ReceivesFinal == Spec => CountsFinal
<1> DEFINE Leaving == rPc[NumThreads - 1] \in {"last", "postLast", "close", "done"}
<1>1. PhaseInv /\ [Next]_vars => [Leaving => receives' = receives]_vars
  BY PhaseStep DEF PhaseInv, DrainedFirst
<1> QED
  BY <1>1, PhaseAlways, PTL DEF Spec, CountsFinal

=============================================================================
