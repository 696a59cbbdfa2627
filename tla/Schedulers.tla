----------------------------- MODULE Schedulers -----------------------------
(***************************************************************************)
(* The scheduling policies of ud_pingpong_server_reorder_fast.cc, which a  *)
(* macro selects at compile time, seen from one server thread:             *)
(*                                                                         *)
(*   STRICT_PRIORITY, ROUND_ROBIN, WEIGHTED_ROUND_ROBIN: poll everything,  *)
(*     file the requests in metaCQ, serve one of them;                     *)
(*   PROCESS_IN_ORDER: poll one completion, serve through a ring;          *)
(*   RR_POLL, STRICT_POLL, NO_PRIORITY: poll one completion of one         *)
(*     connection and serve it; the policy is the choice of connection.    *)
(*                                                                         *)
(* The loop around the policy (payload, response, signaled sends, the      *)
(* terminate packet) is in ReorderServer; here a connection is the set of  *)
(* receives posted on it and the completions that wait.  Completed sends   *)
(* are shown under RR_POLL, where polling one uses up the connection's     *)
(* turn; they change no variable of the other policies.  The source does   *)
(* not compile with PROCESS_IN_ORDER and a priority policy together (their *)
(* braces do not match), so the two are never combined.                    *)
(***************************************************************************)
EXTENDS Integers, Sequences, SequencesExt

CONSTANTS
  NumQueues,      \* NUM_QUEUES
  NumThreads,     \* NUM_THREADS
  BuffersPerQ,    \* recv_bufs_num: receives of a connection, and slots of the ring
  NumPriorities,  \* numberOfPriorities
  Levels,         \* 10: the largest weight and the number of weight levels
  CounterRange,   \* 2^8: checkCnt is a uint8_t
  PollBacklog     \* bound: requests waiting on a connection under a poll policy

ASSUME SchedulersAssumption ==
  /\ {NumQueues, NumThreads, BuffersPerQ, NumPriorities} \subseteq Nat \ {0}
  /\ {Levels, CounterRange, PollBacklog} \subseteq Nat \ {0}
  /\ NumThreads <= NumQueues
  /\ Levels < CounterRange
  /\ Levels < 65536              \* queueWeights are uint16_t

VARIABLES
  policy, scaleout, thread,   \* the build (macros) and the thread's number
  aligned,    \* the ring's uninitialised indices happen to start equal
  posted,     \* receives posted on the connections
  cq,         \* cq[q]: completions of connection q that wait
  pc,         \* "poll", "process", "serve", or "failed" (assertion, wild access)
  cur,        \* the request being served, or None
  offset,     \* index of the connection to poll
  metaCQ, skipList,           \* requests by priority; priorities in use
  iter, iterPrev, priority,   \* skipListIter, skipListIterPrev, priority
  checkCnt,                   \* requests served from the current priority
  ring, head, tail, size,     \* inOrderArrivals
  passed      \* history: passed[p] requests were served since p waits

config == <<policy, scaleout, thread, aligned>>
prioVars == <<metaCQ, skipList, iter, iterPrev, priority, checkCnt, passed>>
ringVars == <<ring, head, tail, size>>
vars == <<config, posted, cq, pc, cur, offset, prioVars, ringVars>>

-----------------------------------------------------------------------------
Queues == 0 .. NumQueues - 1
Buffers == 0 .. NumQueues * BuffersPerQ - 1
Owner(b) == b \div BuffersPerQ
Priorities == 0 .. NumPriorities - 1
None == -1
Request == [buf : Buffers, prio : Priorities]
Sent == [buf |-> None, prio |-> None]   \* the completion of a signaled send

ByPriority == {"strict", "rr", "wrr"}
ByPoll == {"rr_poll", "strict_poll", "no_priority"}

First(S) == CHOOSE p \in S : \A x \in S : p <= x
IsLast(p, S) == \A x \in S : x <= p

\* queueWeights[p]: Levels for the most urgent ones, one less every
\* numberOfPriorities/Levels priorities (uint16_t).  With more than Levels+1 steps in
\* numberOfPriorities the weights fall below zero: -n 48 gives 10 to 1, 0 and 65535.
QueueWeight(p) == (Levels - p \div (NumPriorities \div Levels)) % 65536

Init ==
  /\ policy \in ByPriority \cup ByPoll \cup {"inorder"}
  \* With fewer priorities the weights are divided by zero before the first poll.
  /\ policy = "wrr" => NumPriorities >= Levels
  /\ scaleout \in BOOLEAN /\ (scaleout => policy = "strict_poll")
  \* Otherwise the number of a thread only says which connection it polls first.
  /\ thread \in 0 .. NumThreads - 1 /\ (~scaleout => thread = 0)
  /\ posted = Buffers
  /\ cq = [q \in Queues |-> <<>>]
  /\ pc = "poll"
  /\ cur = None
  /\ offset = thread % NumQueues
  /\ metaCQ = [p \in Priorities |-> <<>>]
  /\ skipList = {}
  /\ iter = None /\ iterPrev = None /\ priority = None
  /\ checkCnt = 0
  /\ passed = [p \in Priorities |-> 0]
  /\ ring = [i \in 0 .. BuffersPerQ - 1 |-> None]
  \* head and tail are never initialised: any values the stack holds.  Values beyond
  \* the ring, which make the first write land outside it, are not enumerated.
  /\ head \in 0 .. BuffersPerQ - 1
  /\ tail \in 0 .. BuffersPerQ - 1
  /\ policy # "inorder" => head = 0 /\ tail = 0
  /\ aligned = (head = tail)
  /\ size = 0

-----------------------------------------------------------------------------
(* The connections. *)

IsRequest(c) == c # Sent
Backlog(q) == Len(SelectSeq(cq[q], IsRequest))

\* A packet completes a posted receive; which one makes no difference to a policy.
Arrive(b, p) ==
  /\ b \in posted
  /\ \A x \in posted : Owner(x) = Owner(b) => b <= x
  /\ IF policy \in ByPoll THEN p = 0 /\ Backlog(Owner(b)) < PollBacklog
                          ELSE Owner(b) = offset /\ (policy = "inorder" => p = 0)
  /\ posted' = posted \ {b}
  /\ cq' = [cq EXCEPT ![Owner(b)] = Append(@, [buf |-> b, prio |-> p])]
  /\ UNCHANGED <<config, pc, cur, offset, prioVars, ringVars>>

-----------------------------------------------------------------------------
(* Polling. *)

\* metaCQ[priority].push_back for every polled request, in the order of the poll.
Filed(lists, s) ==
  LET after[i \in 0 .. Len(s)] ==
        IF i = 0 THEN lists
                 ELSE [after[i - 1] EXCEPT ![s[i].prio] = Append(@, s[i].buf)]
  IN  after[Len(s)]

\* ibv_poll_cq(cq, num_bufs*2, wc), then every request is filed; with nothing filed
\* the loop starts again.
PollAll ==
  /\ policy \in ByPriority
  /\ pc = "poll"
  /\ metaCQ' = Filed(metaCQ, cq[offset])
  /\ skipList' = skipList \cup {c.prio : c \in ToSet(cq[offset])}
  /\ cq' = [cq EXCEPT ![offset] = <<>>]
  /\ pc' = IF skipList' = {} THEN "poll" ELSE "process"
  /\ UNCHANGED <<config, posted, cur, offset, iter, iterPrev, priority, checkCnt,
                 passed, ringVars>>

\* Mutation: the last connection is skipped.
RoundUpShort(o) == IF o >= NumQueues - 2 THEN 0 ELSE o + 1

\* The next connection: if(offset == NUM_QUEUES-1) offset = 0; else offset++
RoundUp(o) == IF o = NumQueues - 1 THEN 0 ELSE o + 1

\* Mutation: the connections of the last row are left out.
NextOwnQueueShort(o) ==
  IF o > NumThreads * ((NumQueues \div NumThreads) - 2) - 1
  THEN thread ELSE o + NumThreads

\* SCALEOUT: the connections thread_num, thread_num+NUM_THREADS, ...
NextOwnQueue(o) ==
  IF o > NumThreads * ((NumQueues \div NumThreads) - 1) - 1
  THEN thread ELSE o + NumThreads

\* The connection polled after an empty poll.
AfterEmpty ==
  CASE policy = "rr_poll" -> RoundUp(offset)
    [] policy = "strict_poll" -> IF scaleout THEN NextOwnQueue(offset) ELSE RoundUp(offset)
    [] OTHER -> offset

\* The connection polled after a request: STRICT_POLL starts over.
AfterRequest ==
  CASE policy = "rr_poll" -> RoundUp(offset)
    [] policy = "strict_poll" -> IF scaleout THEN thread ELSE 0
    [] OTHER -> offset

\* ibv_poll_cq(cq, 1, wc) returns a request, which is served at once.
PollOne ==
  /\ policy \in ByPoll
  /\ pc = "poll"
  /\ cq[offset] # <<>> /\ IsRequest(Head(cq[offset]))
  /\ cur' = Head(cq[offset]).buf
  /\ cq' = [cq EXCEPT ![offset] = Tail(@)]
  /\ offset' = AfterRequest
  /\ pc' = "serve"
  /\ UNCHANGED <<config, posted, prioVars, ringVars>>

\* It returns a completed send: nothing to serve, but the rotation has moved on.
PollSent ==
  /\ policy = "rr_poll"
  /\ pc = "poll"
  /\ cq[offset] # <<>> /\ ~IsRequest(Head(cq[offset]))
  /\ cq' = [cq EXCEPT ![offset] = Tail(@)]
  /\ offset' = RoundUp(offset)
  /\ UNCHANGED <<config, posted, pc, cur, prioVars, ringVars>>

\* Nothing there: continue.
PollNone ==
  /\ policy \in ByPoll
  /\ pc = "poll"
  /\ cq[offset] = <<>>
  /\ offset' = AfterEmpty
  /\ UNCHANGED <<config, posted, cq, pc, cur, prioVars, ringVars>>

\* The next slot of the ring.
NextSlot(i) == IF i = BuffersPerQ - 1 THEN 0 ELSE i + 1

\* PROCESS_IN_ORDER: the request goes to the ring; a request that finds the ring
\* full is forgotten (its receive is never posted again).
PollToRing ==
  /\ policy = "inorder"
  /\ pc = "poll"
  /\ cq[offset] # <<>>
  /\ cq' = [cq EXCEPT ![offset] = Tail(@)]
  /\ IF head = tail /\ size = BuffersPerQ
       THEN UNCHANGED <<ring, head, size>>
       ELSE /\ head' = NextSlot(head)
            /\ ring' = [ring EXCEPT ![head'] = Head(cq[offset]).buf]
            /\ size' = size + 1
  /\ pc' = IF size' > 0 THEN "process" ELSE "poll"
  /\ UNCHANGED <<config, posted, cur, offset, prioVars, tail>>

-----------------------------------------------------------------------------
(* The choice of the next request. *)

\* Requests served while priority p waits; counted for the two rotations.
Overtaken(p) ==
  [r \in Priorities |->
     IF r = p \/ metaCQ[r] = <<>> \/ policy = "strict" THEN 0 ELSE passed[r] + 1]

\* assert(metaCQ[priority].size() > 0), then the front of the list.
TakeFront(p) ==
  /\ priority' = p
  /\ passed' = Overtaken(p)
  /\ IF metaCQ[p] = <<>>
       THEN pc' = "failed" /\ UNCHANGED <<cur, metaCQ>>
       ELSE /\ cur' = Head(metaCQ[p])
            /\ metaCQ' = [metaCQ EXCEPT ![p] = Tail(@)]
            /\ pc' = "serve"

\* STRICT_PRIORITY: the first priority of the set, erased at once if its list is empty.
PickStrict ==
  /\ policy = "strict"
  /\ pc = "process"
  /\ LET p == First(skipList) IN
       /\ TakeFront(p)
       /\ skipList' = IF metaCQ'[p] = <<>> THEN skipList \ {p} ELSE skipList
  /\ UNCHANGED <<config, posted, cq, offset, iter, iterPrev, checkCnt, ringVars>>

\* advance(skipListIter, 1), around the end of the set.
Following(i) ==
  IF IsLast(i, skipList) THEN First(skipList)
                         ELSE First({p \in skipList : p > i})

\* Mutation: the emptied priority stays in the set.
WithoutEmptiedNever == skipList

\* The set once the priority served last is erased, if its list was emptied by that.
WithoutEmptied ==
  IF priority # None /\ metaCQ[priority] = <<>> THEN skipList \ {iterPrev}
                                              ELSE skipList

\* The rest of a rotation step, for the new position i of the iterator: erase, give
\* up if the set is empty, dereference i (wild if i was the one erased), serve.
Rotate(i) ==
  /\ iter' = i
  /\ skipList' = WithoutEmptied
  /\ IF skipList' = {}
       THEN /\ priority' = None
            /\ pc' = "poll"
            /\ UNCHANGED <<iterPrev, cur, metaCQ, passed>>
       ELSE /\ iterPrev' = i
            /\ IF i \in skipList'
                 THEN TakeFront(i)
                 ELSE pc' = "failed" /\ UNCHANGED <<priority, cur, metaCQ, passed>>

FreshStart == priority = None \/ skipList = {First(skipList)}

\* Mutation: the iterator moves only when the list it points at is empty.
RoundRobinSlow ==
  IF FreshStart THEN First(skipList)
  ELSE IF metaCQ[priority] = <<>> THEN Following(iter) ELSE iter

\* The position of the iterator for the next request under ROUND_ROBIN.
RoundRobinNext == IF FreshStart THEN First(skipList) ELSE Following(iter)

PickRoundRobin ==
  /\ policy = "rr"
  /\ pc = "process"
  /\ Rotate(RoundRobinNext)
  /\ UNCHANGED <<config, posted, cq, offset, checkCnt, ringVars>>

\* The share of the current priority is used up, or it has nothing left.
TurnOver == checkCnt = QueueWeight(priority) \/ metaCQ[priority] = <<>>

\* WEIGHTED_ROUND_ROBIN: the iterator moves, and the count restarts, only when the
\* turn is over; a set of one priority does not restart the count.
PickWeighted ==
  /\ policy = "wrr"
  /\ pc = "process"
  /\ LET moves == ~FreshStart /\ TurnOver
         i == IF FreshStart THEN First(skipList)
              ELSE IF moves THEN Following(iter) ELSE iter
         count == IF moves THEN 0 ELSE checkCnt
     IN  /\ Rotate(i)
         /\ checkCnt' = IF pc' = "serve" THEN (count + 1) % CounterRange ELSE count
  /\ UNCHANGED <<config, posted, cq, offset, ringVars>>

\* Mutation: the reader wraps one slot early.
ReadSlotShort(i) == IF i >= BuffersPerQ - 2 THEN 0 ELSE i + 1

\* The slot the reader moves to.
ReadSlot(i) == NextSlot(i)

\* PROCESS_IN_ORDER: the next slot of the ring.  A slot never written holds bufID 0,
\* and buf_recv[0 - num_bufs] is read.
PickInOrder ==
  /\ policy = "inorder"
  /\ pc = "process"
  /\ tail' = ReadSlot(tail)
  /\ size' = size - 1
  /\ IF ring[tail'] = None THEN pc' = "failed" /\ UNCHANGED cur
                           ELSE pc' = "serve" /\ cur' = ring[tail']
  /\ UNCHANGED <<config, posted, cq, offset, prioVars, ring, head>>

\* The request is answered, signaled or not, and its receive posted again.  Bound: one
\* completed send waits on a connection.
Serve(signaled) ==
  /\ pc = "serve"
  /\ signaled => policy = "rr_poll" /\ Backlog(Owner(cur)) = Len(cq[Owner(cur)])
  /\ posted' = posted \cup {cur}
  /\ cq' = IF signaled THEN [cq EXCEPT ![Owner(cur)] = Append(@, Sent)] ELSE cq
  /\ cur' = None
  /\ pc' = "poll"
  /\ UNCHANGED <<config, offset, prioVars, ringVars>>

\* An assertion failed or memory was read at random: nothing more is said.
Failed == pc = "failed" /\ UNCHANGED vars

Pick == PickStrict \/ PickRoundRobin \/ PickWeighted \/ PickInOrder
Thread ==
  \/ PollAll \/ PollOne \/ PollSent \/ PollNone \/ PollToRing
  \/ Pick
  \/ \E signaled \in BOOLEAN : Serve(signaled)
Next ==
  \/ \E b \in Buffers, p \in Priorities : Arrive(b, p)
  \/ Thread
  \/ Failed

Spec == Init /\ [][Next]_vars

\* The thread spins on its own core and never blocks; packets need not arrive.
FairSpec == Spec /\ WF_vars(Thread)

-----------------------------------------------------------------------------
(* Properties. *)

\* Type invariant: every variable has its type; in particular the connection polled
\* exists and the ring never holds more than its slots.
TypeOK ==
  /\ policy \in ByPriority \cup ByPoll \cup {"inorder"}
  /\ scaleout \in BOOLEAN /\ thread \in 0 .. NumThreads - 1 /\ aligned \in BOOLEAN
  /\ posted \subseteq Buffers
  /\ cq \in [Queues -> Seq(Request \cup {Sent})]
  /\ pc \in {"poll", "process", "serve", "failed"}
  /\ cur \in Buffers \cup {None}
  /\ offset \in Queues
  /\ metaCQ \in [Priorities -> Seq(Buffers)]
  /\ skipList \subseteq Priorities
  /\ {iter, iterPrev, priority} \subseteq Priorities \cup {None}
  /\ checkCnt \in 0 .. CounterRange - 1
  /\ ring \in [0 .. BuffersPerQ - 1 -> Buffers \cup {None}]
  /\ head \in 0 .. BuffersPerQ - 1 /\ tail \in 0 .. BuffersPerQ - 1
  /\ size \in 0 .. BuffersPerQ
  /\ passed \in [Priorities -> Nat]

\* The loop never serves from an empty list (the assert of every policy), never
\* dereferences an iterator it has erased and never reads a ring slot that was not
\* written, unless the uninitialised indices of the ring started apart.
NoFailure == pc = "failed" => ~aligned

\* No weight has fallen below zero.  One that has is beyond the uint8_t it is compared
\* with: its priority keeps its turn for as long as it has requests.
WeightsHold == \A p \in Priorities : p \div (NumPriorities \div Levels) <= Levels

\* The longest turn under WEIGHTED_ROUND_ROBIN.  checkCnt is incremented before it is
\* compared, so the turn of a priority of weight 0 lasts until the uint8_t comes round.
LongestTurn == IF \E p \in Priorities : QueueWeight(p) = 0 THEN CounterRange ELSE Levels

\* How often a waiting priority can be passed over.  ROUND_ROBIN: once by each of
\* the others.  WEIGHTED_ROUND_ROBIN: not by the turns of the others alone, since
\* checkCnt runs on while one priority has the set to itself: with the equality test
\* that priority keeps its turn until the uint8_t comes round.
BypassBound(p) ==
  IF policy = "rr" THEN NumPriorities - 1
  ELSE CounterRange + (NumPriorities - 2) * LongestTurn

\* Under the two rotations no priority that waits is passed over without end (under
\* WEIGHTED_ROUND_ROBIN, while the weights hold).
BypassBounded ==
  policy = "rr" \/ (policy = "wrr" /\ WeightsHold) =>
    \A p \in Priorities : passed[p] <= BypassBound(p)

\* Every receive of the connection is in one place: posted, completed, filed once
\* under one priority, in the ring, or in service.  Misplaced ones would be answered
\* twice or be lost to the receive queue.
Listed(b) ==
  {<<"cq", Owner(b), i>> : i \in {j \in DOMAIN cq[Owner(b)] : cq[Owner(b)][j].buf = b}}
    \cup (UNION {{<<"meta", p, i>> : i \in {j \in DOMAIN metaCQ[p] : metaCQ[p][j] = b}}
                   : p \in Priorities})
    \cup {<<"ring", 0, i>> : i \in {j \in 1 .. size :
                                      ring[(tail + j) % BuffersPerQ] = b}}
    \cup (IF b \in posted THEN {<<"posted", 0, 0>>} ELSE {})
    \cup (IF cur = b THEN {<<"cur", 0, 0>>} ELSE {})

EachOnce ==
  aligned => \A b \in Buffers : \E place \in Listed(b) : Listed(b) = {place}

Waits(b) == b \notin posted \cup {cur}

\* Every completed request of a connection the thread polls is served, whatever keeps
\* arriving, under the policies that rotate (by weight: while the weights hold) or keep
\* the order of arrival.
FairService ==
  \A b \in Buffers :
    (/\ policy \in {"rr", "inorder", "rr_poll"} \/ (policy = "wrr" /\ WeightsHold)
     /\ aligned /\ Waits(b)) ~> cur = b

\* The thread polls every connection, or, scaled out, those congruent to its number.
Polled(q) == scaleout => q % NumThreads = thread

\* STRICT_POLL: a request waits only for requests of connections at least as urgent:
\* the scan reaches its connection, or an earlier one has something to serve.
StrictScan ==
  \A b \in Buffers :
    (policy = "strict_poll" /\ Waits(b) /\ Polled(Owner(b)))
      ~> (cur # None /\ Owner(cur) <= Owner(b))
=============================================================================
