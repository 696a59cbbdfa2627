--------------------------- MODULE SchedulersProofs ---------------------------
(***************************************************************************)
(* Proofs about Schedulers for every number of connections, buffers and    *)
(* priorities, under each of the seven policies.                           *)
(***************************************************************************)
EXTENDS Schedulers, FiniteSetTheorems, WellFoundedInduction, TLAPS

-----------------------------------------------------------------------------
(* Sets of numbers and lists of requests. *)

LEMMA Sizes ==
  /\ NumQueues \in Nat \ {0} /\ NumThreads \in Nat \ {0} /\ BuffersPerQ \in Nat \ {0}
  /\ NumPriorities \in Nat \ {0} /\ NumThreads <= NumQueues
  <1>1. {NumQueues, NumThreads, BuffersPerQ, NumPriorities} \subseteq Nat \ {0}
    BY SchedulersAssumption
  <1>2. NumThreads <= NumQueues
    BY SchedulersAssumption
  <1> QED
    BY <1>1, <1>2

LEMMA LeastElement ==
  ASSUME NEW S, S \subseteq Nat, S # {}
  PROVE  \E n \in S : \A x \in S : n <= x
  <1>1. PICK p \in S : \A x \in S : ~(<<x, p>> \in OpToRel(<, Nat))
    BY NatLessThanWellFounded, WFMin
  <1>2. \A x \in S : p <= x
    <2> TAKE x \in S
    <2>1. ~(x < p)
      BY <1>1 DEF OpToRel
    <2> QED
      BY <2>1
  <1> QED
    BY <1>2

\* The choice of the schedulers exists.
LEMMA FirstIsLeast ==
  ASSUME NEW S, S \subseteq Priorities, S # {}
  PROVE  First(S) \in S /\ \A x \in S : First(S) <= x
  <1>1. S \subseteq Nat
    BY Sizes DEF Priorities
  <1>2. PICK p \in S : \A x \in S : p <= x
    BY <1>1, LeastElement
  <1> QED
    BY <1>2 DEF First

\* f[i]: the lists after the first i requests of a poll.
FiledUpTo(f, lists, s, n) ==
  f = [i \in 0 .. n |-> IF i = 0 THEN lists
                        ELSE [f[i - 1] EXCEPT ![s[i].prio] = Append(@, s[i].buf)]]

LEMMA FilingDefined ==
  ASSUME NEW lists, NEW s, NEW n \in Nat
  PROVE  \E f : FiledUpTo(f, lists, s, n)
  <1> DEFINE Bad == {m \in Nat : ~\E f : FiledUpTo(f, lists, s, m)}
  <1> SUFFICES ASSUME Bad # {}
               PROVE  FALSE
    OBVIOUS
  <1>1. PICK m \in Bad : \A k \in Bad : m <= k
    BY LeastElement
  <1>2. m \in Nat
    OBVIOUS
  <1>3. CASE m = 0
    <2>1. FiledUpTo([i \in 0 .. 0 |-> lists], lists, s, 0)
      BY DEF FiledUpTo
    <2> QED
      BY <1>1, <1>3, <2>1
  <1>4. CASE m # 0
    <2>1. m - 1 \in Nat /\ m - 1 \notin Bad
      BY <1>1, <1>2, <1>4
    <2>2. PICK f : FiledUpTo(f, lists, s, m - 1)
      BY <2>1
    <2> DEFINE last == [f[m - 1] EXCEPT ![s[m].prio] = Append(@, s[m].buf)]
               g == [i \in 0 .. m |-> IF i = m THEN last ELSE f[i]]
    <2>3. \A i \in 0 .. m :
            g[i] = IF i = 0 THEN lists
                   ELSE [g[i - 1] EXCEPT ![s[i].prio] = Append(@, s[i].buf)]
      <3> TAKE i \in 0 .. m
      <3>1. CASE i = m
        <4>1. m \in 0 .. m /\ m - 1 \in 0 .. m /\ m - 1 # m
          BY <1>2, <1>4
        <4>2. g[m] = last /\ g[m - 1] = f[m - 1]
          BY <4>1
        <4> QED
          BY <1>4, <3>1, <4>2
      <3>2. CASE i # m
        <4>1. i \in 0 .. m - 1 /\ (i # 0 => i - 1 \in 0 .. m - 1)
          BY <1>2, <3>2
        <4>2. f[i] = IF i = 0 THEN lists
                     ELSE [f[i - 1] EXCEPT ![s[i].prio] = Append(@, s[i].buf)]
          BY <2>2, <4>1 DEF FiledUpTo
        <4>3. i # 0 => g[i - 1] = f[i - 1]
          BY <1>2, <4>1
        <4> HIDE DEF last
        <4> QED
          BY <3>2, <4>2, <4>3
      <3> QED
        BY <3>1, <3>2
    <2>4. FiledUpTo(g, lists, s, m)
      <3> HIDE DEF last
      <3> QED
        BY <2>3 DEF FiledUpTo
    <2> QED
      BY <1>1, <2>4
  <1> QED
    BY <1>3, <1>4

\* Filing appends to the lists of the polled priorities and leaves the others alone.
LEMMA FiledLists ==
  ASSUME NEW lists \in [Priorities -> Seq(Buffers)], NEW s \in Seq(Request)
  PROVE  /\ Filed(lists, s) \in [Priorities -> Seq(Buffers)]
         /\ \A p \in Priorities :
              Filed(lists, s)[p] # <<>> <=> lists[p] # <<>> \/ \E k \in DOMAIN s : s[k].prio = p
  <1> DEFINE n == Len(s)
             F == CHOOSE f : FiledUpTo(f, lists, s, n)
  <1>1. n \in Nat
    OBVIOUS
  <1>2. FiledUpTo(F, lists, s, n)
    BY <1>1, FilingDefined
  <1>3. Filed(lists, s) = F[n]
    BY DEF Filed, FiledUpTo
  <1>4. \A i \in 0 .. n : F[i] = IF i = 0 THEN lists
                                 ELSE [F[i - 1] EXCEPT ![s[i].prio] = Append(@, s[i].buf)]
    BY <1>2 DEF FiledUpTo
  <1> HIDE DEF F
  <1> DEFINE Right(i) ==
        /\ F[i] \in [Priorities -> Seq(Buffers)]
        /\ \A p \in Priorities :
             F[i][p] # <<>> <=> lists[p] # <<>> \/ \E k \in 1 .. i : s[k].prio = p
      Bad == {i \in Nat : i <= n /\ ~Right(i)}
  <1>5. Right(0)
    <2>1. F[0] = lists
      <3>1. 0 \in 0 .. n
        BY <1>1
      <3> QED
        BY <1>4, <3>1
    <2>2. ~\E k : k \in 1 .. 0
      OBVIOUS
    <2> QED
      BY <2>1, <2>2
  <1>6. ASSUME NEW i \in 1 .. n, Right(i - 1)
        PROVE  Right(i)
    <2>1. s[i] \in Request /\ s[i].prio \in Priorities /\ s[i].buf \in Buffers
      <3>1. i \in DOMAIN s
        BY <1>1
      <3>2. s[i] \in Request
        BY <3>1
      <3> QED
        BY <3>2 DEF Request
    <2> DEFINE l == F[i - 1]
    <2>2. F[i] = [l EXCEPT ![s[i].prio] = Append(@, s[i].buf)]
      <3>1. i \in 0 .. n /\ i # 0
        BY <1>1
      <3> QED
        BY <1>4, <3>1
    <2>3. l \in [Priorities -> Seq(Buffers)]
      BY <1>6
    <2>4. \A p \in Priorities :
            l[p] # <<>> <=> lists[p] # <<>> \/ \E k \in 1 .. i - 1 : s[k].prio = p
      BY <1>6
    <2> HIDE DEF l
    <2>5. F[i] \in [Priorities -> Seq(Buffers)]
      BY <2>1, <2>2, <2>3
    <2>6. \A p \in Priorities : F[i][p] # <<>> <=> l[p] # <<>> \/ p = s[i].prio
      <3> TAKE p \in Priorities
      <3>1. CASE p = s[i].prio
        <4>1. F[i][p] = Append(l[p], s[i].buf)
          BY <2>2, <2>3, <3>1
        <4>2. Append(l[p], s[i].buf) # <<>>
          <5>1. l[p] \in Seq(Buffers)
            BY <2>3
          <5> DEFINE a == Append(l[p], s[i].buf)
          <5>2. Len(a) # 0
            BY <2>1, <5>1
          <5> HIDE DEF a
          <5>3. a # <<>>
            BY <5>2
          <5> QED
            BY <5>3 DEF a
        <4> QED
          BY <3>1, <4>1, <4>2
      <3>2. CASE p # s[i].prio
        BY <2>2, <2>3, <3>2
      <3> QED
        BY <3>1, <3>2
    <2>7. \A k : k \in 1 .. i <=> k \in 1 .. i - 1 \/ k = i
      BY <1>1
    <2> QED
      BY <2>4, <2>5, <2>6, <2>7
  <1>7. Bad = {}
    <2> SUFFICES ASSUME Bad # {}
                 PROVE  FALSE
      OBVIOUS
    <2> HIDE DEF Right
    <2>1. PICK m \in Bad : \A k \in Bad : m <= k
      BY LeastElement
    <2>2. m \in Nat /\ m <= n /\ m # 0 /\ ~Right(m)
      BY <1>5
    <2>3. m - 1 \in Nat /\ m - 1 <= n /\ m - 1 \notin Bad
      BY <1>1, <2>1, <2>2
    <2>4. m \in 1 .. n /\ Right(m - 1)
      BY <1>1, <2>2, <2>3
    <2> QED
      BY <1>6, <2>2, <2>4
  <1>8. Right(n)
    <2> HIDE DEF Right
    <2> QED
      BY <1>1, <1>7
  <1> QED
    BY SMTT(30), <1>3, <1>8

-----------------------------------------------------------------------------
(* Types.  The width of checkCnt is left out: no choice below depends on it. *)

Typed ==
  /\ policy \in ByPriority \cup ByPoll \cup {"inorder"}
  /\ scaleout \in BOOLEAN /\ thread \in 0 .. NumThreads - 1 /\ aligned \in BOOLEAN
  /\ posted \subseteq Buffers
  /\ cq \in [Queues -> Seq(Request \cup {Sent})]
  /\ policy # "rr_poll" => cq \in [Queues -> Seq(Request)]
  /\ pc \in {"poll", "process", "serve", "failed"}
  /\ cur \in Buffers \cup {None}
  /\ pc = "serve" => cur \in Buffers
  /\ pc = "process" => (skipList # {} \/ policy = "inorder")
  /\ offset \in Queues
  /\ metaCQ \in [Priorities -> Seq(Buffers)]
  /\ skipList \subseteq Priorities
  /\ ring \in [0 .. BuffersPerQ - 1 -> Buffers \cup {None}]
  /\ head \in 0 .. BuffersPerQ - 1 /\ tail \in 0 .. BuffersPerQ - 1

LEMMA Division ==
  ASSUME NEW a \in Nat, NEW b \in Nat \ {0}
  PROVE  a \div b \in Nat /\ b * (a \div b) <= a /\ a < b * (a \div b) + b
  OBVIOUS

LEMMA OwnerInRange == \A b \in Buffers : Owner(b) \in Queues
  <1> TAKE b \in Buffers
  <1> DEFINE d == b \div BuffersPerQ
  <1>1. b \in Nat /\ b < NumQueues * BuffersPerQ
    BY Sizes DEF Buffers
  <1>2. d \in Nat /\ BuffersPerQ * d <= b
    BY <1>1, Sizes, Division
  <1> HIDE DEF d
  <1>3. ~(d >= NumQueues)
    <2> SUFFICES ASSUME d >= NumQueues
                 PROVE  FALSE
      OBVIOUS
    <2>1. BuffersPerQ * d >= BuffersPerQ * NumQueues
      BY <1>2, Sizes
    <2>2. BuffersPerQ * NumQueues = NumQueues * BuffersPerQ
      BY Sizes
    <2>3. BuffersPerQ * d \in Nat /\ BuffersPerQ * NumQueues \in Nat
      BY <1>2, Sizes
    <2> QED
      BY <1>1, <1>2, <2>1, <2>2, <2>3
  <1>4. Owner(b) = d
    BY DEF Owner, d
  <1> QED
    BY <1>2, <1>3, <1>4, Sizes DEF Queues

LEMMA NextQueueInRange ==
  ASSUME Typed
  PROVE  AfterEmpty \in Queues /\ AfterRequest \in Queues /\ RoundUp(offset) \in Queues
  <1>1. offset \in 0 .. NumQueues - 1 /\ thread \in 0 .. NumThreads - 1
    BY DEF Typed, Queues
  <1>2. RoundUp(offset) \in Queues
    BY <1>1, Sizes DEF RoundUp, Queues
  <1>3. thread \in Queues /\ 0 \in Queues
    BY <1>1, Sizes DEF Queues
  <1>4. NextOwnQueue(offset) \in Queues
    <2> DEFINE d == NumQueues \div NumThreads
    <2>1. d \in Nat /\ NumThreads * d <= NumQueues /\ NumThreads * d \in Nat
      BY Sizes, Division
    <2>2. NumThreads * (d - 1) = NumThreads * d - NumThreads
      BY <2>1, Sizes
    <2> HIDE DEF d
    <2>3. offset <= NumThreads * (d - 1) - 1 => offset + NumThreads \in Queues
      BY <1>1, <2>1, <2>2, Sizes DEF Queues
    <2>4. NumThreads * (d - 1) - 1 \in Int /\ offset \in Int
      BY <1>1, <2>1, <2>2, Sizes
    <2>5. ~(offset > NumThreads * (d - 1) - 1) => offset + NumThreads \in Queues
      BY <2>3, <2>4
    <2> QED
      BY <1>3, <2>5 DEF NextOwnQueue, d
  <1> QED
    BY <1>1, <1>2, <1>3, <1>4 DEF AfterEmpty, AfterRequest, Typed

LEMMA TypedInit == Init => Typed
  <1> SUFFICES ASSUME Init
               PROVE  Typed
    OBVIOUS
  <1>1. thread \in 0 .. NumThreads - 1 /\ offset = thread % NumQueues
    BY DEF Init
  <1>2. offset \in Queues
    BY <1>1, Sizes DEF Queues
  <1>3. /\ cq \in [Queues -> Seq(Request \cup {Sent})] /\ cq \in [Queues -> Seq(Request)]
        /\ metaCQ \in [Priorities -> Seq(Buffers)]
    BY DEF Init
  <1>4. /\ ring \in [0 .. BuffersPerQ - 1 -> Buffers \cup {None}]
        /\ head \in 0 .. BuffersPerQ - 1 /\ tail \in 0 .. BuffersPerQ - 1
        /\ skipList \subseteq Priorities /\ posted \subseteq Buffers
        /\ aligned \in BOOLEAN /\ scaleout \in BOOLEAN
        /\ pc = "poll" /\ cur = None
        /\ policy \in ByPriority \cup ByPoll \cup {"inorder"}
    BY DEF Init
  <1> QED
    BY <1>1, <1>2, <1>3, <1>4 DEF Typed

\* The types of the lists and of the ring after a step, for the steps that change them.
LEMMA TypedNext == Typed /\ [Next]_vars => Typed'
  <1> SUFFICES ASSUME Typed, [Next]_vars
               PROVE  Typed'
    OBVIOUS
  <1>1. /\ policy \in ByPriority \cup ByPoll \cup {"inorder"}
        /\ scaleout \in BOOLEAN /\ thread \in 0 .. NumThreads - 1 /\ aligned \in BOOLEAN
        /\ posted \subseteq Buffers
        /\ pc \in {"poll", "process", "serve", "failed"}
        /\ cur \in Buffers \cup {None}
        /\ offset \in Queues
        /\ metaCQ \in [Priorities -> Seq(Buffers)]
        /\ skipList \subseteq Priorities
        /\ ring \in [0 .. BuffersPerQ - 1 -> Buffers \cup {None}]
        /\ head \in 0 .. BuffersPerQ - 1 /\ tail \in 0 .. BuffersPerQ - 1
    BY DEF Typed
  <1>2. /\ cq \in [Queues -> Seq(Request \cup {Sent})]
        /\ policy # "rr_poll" => cq \in [Queues -> Seq(Request)]
    BY DEF Typed
  <1>3. ASSUME NEW q \in Queues, cq' = [cq EXCEPT ![q] = Tail(@)], cq[q] # <<>>,
               policy' = policy
        PROVE  /\ cq' \in [Queues -> Seq(Request \cup {Sent})]
               /\ policy' # "rr_poll" => cq' \in [Queues -> Seq(Request)]
    <2>1. Tail(cq[q]) \in Seq(Request \cup {Sent})
      BY <1>2, <1>3
    <2>2. policy # "rr_poll" => Tail(cq[q]) \in Seq(Request)
      BY <1>2, <1>3
    <2> QED
      BY <1>2, <1>3, <2>1, <2>2
  <1>4. \A b \in Buffers : b # None
    BY Sizes DEF Buffers, None
  <1>5. ASSUME NEW b \in Buffers, NEW p \in Priorities, Arrive(b, p)
        PROVE  Typed'
    <2>1. Owner(b) \in Queues /\ [buf |-> b, prio |-> p] \in Request
      BY OwnerInRange DEF Request
    <2>2. cq' = [cq EXCEPT ![Owner(b)] = Append(cq[Owner(b)], [buf |-> b, prio |-> p])]
      BY <1>5 DEF Arrive
    <2>3. /\ Append(cq[Owner(b)], [buf |-> b, prio |-> p]) \in Seq(Request \cup {Sent})
          /\ policy # "rr_poll" =>
               Append(cq[Owner(b)], [buf |-> b, prio |-> p]) \in Seq(Request)
      BY <1>2, <2>1
    <2>4. /\ cq' \in [Queues -> Seq(Request \cup {Sent})]
          /\ policy # "rr_poll" => cq' \in [Queues -> Seq(Request)]
      BY <1>2, <2>1, <2>2, <2>3
    <2> QED
      BY <1>5, <2>4 DEF Typed, Arrive, config, prioVars, ringVars
  <1>6. CASE PollAll
    <2>1. cq[offset] \in Seq(Request) /\ policy # "rr_poll"
      BY <1>1, <1>2, <1>6 DEF PollAll, ByPriority
    <2>2. metaCQ' \in [Priorities -> Seq(Buffers)]
      BY <1>1, <1>6, <2>1, FiledLists DEF PollAll
    <2>3. skipList' \subseteq Priorities
      <3>1. \A c \in ToSet(cq[offset]) : c \in Request
        BY <2>1 DEF ToSet
      <3>2. \A c \in ToSet(cq[offset]) : c.prio \in Priorities
        BY <3>1 DEF Request
      <3> QED
        BY <1>1, <1>6, <3>2 DEF PollAll
    <2>4. cq' \in [Queues -> Seq(Request \cup {Sent})] /\ cq' \in [Queues -> Seq(Request)]
      BY <1>1, <1>2, <1>6, <2>1 DEF PollAll
    <2>5. pc' \in {"poll", "process"} /\ (pc' = "process" => skipList' # {})
      BY <1>6 DEF PollAll
    <2> QED
      BY <1>1, <1>6, <2>2, <2>3, <2>4, <2>5 DEF PollAll, Typed, config, ringVars
  <1>7. CASE PollOne
    <2>1. Head(cq[offset]) \in Request
      BY <1>1, <1>2, <1>7 DEF PollOne, IsRequest
    <2>2. cur' \in Buffers
      BY <1>7, <2>1 DEF PollOne, Request
    <2>3. /\ cq' \in [Queues -> Seq(Request \cup {Sent})]
          /\ policy' # "rr_poll" => cq' \in [Queues -> Seq(Request)]
      BY <1>1, <1>3, <1>7 DEF PollOne, config
    <2> QED
      BY <1>1, <1>7, <2>2, <2>3, NextQueueInRange DEF PollOne, Typed, config, prioVars, ringVars
  <1>8. CASE PollSent
    <2>1. /\ cq' \in [Queues -> Seq(Request \cup {Sent})]
          /\ policy' # "rr_poll" => cq' \in [Queues -> Seq(Request)]
      BY <1>1, <1>3, <1>8 DEF PollSent, config
    <2> QED
      BY <1>1, <1>8, <2>1, NextQueueInRange DEF PollSent, Typed, config, prioVars, ringVars
  <1>9. CASE PollNone
    BY <1>9, NextQueueInRange DEF PollNone, Typed, config, prioVars, ringVars
  <1>10. CASE PollToRing
    <2>1. /\ cq' \in [Queues -> Seq(Request \cup {Sent})]
          /\ policy' # "rr_poll" => cq' \in [Queues -> Seq(Request)]
      BY <1>1, <1>3, <1>10 DEF PollToRing, config
    <2>2. Head(cq[offset]) \in Request
      BY <1>1, <1>2, <1>10 DEF PollToRing
    <2>3. Head(cq[offset]).buf \in Buffers
      BY <2>2 DEF Request
    <2>4. NextSlot(head) \in 0 .. BuffersPerQ - 1
      BY <1>1, Sizes DEF NextSlot
    <2>5. /\ ring' \in [0 .. BuffersPerQ - 1 -> Buffers \cup {None}]
          /\ head' \in 0 .. BuffersPerQ - 1
      BY <1>1, <1>10, <2>3, <2>4 DEF PollToRing
    <2>6. pc' \in {"poll", "process"}
      BY <1>10 DEF PollToRing
    <2> QED
      BY <1>1, <1>10, <2>1, <2>5, <2>6 DEF PollToRing, Typed, config, prioVars
  <1>11. ASSUME NEW p \in Priorities, TakeFront(p)
         PROVE  /\ metaCQ' \in [Priorities -> Seq(Buffers)]
                /\ cur' \in Buffers \cup {None}
                /\ pc' = "failed" \/ (pc' = "serve" /\ cur' \in Buffers)
    <2>1. metaCQ[p] \in Seq(Buffers)
      BY <1>1
    <2>2. CASE metaCQ[p] = <<>>
      BY <1>1, <1>11, <2>2 DEF TakeFront
    <2>3. CASE metaCQ[p] # <<>>
      <3>1. Head(metaCQ[p]) \in Buffers /\ Tail(metaCQ[p]) \in Seq(Buffers)
        BY <2>1, <2>3
      <3> QED
        BY <1>1, <1>11, <2>3, <3>1 DEF TakeFront
    <2> QED
      BY <2>2, <2>3
  <1>12. ASSUME NEW i, Rotate(i), UNCHANGED <<config, posted, cq, offset, ringVars>>
         PROVE  Typed'
    <2>1. skipList' \subseteq Priorities
      BY <1>1, <1>12 DEF Rotate, WithoutEmptied
    <2>2. CASE i \in skipList'
      BY <1>1, <1>2, <1>11, <1>12, <2>1, <2>2 DEF Rotate, Typed, config, ringVars
    <2>3. CASE i \notin skipList'
      BY <1>1, <1>2, <1>12, <2>1, <2>3 DEF Rotate, Typed, config, ringVars
    <2> QED
      BY <2>2, <2>3
  <1>13. CASE PickStrict
    <2>1. First(skipList) \in Priorities
      BY <1>1, <1>13, FirstIsLeast DEF PickStrict, Typed
    <2> QED
      BY <1>1, <1>2, <1>11, <1>13, <2>1 DEF PickStrict, Typed, config, ringVars
  <1>14. CASE PickRoundRobin
    BY <1>12, <1>14 DEF PickRoundRobin
  <1>15. CASE PickWeighted
    BY <1>12, <1>15 DEF PickWeighted
  <1>16. CASE PickInOrder
    <2>1. ReadSlot(tail) \in 0 .. BuffersPerQ - 1
      BY <1>1, Sizes DEF ReadSlot, NextSlot
    <2>2. tail' \in 0 .. BuffersPerQ - 1 /\ ring[tail'] \in Buffers \cup {None}
      BY <1>1, <1>16, <2>1 DEF PickInOrder
    <2> QED
      BY <1>1, <1>2, <1>16, <2>2 DEF PickInOrder, Typed, config, prioVars
  <1>17. ASSUME NEW signaled \in BOOLEAN, Serve(signaled)
         PROVE  Typed'
    <2>1. cur \in Buffers /\ Owner(cur) \in Queues
      BY <1>17, OwnerInRange DEF Serve, Typed
    <2>2. signaled => policy = "rr_poll"
      BY <1>17 DEF Serve
    <2>3. Append(cq[Owner(cur)], Sent) \in Seq(Request \cup {Sent})
      BY <1>2, <2>1
    <2>4. /\ cq' \in [Queues -> Seq(Request \cup {Sent})]
          /\ policy # "rr_poll" => cq' \in [Queues -> Seq(Request)]
      BY <1>2, <1>17, <2>1, <2>2, <2>3 DEF Serve
    <2> QED
      BY <1>1, <1>17, <2>1, <2>4 DEF Serve, Typed, config, prioVars, ringVars
  <1>18. CASE UNCHANGED vars
    BY <1>18 DEF vars, Typed, config, prioVars, ringVars
  <1> QED
    BY <1>5, <1>6, <1>7, <1>8, <1>9, <1>10, <1>13, <1>14, <1>15, <1>16, <1>17, <1>18
       DEF Next, Thread, Pick, Failed

-----------------------------------------------------------------------------
(* No failure. *)

Waiting == {p \in Priorities : metaCQ[p] # <<>>}

\* The set of priorities and the lists: STRICT_PRIORITY erases an emptied priority at
\* once, the rotations when they come back, so one list in the set may be empty, that
\* of the priority served last, and it is where both iterators point.
SetExact ==
  /\ policy = "strict" => skipList \subseteq Waiting
  /\ policy \in {"rr", "wrr"} =>
       /\ skipList \subseteq Waiting \cup {priority}
       /\ priority # None => priority \in skipList /\ iter = priority /\ iterPrev = priority

\* The j-th slot the reader of the ring comes to.
Slot(t, j) == IF t + j < BuffersPerQ THEN t + j ELSE t + j - BuffersPerQ

\* The ring: the slots between the reader and the writer are written.
RingExact ==
  (policy = "inorder" /\ aligned) =>
    /\ size \in 0 .. BuffersPerQ
    /\ head = Slot(tail, size)
    /\ \A j \in 1 .. size : ring[Slot(tail, j)] # None
    /\ pc = "process" => size > 0

Sound == Typed /\ SetExact /\ RingExact /\ NoFailure /\ (policy # "inorder" => aligned)

LEMMA SoundInit == Init => Sound
  <1> SUFFICES ASSUME Init
               PROVE  Sound
    OBVIOUS
  <1>1. Typed
    BY TypedInit
  <1>2. SetExact
    BY DEF Init, SetExact
  <1>3. RingExact
    BY Sizes DEF Init, RingExact, Slot
  <1> QED
    BY <1>1, <1>2, <1>3 DEF Sound, NoFailure, Init

\* A step of a rotation that does not move to the priority it is about to erase.
LEMMA RotateSound ==
  ASSUME Sound, NEW i \in skipList, policy \in {"rr", "wrr"}, Rotate(i),
         UNCHANGED <<config, posted, cq, offset, ringVars>>,
         priority # None /\ metaCQ[priority] = <<>> /\ skipList # {priority} => i # priority
  PROVE  SetExact' /\ pc' # "failed"
  <1>1. /\ skipList \subseteq Waiting \cup {priority} /\ skipList \subseteq Priorities
        /\ priority # None => priority \in skipList /\ iter = priority /\ iterPrev = priority
        /\ metaCQ \in [Priorities -> Seq(Buffers)]
        /\ policy' = policy
    BY DEF Sound, SetExact, Typed, config
  <1>2. None \notin Priorities
    BY Sizes DEF None, Priorities
  <1>3. skipList' \subseteq Waiting /\ skipList' \subseteq skipList
    BY <1>1, <1>2 DEF Rotate, WithoutEmptied, Waiting
  <1>4. CASE skipList' = {}
    BY <1>1, <1>4 DEF Rotate, SetExact
  <1>5. CASE skipList' # {}
    <2>1. i \in skipList'
      BY <1>1, <1>5 DEF Rotate, WithoutEmptied
    <2>2. TakeFront(i) /\ iter' = i /\ iterPrev' = i
      BY <1>5, <2>1 DEF Rotate
    <2>3. metaCQ[i] # <<>> /\ i \in Priorities
      BY <1>1, <1>3, <2>1 DEF Waiting
    <2>4. /\ priority' = i /\ pc' = "serve"
          /\ metaCQ' = [metaCQ EXCEPT ![i] = Tail(@)]
      BY <2>2, <2>3 DEF TakeFront
    <2>5. skipList' \subseteq Waiting' \cup {priority'}
      BY <1>1, <1>3, <2>4 DEF Waiting
    <2> QED
      BY <1>1, <2>1, <2>2, <2>4, <2>5 DEF SetExact
  <1> QED
    BY <1>4, <1>5

\* The iterator leaves the priority it points at, if there is another one.
LEMMA FollowingMoves ==
  ASSUME Typed, NEW i \in skipList, skipList # {First(skipList)}
  PROVE  Following(i) \in skipList /\ Following(i) # i
  <1>1. skipList \subseteq Priorities /\ \A x \in skipList : x \in Int
    BY Sizes DEF Typed, Priorities
  <1>2. First(skipList) \in skipList /\ \A x \in skipList : First(skipList) <= x
    BY <1>1, FirstIsLeast
  <1>3. CASE IsLast(i, skipList)
    <2>1. First(skipList) # i
      <3> SUFFICES ASSUME First(skipList) = i
                   PROVE  FALSE
        OBVIOUS
      <3>1. \A x \in skipList : x = i
        BY <1>1, <1>2, <1>3 DEF IsLast
      <3> QED
        BY <1>2, <3>1
    <2> QED
      BY <1>2, <1>3, <2>1 DEF Following
  <1>4. CASE ~IsLast(i, skipList)
    <2> DEFINE S == {p \in skipList : p > i}
    <2>1. S # {} /\ S \subseteq Priorities
      BY <1>1, <1>4 DEF IsLast
    <2>2. First(S) \in S
      BY <2>1, FirstIsLeast
    <2>3. Following(i) = First(S)
      BY <1>4 DEF Following
    <2> HIDE DEF Following
    <2> QED
      BY <1>1, <2>2, <2>3
  <1> QED
    BY <1>3, <1>4

\* The two rotations.
LEMMA RotationSound ==
  ASSUME Sound, PickRoundRobin \/ PickWeighted
  PROVE  SetExact' /\ pc' # "failed"
  <1>1. /\ policy \in {"rr", "wrr"} /\ pc = "process"
        /\ UNCHANGED <<config, posted, cq, offset, ringVars>>
    BY DEF PickRoundRobin, PickWeighted
  <1>2. /\ skipList # {} /\ skipList \subseteq Priorities /\ Typed
        /\ priority # None => priority \in skipList /\ iter = priority
    BY <1>1 DEF Sound, Typed, SetExact
  <1>3. First(skipList) \in skipList
    BY <1>2, FirstIsLeast
  <1>4. FreshStart => priority = None \/ skipList = {priority}
    BY <1>2 DEF FreshStart
  <1>5. ~FreshStart =>
          /\ priority # None /\ priority \in skipList /\ iter = priority
          /\ Following(iter) \in skipList /\ Following(iter) # priority
    BY <1>2, FollowingMoves DEF FreshStart
  <1>6. CASE PickRoundRobin
    <2>1. Rotate(RoundRobinNext)
      BY <1>6 DEF PickRoundRobin
    <2>2. /\ RoundRobinNext \in skipList
          /\ priority # None /\ skipList # {priority} => RoundRobinNext # priority
      BY <1>3, <1>4, <1>5 DEF RoundRobinNext
    <2> QED
      BY <1>1, <2>1, <2>2, RotateSound
  <1>7. CASE PickWeighted
    <2> DEFINE i == IF FreshStart THEN First(skipList)
                    ELSE IF ~FreshStart /\ TurnOver THEN Following(iter) ELSE iter
    <2>1. Rotate(i)
      BY <1>7 DEF PickWeighted
    <2>2. i \in skipList
      BY <1>3, <1>5
    <2>3. priority # None /\ metaCQ[priority] = <<>> /\ skipList # {priority} => i # priority
      BY <1>4, <1>5 DEF TurnOver
    <2> HIDE DEF i
    <2> QED
      BY <1>1, <2>1, <2>2, <2>3, RotateSound
  <1> QED
    BY <1>6, <1>7

\* A poll files at least one request under every priority it adds to the set.
LEMMA PollAllSound ==
  ASSUME Sound, PollAll
  PROVE  SetExact'
  <1>1. /\ cq[offset] \in Seq(Request) /\ metaCQ \in [Priorities -> Seq(Buffers)]
        /\ skipList \subseteq Priorities
    BY DEF Sound, Typed, PollAll, ByPriority
  <1> DEFINE s == cq[offset]
  <1>2. \A p \in Priorities :
          metaCQ'[p] # <<>> <=> metaCQ[p] # <<>> \/ \E k \in DOMAIN s : s[k].prio = p
    BY <1>1, FiledLists DEF PollAll
  <1>3. \A c \in ToSet(s) : c.prio \in Waiting'
    <2> TAKE c \in ToSet(s)
    <2>1. PICK k \in DOMAIN s : c = s[k]
      BY DEF ToSet
    <2>2. s[k] \in Request
      BY <1>1
    <2>3. s[k].prio \in Priorities
      BY <2>2 DEF Request
    <2> QED
      BY <1>2, <2>1, <2>3 DEF Waiting
  <1>4. Waiting \subseteq Waiting'
    BY <1>2 DEF Waiting
  <1>5. /\ skipList' = skipList \cup {c.prio : c \in ToSet(s)}
        /\ UNCHANGED <<policy, iter, iterPrev, priority>>
    BY DEF PollAll, config
  <1> HIDE DEF s
  <1> QED
    BY <1>3, <1>4, <1>5 DEF Sound, SetExact

\* The ring, one slot on.
LEMMA RingSound ==
  ASSUME Sound, PollToRing \/ PickInOrder
  PROVE  RingExact' /\ NoFailure'
  <1>1. /\ policy = "inorder" /\ UNCHANGED <<policy, aligned>>
        /\ Typed /\ RingExact
    BY DEF PollToRing, PickInOrder, config, Sound
  <1>2. /\ head \in 0 .. BuffersPerQ - 1 /\ tail \in 0 .. BuffersPerQ - 1
        /\ ring \in [0 .. BuffersPerQ - 1 -> Buffers \cup {None}]
    BY <1>1 DEF Typed
  <1>3. ASSUME ~aligned
        PROVE  RingExact' /\ NoFailure'
    BY <1>1, <1>3 DEF RingExact, NoFailure
  <1>4. ASSUME aligned, PollToRing
        PROVE  RingExact' /\ NoFailure'
    <2>1. /\ size \in 0 .. BuffersPerQ /\ head = Slot(tail, size)
          /\ \A j \in 1 .. size : ring[Slot(tail, j)] # None
      BY <1>1, <1>4 DEF RingExact
    <2>2. NoFailure' /\ tail' = tail
      BY <1>4 DEF PollToRing, NoFailure
    <2>3. CASE head = tail /\ size = BuffersPerQ
      <3>1. UNCHANGED <<ring, head, size>>
        BY <1>4, <2>3 DEF PollToRing
      <3>2. size' > 0
        BY <2>3, <3>1, Sizes
      <3> QED
        BY <2>1, <2>2, <3>1, <3>2 DEF RingExact
    <2>4. CASE ~(head = tail /\ size = BuffersPerQ)
      <3> DEFINE h == NextSlot(head)
                 b == Head(cq[offset]).buf
      <3>1. size < BuffersPerQ
        BY <1>2, <2>1, <2>4, Sizes DEF Slot
      <3>2. head' = h /\ ring' = [ring EXCEPT ![h] = b] /\ size' = size + 1
        BY <1>4, <2>4 DEF PollToRing
      <3>3. size' \in 0 .. BuffersPerQ /\ size' > 0
        BY <2>1, <3>1, <3>2, Sizes
      <3>4. h = Slot(tail, size + 1) /\ h \in 0 .. BuffersPerQ - 1
        BY <1>2, <2>1, <3>1, Sizes DEF Slot, NextSlot
      <3>5. b # None
        <4>1. cq[offset] \in Seq(Request) /\ cq[offset] # <<>>
          BY <1>1, <1>4 DEF Typed, PollToRing
        <4>2. Head(cq[offset]) \in Request
          BY <4>1
        <4>3. b \in Buffers
          BY <4>2 DEF Request
        <4> QED
          BY <4>3, Sizes DEF Buffers, None
      <3> HIDE DEF h, b
      <3>6. \A j \in 1 .. size + 1 : ring'[Slot(tail, j)] # None
        <4> TAKE j \in 1 .. size + 1
        <4>1. CASE j = size + 1
          BY <1>2, <3>2, <3>4, <3>5, <4>1
        <4>2. CASE j # size + 1
          <5>1. j \in 1 .. size /\ Slot(tail, j) \in 0 .. BuffersPerQ - 1
            BY <1>2, <2>1, <3>1, <4>2, Sizes DEF Slot
          <5> QED
            BY <1>2, <2>1, <3>2, <3>5, <5>1
        <4> QED
          BY <4>1, <4>2
      <3> QED
        BY <2>2, <3>2, <3>3, <3>4, <3>6 DEF RingExact
    <2> QED
      BY <2>3, <2>4
  <1>5. ASSUME aligned, PickInOrder
        PROVE  RingExact' /\ NoFailure'
    <2>1. /\ size \in 0 .. BuffersPerQ /\ head = Slot(tail, size) /\ size > 0
          /\ \A j \in 1 .. size : ring[Slot(tail, j)] # None
      BY <1>1, <1>5 DEF RingExact, PickInOrder
    <2>2. tail' = NextSlot(tail) /\ size' = size - 1 /\ UNCHANGED <<ring, head>>
      BY <1>5 DEF PickInOrder, ReadSlot
    <2>3. NextSlot(tail) = Slot(tail, 1) /\ 1 \in 1 .. size
      BY <1>2, <2>1, Sizes DEF Slot, NextSlot
    <2>4. ring[tail'] # None
      BY <2>1, <2>2, <2>3
    <2>5. pc' = "serve"
      BY <1>5, <2>4 DEF PickInOrder
    <2>6. \A j \in 0 .. size - 1 : Slot(NextSlot(tail), j) = Slot(tail, j + 1)
      BY <1>2, <2>1, Sizes DEF Slot, NextSlot
    <2>7. head = Slot(NextSlot(tail), size - 1)
      <3>1. size - 1 \in 0 .. size - 1 /\ (size - 1) + 1 = size
        BY <2>1, Sizes
      <3> QED
        BY <2>1, <2>6, <3>1
    <2>8. \A j \in 1 .. size - 1 : ring[Slot(NextSlot(tail), j)] # None
      <3> TAKE j \in 1 .. size - 1
      <3>1. j \in 0 .. size - 1 /\ j + 1 \in 1 .. size
        BY <2>1, Sizes
      <3> QED
        BY <2>1, <2>6, <3>1
    <2>9. size' \in 0 .. BuffersPerQ
      BY <2>1, <2>2, Sizes
    <2> QED
      BY <2>2, <2>5, <2>7, <2>8, <2>9 DEF RingExact, NoFailure
  <1> QED
    BY <1>3, <1>4, <1>5

LEMMA SoundNext == Sound /\ [Next]_vars => Sound'
  <1> SUFFICES ASSUME Sound, [Next]_vars
               PROVE  Sound'
    OBVIOUS
  <1>1. Typed' /\ Typed /\ SetExact /\ RingExact /\ NoFailure
    BY TypedNext DEF Sound
  <1>2. (policy # "inorder" => aligned)' /\ UNCHANGED <<policy, aligned>>
    BY DEF Sound, Next, Thread, Pick, Failed, Arrive, PollAll, PollOne, PollSent, PollNone,
       PollToRing, PickStrict, PickRoundRobin, PickWeighted, PickInOrder, Serve, config, vars
  <1>3. ASSUME UNCHANGED prioVars
        PROVE  SetExact'
    BY <1>1, <1>2, <1>3 DEF SetExact, Waiting, prioVars
  <1>4. ASSUME UNCHANGED ringVars, pc' # "process"
        PROVE  RingExact'
    BY <1>1, <1>2, <1>4 DEF RingExact, ringVars
  <1>5. ASSUME policy # "inorder"
        PROVE  RingExact'
    BY <1>2, <1>5 DEF RingExact
  <1>6. ASSUME pc' # "failed"
        PROVE  NoFailure'
    BY <1>6 DEF NoFailure
  <1>7. CASE \E b \in Buffers, p \in Priorities : Arrive(b, p)
    <2>1. UNCHANGED <<prioVars, ringVars, pc>>
      BY <1>7 DEF Arrive
    <2> QED
      BY <1>1, <1>2, <1>3, <2>1 DEF Sound, RingExact, ringVars, NoFailure
  <1>8. CASE PollAll
    BY <1>1, <1>2, <1>5, <1>6, <1>8, PollAllSound DEF Sound, PollAll, ByPriority
  <1>9. CASE PollOne \/ PollSent \/ PollNone
    BY <1>1, <1>2, <1>3, <1>4, <1>6, <1>9 DEF Sound, PollOne, PollSent, PollNone
  <1>10. CASE PollToRing \/ PickInOrder
    <2>1. UNCHANGED prioVars
      BY <1>10 DEF PollToRing, PickInOrder
    <2> QED
      BY <1>1, <1>2, <1>3, <1>10, <2>1, RingSound DEF Sound
  <1>11. CASE PickStrict
    <2>1. policy = "strict" /\ skipList # {} /\ skipList \subseteq Waiting
          /\ skipList \subseteq Priorities /\ metaCQ \in [Priorities -> Seq(Buffers)]
      BY <1>1, <1>11 DEF PickStrict, Typed, SetExact
    <2> DEFINE p == First(skipList)
    <2>2. p \in skipList /\ p \in Priorities /\ metaCQ[p] # <<>>
      BY <2>1, FirstIsLeast DEF Waiting
    <2>3. /\ TakeFront(p)
          /\ skipList' = IF metaCQ'[p] = <<>> THEN skipList \ {p} ELSE skipList
      BY <1>11 DEF PickStrict
    <2> HIDE DEF p
    <2>4. metaCQ' = [metaCQ EXCEPT ![p] = Tail(@)] /\ pc' = "serve"
      BY <2>2, <2>3 DEF TakeFront
    <2>5. skipList' \subseteq Waiting'
      BY <2>1, <2>2, <2>3, <2>4 DEF Waiting
    <2>6. SetExact'
      BY <1>2, <2>1, <2>5 DEF SetExact
    <2> QED
      BY <1>1, <1>2, <1>5, <1>6, <2>1, <2>4, <2>6 DEF Sound
  <1>12. CASE PickRoundRobin \/ PickWeighted
    BY <1>1, <1>2, <1>5, <1>6, <1>12, RotationSound DEF Sound, PickRoundRobin, PickWeighted
  <1>13. CASE \E signaled \in BOOLEAN : Serve(signaled)
    BY <1>1, <1>2, <1>3, <1>4, <1>6, <1>13 DEF Sound, Serve
  <1>14. CASE UNCHANGED vars
    <2>1. UNCHANGED <<prioVars, ringVars, pc>>
      BY <1>14 DEF vars
    <2> QED
      BY <1>1, <1>2, <1>3, <2>1 DEF Sound, RingExact, ringVars, NoFailure
  <1> QED
    BY <1>7, <1>8, <1>9, <1>10, <1>11, <1>12, <1>13, <1>14 DEF Next, Thread, Pick, Failed

\* No policy serves from an empty list (the assert before every front()), dereferences
\* an iterator it has erased or reads a slot of the ring that was not written; the one
\* exception are the uninitialised indices of PROCESS_IN_ORDER, when they start apart.
THEOREM NoFailureCorrect == Spec => []NoFailure
  <1>1. Sound => NoFailure
    BY DEF Sound
  <1> QED
    BY <1>1, SoundInit, SoundNext, PTL DEF Spec

-----------------------------------------------------------------------------
(* Every receive is in one place. *)

\* Completions s name buffer b, and do so once.
CqHas(s, b) == \E i \in DOMAIN s : s[i].buf = b
CqOnce(s, b) == \A i, j \in DOMAIN s : s[i].buf = b /\ s[j].buf = b => i = j

\* The same for the lists of waiting requests.
MetaHas(m, b) == \E p \in Priorities : \E i \in DOMAIN m[p] : m[p][i] = b
MetaOnce(m, b) ==
  \A p, r \in Priorities : \A i \in DOMAIN m[p], j \in DOMAIN m[r] :
    m[p][i] = b /\ m[r][j] = b => p = r /\ i = j

\* The same for the n slots of ring r that follow t.
RingHas(r, t, n, b) == \E j \in 1 .. n : r[Slot(t, j)] = b
RingOnce(r, t, n, b) ==
  \A i, j \in 1 .. n : r[Slot(t, i)] = b /\ r[Slot(t, j)] = b => i = j

\* Exactly one of five statements.
OneOf(A, B, C, D, E) ==
  /\ A \/ B \/ C \/ D \/ E
  /\ ~(A /\ B) /\ ~(A /\ C) /\ ~(A /\ D) /\ ~(A /\ E) /\ ~(B /\ C)
  /\ ~(B /\ D) /\ ~(B /\ E) /\ ~(C /\ D) /\ ~(C /\ E) /\ ~(D /\ E)

LEMMA CqAppend ==
  ASSUME NEW T, NEW s \in Seq(T), NEW c \in T, NEW b
  PROVE  /\ CqHas(Append(s, c), b) <=> CqHas(s, b) \/ c.buf = b
         /\ CqOnce(s, b) /\ ~(CqHas(s, b) /\ c.buf = b) => CqOnce(Append(s, c), b)
  <1> DEFINE u == Append(s, c)
             n == Len(s)
  <1>1. n \in Nat /\ DOMAIN s = 1 .. n /\ DOMAIN u = 1 .. n + 1
    OBVIOUS
  <1>2. u[n + 1] = c /\ \A i \in 1 .. n : u[i] = s[i]
    OBVIOUS
  <1> HIDE DEF u, n
  <1>3. \A i : i \in 1 .. n + 1 <=> i \in 1 .. n \/ i = n + 1
    BY <1>1
  <1>4. CqHas(u, b) <=> CqHas(s, b) \/ c.buf = b
    BY <1>1, <1>2, <1>3 DEF CqHas
  <1>5. ASSUME CqOnce(s, b), ~(CqHas(s, b) /\ c.buf = b)
        PROVE  CqOnce(u, b)
    BY <1>1, <1>2, <1>3, <1>5 DEF CqOnce, CqHas
  <1> QED
    BY <1>4, <1>5 DEF u

LEMMA CqTail ==
  ASSUME NEW T, NEW s \in Seq(T), s # <<>>, NEW b, CqOnce(s, b)
  PROVE  /\ CqHas(Tail(s), b) <=> CqHas(s, b) /\ Head(s).buf # b
         /\ CqOnce(Tail(s), b)
  <1> DEFINE u == Tail(s)
             n == Len(s)
  <1>1. n \in Nat /\ n > 0 /\ DOMAIN s = 1 .. n /\ DOMAIN u = 1 .. n - 1
    OBVIOUS
  <1>2. Head(s) = s[1] /\ \A i \in 1 .. n - 1 : u[i] = s[i + 1]
    OBVIOUS
  <1> HIDE DEF u, n
  <1>3. \A i \in 1 .. n - 1 : i + 1 \in 1 .. n /\ i + 1 # 1
    BY <1>1
  <1>4. \A i \in 1 .. n : i # 1 => i - 1 \in 1 .. n - 1 /\ (i - 1) + 1 = i
    BY <1>1
  <1>5. 1 \in 1 .. n
    BY <1>1
  <1>6. CqHas(u, b) => CqHas(s, b) /\ Head(s).buf # b
    BY <1>1, <1>2, <1>3, <1>5 DEF CqHas, CqOnce
  <1>7. CqHas(s, b) /\ Head(s).buf # b => CqHas(u, b)
    <2> SUFFICES ASSUME NEW i \in 1 .. n, s[i].buf = b, s[1].buf # b
                 PROVE  CqHas(u, b)
      BY <1>1, <1>2 DEF CqHas
    <2>1. i - 1 \in 1 .. n - 1 /\ u[i - 1] = s[i]
      BY <1>2, <1>4
    <2> QED
      BY <1>1, <2>1 DEF CqHas
  <1>8. CqOnce(u, b)
    <2> SUFFICES ASSUME NEW i \in 1 .. n - 1, NEW j \in 1 .. n - 1, u[i].buf = b, u[j].buf = b
                 PROVE  i = j
      BY <1>1 DEF CqOnce
    <2>1. i + 1 = j + 1
      BY <1>1, <1>2, <1>3 DEF CqOnce
    <2> QED
      BY <1>1, <2>1
  <1> QED
    BY <1>6, <1>7, <1>8 DEF u

LEMMA MetaAppend ==
  ASSUME NEW m \in [Priorities -> Seq(Buffers)], NEW p \in Priorities, NEW x \in Buffers,
         NEW b
  PROVE  LET f == [m EXCEPT ![p] = Append(@, x)] IN
         /\ MetaHas(f, b) <=> MetaHas(m, b) \/ x = b
         /\ MetaOnce(m, b) /\ ~(MetaHas(m, b) /\ x = b) => MetaOnce(f, b)
  <1> DEFINE f == [m EXCEPT ![p] = Append(@, x)]
             n == Len(m[p])
  <1>1. /\ n \in Nat /\ DOMAIN m[p] = 1 .. n /\ m[p] \in Seq(Buffers)
        /\ f[p] = Append(m[p], x)
    OBVIOUS
  <1>2. \A r \in Priorities : r # p => f[r] = m[r]
    OBVIOUS
  <1> HIDE DEF f
  <1>3. DOMAIN f[p] = 1 .. n + 1 /\ f[p][n + 1] = x /\ \A i \in 1 .. n : f[p][i] = m[p][i]
    BY <1>1
  <1> HIDE DEF n
  <1>4. \A i : i \in 1 .. n + 1 <=> i \in 1 .. n \/ i = n + 1
    BY <1>1
  <1>5. MetaHas(f, b) => MetaHas(m, b) \/ x = b
    BY <1>1, <1>2, <1>3, <1>4 DEF MetaHas
  <1>6. MetaHas(m, b) => MetaHas(f, b)
    BY <1>1, <1>2, <1>3, <1>4 DEF MetaHas
  <1>7. x = b => MetaHas(f, b)
    BY <1>3, <1>4 DEF MetaHas
  <1>8. ASSUME MetaOnce(m, b), ~(MetaHas(m, b) /\ x = b)
        PROVE  MetaOnce(f, b)
    <2> SUFFICES ASSUME NEW q \in Priorities, NEW r \in Priorities,
                        NEW i \in DOMAIN f[q], NEW j \in DOMAIN f[r], f[q][i] = b, f[r][j] = b
                 PROVE  q = r /\ i = j
      BY DEF MetaOnce
    <2>1. CASE x = b
      <3>1. \A k \in Priorities : \A l \in DOMAIN m[k] : m[k][l] # b
        BY <1>8, <2>1 DEF MetaHas
      <3>2. q = p /\ r = p
        BY <1>2, <3>1
      <3>3. i = n + 1 /\ j = n + 1
        BY <1>1, <1>3, <1>4, <3>1, <3>2
      <3> QED
        BY <3>2, <3>3
    <2>2. CASE x # b
      <3>1. i \in DOMAIN m[q] /\ m[q][i] = b
        BY <1>1, <1>2, <1>3, <1>4, <2>2
      <3>2. j \in DOMAIN m[r] /\ m[r][j] = b
        BY <1>1, <1>2, <1>3, <1>4, <2>2
      <3> QED
        BY <1>8, <3>1, <3>2 DEF MetaOnce
    <2> QED
      BY <2>1, <2>2
  <1> QED
    BY <1>5, <1>6, <1>7, <1>8 DEF f

LEMMA MetaTail ==
  ASSUME NEW m \in [Priorities -> Seq(Buffers)], NEW p \in Priorities, m[p] # <<>>, NEW b,
         MetaOnce(m, b)
  PROVE  LET f == [m EXCEPT ![p] = Tail(@)] IN
         /\ MetaHas(f, b) <=> MetaHas(m, b) /\ Head(m[p]) # b
         /\ MetaOnce(f, b)
  <1> DEFINE f == [m EXCEPT ![p] = Tail(@)]
             n == Len(m[p])
  <1>1. /\ n \in Nat /\ n > 0 /\ DOMAIN m[p] = 1 .. n /\ m[p] \in Seq(Buffers)
        /\ f[p] = Tail(m[p])
    OBVIOUS
  <1>2. \A r \in Priorities : r # p => f[r] = m[r]
    OBVIOUS
  <1> HIDE DEF f
  <1>3. /\ DOMAIN f[p] = 1 .. n - 1 /\ Head(m[p]) = m[p][1]
        /\ \A i \in 1 .. n - 1 : f[p][i] = m[p][i + 1]
    BY <1>1
  <1> HIDE DEF n
  <1>4. \A i \in 1 .. n - 1 : i + 1 \in 1 .. n /\ i + 1 # 1
    BY <1>1
  <1>5. \A i \in 1 .. n : i # 1 => i - 1 \in 1 .. n - 1 /\ (i - 1) + 1 = i
    BY <1>1
  <1>6. 1 \in 1 .. n
    BY <1>1
  <1> DEFINE Old(r, i) == IF r = p THEN i + 1 ELSE i
  <1>7. ASSUME NEW r \in Priorities, NEW i \in DOMAIN f[r]
        PROVE  /\ Old(r, i) \in DOMAIN m[r] /\ f[r][i] = m[r][Old(r, i)]
               /\ ~(r = p /\ Old(r, i) = 1)
    BY <1>1, <1>2, <1>3, <1>4
  <1>8. MetaHas(f, b) => MetaHas(m, b) /\ Head(m[p]) # b
    <2> SUFFICES ASSUME NEW r \in Priorities, NEW i \in DOMAIN f[r], f[r][i] = b
                 PROVE  MetaHas(m, b) /\ Head(m[p]) # b
      BY DEF MetaHas
    <2>1. Old(r, i) \in DOMAIN m[r] /\ m[r][Old(r, i)] = b /\ ~(r = p /\ Old(r, i) = 1)
      BY <1>7
    <2> HIDE DEF Old
    <2>2. m[p][1] # b
      BY <1>1, <1>6, <2>1 DEF MetaOnce
    <2> QED
      BY <1>3, <2>1, <2>2 DEF MetaHas
  <1>9. MetaHas(m, b) /\ Head(m[p]) # b => MetaHas(f, b)
    <2> SUFFICES ASSUME NEW r \in Priorities, NEW i \in DOMAIN m[r], m[r][i] = b, m[p][1] # b
                 PROVE  MetaHas(f, b)
      BY <1>3 DEF MetaHas
    <2>1. CASE r = p
      <3>1. i - 1 \in DOMAIN f[p] /\ f[p][i - 1] = b
        BY <1>1, <1>3, <1>5, <2>1
      <3> QED
        BY <3>1 DEF MetaHas
    <2>2. CASE r # p
      BY <1>2, <2>2 DEF MetaHas
    <2> QED
      BY <2>1, <2>2
  <1>10. MetaOnce(f, b)
    <2> SUFFICES ASSUME NEW q \in Priorities, NEW r \in Priorities,
                        NEW i \in DOMAIN f[q], NEW j \in DOMAIN f[r], f[q][i] = b, f[r][j] = b
                 PROVE  q = r /\ i = j
      BY DEF MetaOnce
    <2>1. Old(q, i) \in DOMAIN m[q] /\ m[q][Old(q, i)] = b
      BY <1>7
    <2>2. Old(r, j) \in DOMAIN m[r] /\ m[r][Old(r, j)] = b
      BY <1>7
    <2>3. q = r /\ Old(q, i) = Old(r, j)
      <3> HIDE DEF Old
      <3> QED
        BY <2>1, <2>2 DEF MetaOnce
    <2>4. q = p => i \in Int /\ j \in Int
      BY <1>1, <1>3, <2>3
    <2> QED
      BY <2>3, <2>4
  <1> QED
    BY <1>8, <1>9, <1>10 DEF f

\* Filing a poll puts each of its requests into one list.
LEMMA FiledOnce ==
  ASSUME NEW lists \in [Priorities -> Seq(Buffers)], NEW s \in Seq(Request), NEW b \in Buffers,
         MetaOnce(lists, b), CqOnce(s, b), ~(MetaHas(lists, b) /\ CqHas(s, b))
  PROVE  /\ MetaHas(Filed(lists, s), b) <=> MetaHas(lists, b) \/ CqHas(s, b)
         /\ MetaOnce(Filed(lists, s), b)
  <1> DEFINE n == Len(s)
             F == CHOOSE f : FiledUpTo(f, lists, s, n)
  <1>1. n \in Nat /\ DOMAIN s = 1 .. n
    OBVIOUS
  <1>2. FiledUpTo(F, lists, s, n)
    BY <1>1, FilingDefined
  <1>3. Filed(lists, s) = F[n]
    BY DEF Filed, FiledUpTo
  <1>4. \A i \in 0 .. n : F[i] = IF i = 0 THEN lists
                                 ELSE [F[i - 1] EXCEPT ![s[i].prio] = Append(@, s[i].buf)]
    BY <1>2 DEF FiledUpTo
  <1> HIDE DEF F
  <1> DEFINE Right(i) ==
        /\ F[i] \in [Priorities -> Seq(Buffers)]
        /\ MetaHas(F[i], b) <=> MetaHas(lists, b) \/ \E k \in 1 .. i : s[k].buf = b
        /\ MetaOnce(F[i], b)
      Bad == {i \in Nat : i <= n /\ ~Right(i)}
  <1>5. Right(0)
    <2>1. F[0] = lists
      <3>1. 0 \in 0 .. n
        BY <1>1
      <3> QED
        BY <1>4, <3>1
    <2>2. ~\E k : k \in 1 .. 0
      OBVIOUS
    <2> QED
      BY <2>1, <2>2
  <1>6. ASSUME NEW i \in 1 .. n, Right(i - 1)
        PROVE  Right(i)
    <2>1. s[i].prio \in Priorities /\ s[i].buf \in Buffers
      <3>1. s[i] \in Request
        BY <1>1
      <3> QED
        BY <3>1 DEF Request
    <2> DEFINE l == F[i - 1]
               p == s[i].prio
               x == s[i].buf
    <2>2. F[i] = [l EXCEPT ![p] = Append(@, x)]
      <3>1. i \in 0 .. n /\ i # 0
        BY <1>1
      <3> QED
        BY <1>4, <3>1
    <2>3. l \in [Priorities -> Seq(Buffers)] /\ MetaOnce(l, b)
      BY <1>6
    <2>4. MetaHas(l, b) <=> MetaHas(lists, b) \/ \E k \in 1 .. i - 1 : s[k].buf = b
      BY <1>6
    <2> HIDE DEF l
    <2>5. F[i] \in [Priorities -> Seq(Buffers)]
      BY <2>1, <2>2, <2>3
    <2>6. \A k \in 1 .. i - 1 : k \in 1 .. n /\ k # i
      BY <1>1
    <2>7. ~(MetaHas(l, b) /\ x = b)
      <3> SUFFICES ASSUME MetaHas(l, b), x = b
                   PROVE  FALSE
        OBVIOUS
      <3>1. CqHas(s, b)
        BY <1>1 DEF CqHas
      <3>2. PICK k \in 1 .. i - 1 : s[k].buf = b
        BY <2>4, <3>1
      <3> QED
        BY <1>1, <2>6, <3>2 DEF CqOnce
    <2>8. p \in Priorities /\ x \in Buffers
      BY <2>1
    <2> HIDE DEF p, x
    <2> DEFINE g == [l EXCEPT ![p] = Append(@, x)]
    <2>9. /\ MetaHas(g, b) <=> MetaHas(l, b) \/ x = b
          /\ MetaOnce(l, b) /\ ~(MetaHas(l, b) /\ x = b) => MetaOnce(g, b)
      BY <2>3, <2>8, MetaAppend
    <2> HIDE DEF g
    <2>10. /\ MetaHas(F[i], b) <=> MetaHas(l, b) \/ x = b
           /\ MetaOnce(F[i], b)
      BY <2>2, <2>3, <2>7, <2>9 DEF g
    <2>11. \A k : k \in 1 .. i <=> k \in 1 .. i - 1 \/ k = i
      BY <1>1
    <2> QED
      BY <2>4, <2>5, <2>10, <2>11 DEF x
  <1>7. Bad = {}
    <2> SUFFICES ASSUME Bad # {}
                 PROVE  FALSE
      OBVIOUS
    <2> HIDE DEF Right
    <2>1. PICK m \in Bad : \A k \in Bad : m <= k
      BY LeastElement
    <2>2. m \in Nat /\ m <= n /\ m # 0 /\ ~Right(m)
      BY <1>5
    <2>3. m - 1 \in Nat /\ m - 1 <= n /\ m - 1 \notin Bad
      BY <1>1, <2>1, <2>2
    <2>4. m \in 1 .. n /\ Right(m - 1)
      BY <1>1, <2>2, <2>3
    <2> QED
      BY <1>6, <2>2, <2>4
  <1>8. Right(n)
    <2> HIDE DEF Right
    <2> QED
      BY <1>1, <1>7
  <1> QED
    BY <1>1, <1>3, <1>8 DEF CqHas

\* The ring, written at its end and read at its start.
LEMMA RingWrite ==
  ASSUME NEW S, NEW r \in [0 .. BuffersPerQ - 1 -> S], NEW t \in 0 .. BuffersPerQ - 1,
         NEW n \in 0 .. BuffersPerQ, n < BuffersPerQ, NEW x \in S, NEW b
  PROVE  LET f == [r EXCEPT ![Slot(t, n + 1)] = x] IN
         /\ RingHas(f, t, n + 1, b) <=> RingHas(r, t, n, b) \/ x = b
         /\ RingOnce(r, t, n, b) /\ ~(RingHas(r, t, n, b) /\ x = b) => RingOnce(f, t, n + 1, b)
  <1> DEFINE f == [r EXCEPT ![Slot(t, n + 1)] = x]
  <1>1. \A j \in 1 .. n + 1 : Slot(t, j) \in 0 .. BuffersPerQ - 1
    BY Sizes DEF Slot
  <1>2. \A j \in 1 .. n : Slot(t, j) # Slot(t, n + 1)
    BY Sizes DEF Slot
  <1>3. \A j : j \in 1 .. n + 1 <=> j \in 1 .. n \/ j = n + 1
    BY Sizes
  <1>4. f[Slot(t, n + 1)] = x /\ \A j \in 1 .. n : f[Slot(t, j)] = r[Slot(t, j)]
    BY <1>1, <1>2, <1>3
  <1> HIDE DEF f
  <1>5. RingHas(f, t, n + 1, b) <=> RingHas(r, t, n, b) \/ x = b
    BY <1>3, <1>4 DEF RingHas
  <1>6. ASSUME RingOnce(r, t, n, b), ~(RingHas(r, t, n, b) /\ x = b)
        PROVE  RingOnce(f, t, n + 1, b)
    BY <1>3, <1>4, <1>6 DEF RingHas, RingOnce
  <1> QED
    BY <1>5, <1>6 DEF f

LEMMA RingRead ==
  ASSUME NEW r, NEW t \in 0 .. BuffersPerQ - 1, NEW n \in 1 .. BuffersPerQ, NEW b,
         RingOnce(r, t, n, b)
  PROVE  /\ RingHas(r, NextSlot(t), n - 1, b) <=> RingHas(r, t, n, b) /\ r[NextSlot(t)] # b
         /\ RingOnce(r, NextSlot(t), n - 1, b)
  <1> DEFINE u == NextSlot(t)
  <1>1. \A j \in 1 .. n - 1 : j + 1 \in 1 .. n /\ j + 1 # 1 /\ Slot(u, j) = Slot(t, j + 1)
    BY Sizes DEF Slot, NextSlot
  <1>2. \A j \in 1 .. n : j # 1 => j - 1 \in 1 .. n - 1 /\ Slot(u, j - 1) = Slot(t, j)
    BY Sizes DEF Slot, NextSlot
  <1>3. 1 \in 1 .. n /\ u = Slot(t, 1)
    BY Sizes DEF Slot, NextSlot
  <1> HIDE DEF u
  <1>4. RingHas(r, u, n - 1, b) => RingHas(r, t, n, b) /\ r[u] # b
    BY <1>1, <1>3 DEF RingHas, RingOnce
  <1>5. RingHas(r, t, n, b) /\ r[u] # b => RingHas(r, u, n - 1, b)
    <2> SUFFICES ASSUME NEW j \in 1 .. n, r[Slot(t, j)] = b, r[u] # b
                 PROVE  RingHas(r, u, n - 1, b)
      BY DEF RingHas
    <2>1. j - 1 \in 1 .. n - 1 /\ Slot(u, j - 1) = Slot(t, j)
      BY <1>2, <1>3
    <2> QED
      BY <2>1 DEF RingHas
  <1>6. RingOnce(r, u, n - 1, b)
    <2> SUFFICES ASSUME NEW i \in 1 .. n - 1, NEW j \in 1 .. n - 1,
                        r[Slot(u, i)] = b, r[Slot(u, j)] = b
                 PROVE  i = j
      BY DEF RingOnce
    <2>1. i + 1 = j + 1
      BY <1>1 DEF RingOnce
    <2> QED
      BY <2>1, Sizes
  <1> QED
    BY <1>4, <1>5, <1>6 DEF u

\* Buffer b is posted, completed, filed, in the ring or in service, and only once.
InOnePlace(b) ==
  /\ CqOnce(cq[Owner(b)], b) /\ MetaOnce(metaCQ, b) /\ RingOnce(ring, tail, size, b)
  /\ OneOf(b \in posted, CqHas(cq[Owner(b)], b), MetaHas(metaCQ, b),
           RingHas(ring, tail, size, b), cur = b)

\* A request completes on the connection that owns its buffer.
Homed ==
  \A q \in Queues : \A i \in DOMAIN cq[q] : IsRequest(cq[q][i]) => Owner(cq[q][i].buf) = q

\* The inductive invariant: completions stay with the connection of their buffer, and
\* under PROCESS_IN_ORDER so does what the ring holds, which is why it is never full
\* when another request is polled.
Placed ==
  /\ Homed
  /\ pc # "serve" => cur = None
  /\ policy # "inorder" => size = 0
  /\ (policy = "inorder" /\ aligned) =>
       \A j \in 1 .. size : Owner(ring[Slot(tail, j)]) = offset
  /\ aligned => \A b \in Buffers : InOnePlace(b)

LEMMA PlacedInit == Init => Placed
  <1> SUFFICES ASSUME Init
               PROVE  Placed
    OBVIOUS
  <1>1. /\ cq = [q \in Queues |-> <<>>] /\ metaCQ = [p \in Priorities |-> <<>>] /\ size = 0
        /\ cur = None /\ posted = Buffers
    BY DEF Init
  <1>2. ASSUME NEW b \in Buffers
        PROVE  InOnePlace(b)
    <2>1. cq[Owner(b)] = <<>>
      BY <1>1, OwnerInRange
    <2>2. CqOnce(<<>>, b) /\ ~CqHas(<<>>, b)
      BY DEF CqOnce, CqHas
    <2>3. MetaOnce(metaCQ, b) /\ ~MetaHas(metaCQ, b)
      BY <1>1 DEF MetaOnce, MetaHas
    <2>4. RingOnce(ring, tail, 0, b) /\ ~RingHas(ring, tail, 0, b)
      BY DEF RingOnce, RingHas
    <2>5. cur # b /\ b \in posted
      BY <1>1, Sizes DEF Buffers, None
    <2> QED
      BY <1>1, <2>1, <2>2, <2>3, <2>4, <2>5 DEF InOnePlace, OneOf
  <1>3. \A q \in Queues : \A i \in DOMAIN cq[q] : FALSE
    BY <1>1
  <1>4. \A j \in 1 .. size : FALSE
    BY <1>1
  <1> QED
    BY <1>1, <1>2, <1>3, <1>4 DEF Placed, Homed

\* What Placed says of the completions of a connection.
LEMMA CqNames ==
  ASSUME Homed, NEW q \in Queues, NEW b \in Buffers, CqHas(cq[q], b)
  PROVE  Owner(b) = q
  <1>1. PICK i \in DOMAIN cq[q] : cq[q][i].buf = b
    BY DEF CqHas
  <1>2. cq[q][i] # Sent
    BY <1>1, Sizes DEF Sent, Buffers, None
  <1> QED
    BY <1>1, <1>2 DEF Homed, IsRequest

\* The receives of a connection are as many as it has buffers, so a ring that is full
\* leaves none to complete.
LEMMA RingHasRoom ==
  ASSUME Sound, Placed, policy = "inorder", aligned, cq[offset] # <<>>
  PROVE  size < BuffersPerQ
  <1>1. /\ tail \in 0 .. BuffersPerQ - 1 /\ offset \in Queues
        /\ ring \in [0 .. BuffersPerQ - 1 -> Buffers \cup {None}]
        /\ cq[offset] \in Seq(Request)
    BY DEF Sound, Typed
  <1>2. size \in 0 .. BuffersPerQ /\ \A j \in 1 .. size : ring[Slot(tail, j)] # None
    BY DEF Sound, RingExact
  <1> SUFFICES ASSUME size = BuffersPerQ
               PROVE  FALSE
    BY <1>2, Sizes
  <1> DEFINE B == BuffersPerQ
             x == cq[offset][1].buf
             f == [j \in 0 .. B |-> IF j = 0 THEN x ELSE ring[Slot(tail, j)]]
             low == offset * B
             Own == low .. low + B - 1
  <1>3. x \in Buffers /\ CqHas(cq[offset], x) /\ Owner(x) = offset
    <2>1. 1 \in DOMAIN cq[offset]
      BY <1>1
    <2>2. cq[offset][1] \in Request
      BY <1>1, <2>1
    <2>3. x \in Buffers
      BY <2>2 DEF Request
    <2>4. CqHas(cq[offset], x)
      BY <2>1 DEF CqHas
    <2> QED
      BY <1>1, <2>3, <2>4, CqNames DEF Placed
  <1>4. \A j \in 1 .. B : /\ ring[Slot(tail, j)] \in Buffers
                          /\ Owner(ring[Slot(tail, j)]) = offset
    <2> TAKE j \in 1 .. B
    <2>1. Slot(tail, j) \in 0 .. BuffersPerQ - 1
      BY <1>1, Sizes DEF Slot
    <2> QED
      BY <1>1, <1>2, <2>1 DEF Placed
  <1>5. \A b \in Buffers : Owner(b) = offset => b \in Own
    <2> SUFFICES ASSUME NEW b \in Buffers, Owner(b) = offset
                 PROVE  b \in Own
      OBVIOUS
    <2>1. b \in Nat
      BY Sizes DEF Buffers
    <2>2. b \div B = offset
      BY DEF Owner
    <2>3. B * offset <= b /\ b < B * offset + B
      BY <2>1, <2>2, Sizes, Division
    <2>4. offset \in Nat /\ B * offset = low /\ low \in Nat
      BY <1>1, Sizes DEF Queues
    <2> HIDE DEF low
    <2> QED
      BY SMTT(30), <2>1, <2>3, <2>4, Sizes
  <1>6. f \in [0 .. B -> Own]
    <2> HIDE DEF Own, x
    <2> QED
      BY <1>3, <1>4, <1>5
  <1>7. \A i, j \in 0 .. B : f[i] = f[j] => i = j
    <2>1. \A i \in 1 .. B : ring[Slot(tail, i)] # x
      <3> TAKE i \in 1 .. B
      <3>1. InOnePlace(x)
        BY <1>3 DEF Placed
      <3>2. ~RingHas(ring, tail, size, x)
        BY <1>3, <3>1 DEF InOnePlace, OneOf
      <3> QED
        BY <3>2 DEF RingHas
    <2>2. \A i, j \in 1 .. B : ring[Slot(tail, i)] = ring[Slot(tail, j)] => i = j
      <3> SUFFICES ASSUME NEW i \in 1 .. B, NEW j \in 1 .. B,
                          ring[Slot(tail, i)] = ring[Slot(tail, j)]
                   PROVE  i = j
        OBVIOUS
      <3>1. InOnePlace(ring[Slot(tail, i)])
        BY <1>4 DEF Placed
      <3> QED
        BY <3>1 DEF InOnePlace, RingOnce
    <2>3. \A i \in 0 .. B : i # 0 => i \in 1 .. B
      BY Sizes
    <2> HIDE DEF x
    <2> QED
      BY <2>1, <2>2, <2>3
  <1>8. IsFiniteSet(Own) /\ Cardinality(Own) = B
    <2>1. low \in Int /\ low + B - 1 \in Int
      BY <1>1, Sizes DEF Queues
    <2> DEFINE top == low + B - 1
    <2>2. Own = low .. top
      OBVIOUS
    <2>3. top >= low /\ top - low + 1 = B
      BY <2>1, Sizes DEF low
    <2>4. low \in Int /\ top \in Int
      BY <2>1
    <2> HIDE DEF low, top
    <2>5. /\ IsFiniteSet(low .. top)
          /\ Cardinality(low .. top) = IF low > top THEN 0 ELSE top - low + 1
      BY <2>4, FS_Interval
    <2>6. ~(low > top)
      BY <2>3, <2>4
    <2> HIDE DEF Own
    <2> QED
      BY <2>2, <2>3, <2>5, <2>6
  <1>9. IsFiniteSet(0 .. B) /\ Cardinality(0 .. B) = B + 1
    BY Sizes, FS_Interval
  <1>10. f \in Injection(0 .. B, Own)
    <2> HIDE DEF f, Own
    <2> QED
      BY <1>6, <1>7 DEF Injection, IsInjective
  <1> HIDE DEF f, Own
  <1>11. Cardinality(0 .. B) <= Cardinality(Own)
    BY <1>8, <1>9, <1>10, FS_Injection DEF ExistsInjection
  <1> QED
    BY <1>8, <1>9, <1>11, Sizes

\* The oldest completion of connection q is taken.
LEMMA CqTaken ==
  ASSUME Typed, Homed, NEW q \in Queues, cq[q] # <<>>, cq' = [cq EXCEPT ![q] = Tail(@)]
  PROVE  /\ Homed'
         /\ \A b \in Buffers : CqOnce(cq[Owner(b)], b) =>
              /\ CqHas(cq'[Owner(b)], b) <=> CqHas(cq[Owner(b)], b) /\ Head(cq[q]).buf # b
              /\ CqOnce(cq'[Owner(b)], b)
  <1>1. cq \in [Queues -> Seq(Request \cup {Sent})]
    BY DEF Typed
  <1>2. cq'[q] = Tail(cq[q]) /\ \A r \in Queues : r # q => cq'[r] = cq[r]
    BY <1>1
  <1>3. Homed'
    <2> SUFFICES ASSUME NEW r \in Queues, NEW i \in DOMAIN cq'[r], IsRequest(cq'[r][i])
                 PROVE  Owner(cq'[r][i].buf) = r
      BY DEF Homed
    <2>1. CASE r = q
      <3>1. i + 1 \in DOMAIN cq[q] /\ cq'[q][i] = cq[q][i + 1]
        BY <1>1, <1>2, <2>1
      <3> QED
        BY <2>1, <3>1 DEF Homed
    <2>2. CASE r # q
      BY <1>2, <2>2 DEF Homed
    <2> QED
      BY <2>1, <2>2
  <1>4. ASSUME NEW b \in Buffers, CqOnce(cq[Owner(b)], b)
        PROVE  /\ CqHas(cq'[Owner(b)], b) <=> CqHas(cq[Owner(b)], b) /\ Head(cq[q]).buf # b
               /\ CqOnce(cq'[Owner(b)], b)
    <2>1. CASE Owner(b) = q
      <3>1. cq[q] \in Seq(Request \cup {Sent}) /\ CqOnce(cq[q], b)
        BY <1>1, <1>4, <2>1
      <3>2. /\ CqHas(Tail(cq[q]), b) <=> CqHas(cq[q], b) /\ Head(cq[q]).buf # b
            /\ CqOnce(Tail(cq[q]), b)
        BY <3>1, CqTail
      <3> QED
        BY <1>2, <2>1, <3>2
    <2>2. CASE Owner(b) # q
      <3>1. Head(cq[q]) = cq[q][1] /\ 1 \in DOMAIN cq[q]
        BY <1>1
      <3>2. Head(cq[q]).buf # b
        BY <2>2, <3>1, CqNames DEF CqHas
      <3>3. cq'[Owner(b)] = cq[Owner(b)]
        BY <1>2, <2>2, OwnerInRange
      <3> QED
        BY <1>4, <3>2, <3>3
    <2> QED
      BY <2>1, <2>2
  <1> QED
    BY <1>3, <1>4

\* Completion c is added to connection q.
LEMMA CqAdded ==
  ASSUME Typed, Homed, NEW q \in Queues, NEW c \in Request \cup {Sent},
         IsRequest(c) => Owner(c.buf) = q, cq' = [cq EXCEPT ![q] = Append(@, c)]
  PROVE  /\ Homed'
         /\ \A b \in Buffers :
              /\ CqHas(cq'[Owner(b)], b) <=> CqHas(cq[Owner(b)], b) \/ c.buf = b
              /\ CqOnce(cq[Owner(b)], b) /\ ~(CqHas(cq[Owner(b)], b) /\ c.buf = b) =>
                   CqOnce(cq'[Owner(b)], b)
  <1>1. cq \in [Queues -> Seq(Request \cup {Sent})]
    BY DEF Typed
  <1>2. cq'[q] = Append(cq[q], c) /\ \A r \in Queues : r # q => cq'[r] = cq[r]
    BY <1>1
  <1>3. Homed'
    <2> SUFFICES ASSUME NEW r \in Queues, NEW i \in DOMAIN cq'[r], IsRequest(cq'[r][i])
                 PROVE  Owner(cq'[r][i].buf) = r
      BY DEF Homed
    <2>1. CASE r = q
      <3>1. (i \in DOMAIN cq[q] /\ cq'[q][i] = cq[q][i]) \/ cq'[q][i] = c
        BY <1>1, <1>2, <2>1
      <3> QED
        BY <2>1, <3>1 DEF Homed
    <2>2. CASE r # q
      BY <1>2, <2>2 DEF Homed
    <2> QED
      BY <2>1, <2>2
  <1>4. ASSUME NEW b \in Buffers
        PROVE  /\ CqHas(cq'[Owner(b)], b) <=> CqHas(cq[Owner(b)], b) \/ c.buf = b
               /\ CqOnce(cq[Owner(b)], b) /\ ~(CqHas(cq[Owner(b)], b) /\ c.buf = b) =>
                    CqOnce(cq'[Owner(b)], b)
    <2>1. CASE Owner(b) = q
      BY <1>1, <1>2, <2>1, CqAppend
    <2>2. CASE Owner(b) # q
      <3>1. c.buf # b
        BY <2>2, Sizes DEF IsRequest, Sent, Buffers, None
      <3>2. cq'[Owner(b)] = cq[Owner(b)]
        BY <1>2, <2>2, OwnerInRange
      <3> QED
        BY <3>1, <3>2
    <2> QED
      BY <2>1, <2>2
  <1> QED
    BY <1>3, <1>4

\* A buffer goes from the completions or from the lists to the thread.
LEMMA FromCq ==
  ASSUME NEW b, NEW x, InOnePlace(b), cur = None, x = cur', b # None, b = x => CqHas(cq[Owner(b)], b),
         CqHas(cq'[Owner(b)], b) <=> CqHas(cq[Owner(b)], b) /\ x # b,
         CqOnce(cq'[Owner(b)], b), UNCHANGED <<posted, metaCQ, ring, tail, size>>
  PROVE  InOnePlace(b)'
  BY DEF InOnePlace, OneOf

LEMMA FromLists ==
  ASSUME Sound, Placed, NEW p \in Priorities, metaCQ[p] # <<>>, pc = "process",
         cur' = Head(metaCQ[p]), metaCQ' = [metaCQ EXCEPT ![p] = Tail(@)], pc' = "serve",
         UNCHANGED <<config, posted, cq, offset, ring, tail, size>>
  PROVE  Placed'
  <1>1. metaCQ \in [Priorities -> Seq(Buffers)] /\ cur = None
    BY DEF Sound, Typed, Placed
  <1>2. /\ cur' = metaCQ[p][1] /\ 1 \in DOMAIN metaCQ[p]
    BY <1>1
  <1>3. ASSUME aligned, NEW b \in Buffers
        PROVE  InOnePlace(b)'
    <2>1. InOnePlace(b) /\ b # None
      BY <1>3, Sizes DEF Placed, Buffers, None
    <2>2. MetaOnce(metaCQ, b)
      BY <2>1 DEF InOnePlace
    <2>3. /\ MetaHas(metaCQ', b) <=> MetaHas(metaCQ, b) /\ Head(metaCQ[p]) # b
          /\ MetaOnce(metaCQ', b)
      BY <1>1, <2>2, MetaTail
    <2>4. cur' = b => MetaHas(metaCQ, b)
      BY <1>2 DEF MetaHas
    <2> QED
      BY <1>1, <2>1, <2>3, <2>4 DEF InOnePlace, OneOf
  <1> QED
    BY <1>3 DEF Placed, Homed, config

LEMMA PlacedArrive ==
  ASSUME Sound, Placed, NEW b \in Buffers, NEW p \in Priorities, Arrive(b, p)
  PROVE  Placed'
  <1> DEFINE c == [buf |-> b, prio |-> p]
  <1>1. Owner(b) \in Queues /\ c \in Request /\ c.buf = b
    BY OwnerInRange DEF Request
  <1>2. /\ cq' = [cq EXCEPT ![Owner(b)] = Append(@, c)] /\ posted' = posted \ {b} /\ b \in posted
        /\ UNCHANGED <<policy, aligned, pc, cur, offset, metaCQ, ring, tail, size>>
    BY DEF Arrive, config, prioVars, ringVars
  <1> HIDE DEF c
  <1>3. /\ Homed'
        /\ \A x \in Buffers :
              /\ CqHas(cq'[Owner(x)], x) <=> CqHas(cq[Owner(x)], x) \/ c.buf = x
              /\ CqOnce(cq[Owner(x)], x) /\ ~(CqHas(cq[Owner(x)], x) /\ c.buf = x) =>
                   CqOnce(cq'[Owner(x)], x)
    <2>1. Typed /\ Homed /\ c \in Request \cup {Sent} /\ (IsRequest(c) => Owner(c.buf) = Owner(b))
      BY <1>1 DEF Sound, Placed
    <2> QED
      BY <1>1, <1>2, <2>1, CqAdded
  <1>4. ASSUME aligned, NEW x \in Buffers
        PROVE  InOnePlace(x)'
    <2>1. InOnePlace(x)
      BY <1>4 DEF Placed
    <2> QED
      BY <1>1, <1>2, <1>3, <2>1 DEF InOnePlace, OneOf
  <1> QED
    BY <1>2, <1>3, <1>4 DEF Placed

LEMMA PlacedPollOne ==
  ASSUME Sound, Placed, PollOne
  PROVE  Placed'
  <1> DEFINE x == Head(cq[offset]).buf
  <1>1. /\ cq[offset] # <<>> /\ cq' = [cq EXCEPT ![offset] = Tail(@)] /\ offset \in Queues
        /\ cur' = x /\ pc = "poll" /\ pc' = "serve" /\ policy \in ByPoll
        /\ UNCHANGED <<policy, aligned, posted, metaCQ, ring, tail, size>>
    BY DEF PollOne, config, prioVars, ringVars, Sound, Typed
  <1>2. /\ Homed'
        /\ \A b \in Buffers : CqOnce(cq[Owner(b)], b) =>
              /\ CqHas(cq'[Owner(b)], b) <=> CqHas(cq[Owner(b)], b) /\ x # b
              /\ CqOnce(cq'[Owner(b)], b)
    BY <1>1, CqTaken DEF Sound, Placed
  <1>3. CqHas(cq[offset], x)
    <2>1. Head(cq[offset]) = cq[offset][1] /\ 1 \in DOMAIN cq[offset]
      BY <1>1 DEF Sound, Typed
    <2> QED
      BY <2>1 DEF CqHas
  <1> HIDE DEF x
  <1>4. ASSUME aligned, NEW b \in Buffers
        PROVE  InOnePlace(b)'
    <2>1. InOnePlace(b) /\ cur = None /\ b # None
      BY <1>1, <1>4, Sizes DEF Placed, Buffers, None
    <2>2. b = x => CqHas(cq[Owner(b)], b)
      BY <1>1, <1>3, CqNames DEF Placed
    <2>3. CqOnce(cq[Owner(b)], b)
      BY <2>1 DEF InOnePlace
    <2> QED
      BY <1>1, <1>2, <2>1, <2>2, <2>3, FromCq
  <1>5. policy # "inorder"
    BY <1>1 DEF ByPoll
  <1> QED
    BY <1>1, <1>2, <1>4, <1>5 DEF Placed

LEMMA PlacedPollSent ==
  ASSUME Sound, Placed, PollSent
  PROVE  Placed'
  <1>1. /\ cq[offset] # <<>> /\ cq' = [cq EXCEPT ![offset] = Tail(@)] /\ offset \in Queues
        /\ Head(cq[offset]) = Sent /\ policy = "rr_poll"
        /\ UNCHANGED <<policy, aligned, pc, cur, posted, metaCQ, ring, tail, size>>
    BY DEF PollSent, config, prioVars, ringVars, Sound, Typed, IsRequest
  <1>2. /\ Homed'
        /\ \A b \in Buffers : CqOnce(cq[Owner(b)], b) =>
              /\ CqHas(cq'[Owner(b)], b) <=> CqHas(cq[Owner(b)], b) /\ Head(cq[offset]).buf # b
              /\ CqOnce(cq'[Owner(b)], b)
    BY <1>1, CqTaken DEF Sound, Placed
  <1>3. \A b \in Buffers : Head(cq[offset]).buf # b
    BY <1>1, Sizes DEF Sent, Buffers, None
  <1>4. ASSUME aligned, NEW b \in Buffers
        PROVE  InOnePlace(b)'
    <2>1. InOnePlace(b)
      BY <1>4 DEF Placed
    <2> QED
      BY <1>1, <1>2, <1>3, <2>1 DEF InOnePlace, OneOf
  <1> QED
    BY <1>1, <1>2, <1>4 DEF Placed

LEMMA PlacedPollAll ==
  ASSUME Sound, Placed, PollAll
  PROVE  Placed'
  <1> DEFINE s == cq[offset]
  <1>1. /\ s \in Seq(Request) /\ metaCQ \in [Priorities -> Seq(Buffers)] /\ offset \in Queues
        /\ cq \in [Queues -> Seq(Request \cup {Sent})]
    BY DEF Sound, Typed, PollAll, ByPriority
  <1>2. /\ metaCQ' = Filed(metaCQ, s) /\ cq' = [cq EXCEPT ![offset] = <<>>]
        /\ policy \in ByPriority /\ pc' # "serve" /\ pc # "serve"
        /\ UNCHANGED <<policy, aligned, cur, offset, posted, ring, tail, size>>
    BY DEF PollAll, config, ringVars
  <1>3. cq'[offset] = <<>> /\ \A r \in Queues : r # offset => cq'[r] = cq[r]
    BY <1>1, <1>2
  <1>4. Homed'
    BY <1>3 DEF Placed, Homed
  <1>5. ASSUME aligned, NEW b \in Buffers
        PROVE  InOnePlace(b)'
    <2>1. InOnePlace(b) /\ Owner(b) \in Queues
      BY <1>5, OwnerInRange DEF Placed
    <2>2. Owner(b) # offset => ~CqHas(s, b)
      BY <1>1, CqNames DEF Placed
    <2>3. CqOnce(s, b) /\ MetaOnce(metaCQ, b) /\ ~(MetaHas(metaCQ, b) /\ CqHas(s, b))
      BY <2>1, <2>2 DEF InOnePlace, OneOf, CqOnce, CqHas
    <2>4. /\ MetaHas(metaCQ', b) <=> MetaHas(metaCQ, b) \/ CqHas(s, b)
          /\ MetaOnce(metaCQ', b)
      BY <1>1, <1>2, <2>3, FiledOnce
    <2>5. ~CqHas(<<>>, b) /\ CqOnce(<<>>, b)
      BY DEF CqHas, CqOnce
    <2>6. CASE Owner(b) = offset
      BY <1>2, <1>3, <2>1, <2>4, <2>5, <2>6 DEF InOnePlace, OneOf
    <2>7. CASE Owner(b) # offset
      BY <1>2, <1>3, <2>1, <2>2, <2>4, <2>7 DEF InOnePlace, OneOf
    <2> QED
      BY <2>6, <2>7
  <1>6. policy # "inorder"
    BY <1>2 DEF ByPriority
  <1> QED
    BY <1>2, <1>4, <1>5, <1>6 DEF Placed

LEMMA PlacedPollToRing ==
  ASSUME Sound, Placed, PollToRing
  PROVE  Placed'
  <1> DEFINE x == Head(cq[offset]).buf
  <1>1. /\ cq[offset] # <<>> /\ cq' = [cq EXCEPT ![offset] = Tail(@)] /\ offset \in Queues
        /\ pc = "poll" /\ pc' # "serve" /\ policy = "inorder"
        /\ UNCHANGED <<policy, aligned, offset, posted, metaCQ, cur, tail>>
        /\ cq[offset] \in Seq(Request)
    BY DEF PollToRing, config, prioVars, Sound, Typed
  <1>2. /\ Homed'
        /\ \A b \in Buffers : CqOnce(cq[Owner(b)], b) =>
              /\ CqHas(cq'[Owner(b)], b) <=> CqHas(cq[Owner(b)], b) /\ x # b
              /\ CqOnce(cq'[Owner(b)], b)
    BY <1>1, CqTaken DEF Sound, Placed
  <1>3. x \in Buffers /\ CqHas(cq[offset], x)
    <2>1. Head(cq[offset]) = cq[offset][1] /\ 1 \in DOMAIN cq[offset]
      BY <1>1
    <2>2. Head(cq[offset]) \in Request
      BY <1>1
    <2> QED
      BY <2>1, <2>2 DEF CqHas, Request
  <1>4. Owner(x) = offset
    BY <1>1, <1>3, CqNames DEF Placed
  <1>5. ASSUME aligned
        PROVE  /\ size < BuffersPerQ /\ size \in 0 .. BuffersPerQ
               /\ size' = size + 1 /\ ring' = [ring EXCEPT ![Slot(tail, size + 1)] = x]
    <2>1. size < BuffersPerQ
      BY <1>1, <1>5, RingHasRoom
    <2>2. size \in 0 .. BuffersPerQ /\ head = Slot(tail, size) /\ tail \in 0 .. BuffersPerQ - 1
      BY <1>1, <1>5 DEF Sound, RingExact, Typed
    <2>3. NextSlot(head) = Slot(tail, size + 1)
      BY <2>1, <2>2, Sizes DEF NextSlot, Slot
    <2>4. /\ head' = NextSlot(head) /\ size' = size + 1
          /\ ring' = [ring EXCEPT ![head'] = x]
      BY <2>1, <2>2, Sizes DEF PollToRing
    <2> QED
      BY <2>1, <2>2, <2>3, <2>4
  <1>6. tail \in 0 .. BuffersPerQ - 1 /\ ring \in [0 .. BuffersPerQ - 1 -> Buffers \cup {None}]
    BY DEF Sound, Typed
  <1> HIDE DEF x
  <1>7. ASSUME aligned, NEW b \in Buffers
        PROVE  InOnePlace(b)'
    <2>1. InOnePlace(b)
      BY <1>7 DEF Placed
    <2>2. b = x => CqHas(cq[Owner(b)], b)
      BY <1>3, <1>4
    <2>3. /\ RingHas(ring', tail, size', b) <=> RingHas(ring, tail, size, b) \/ x = b
          /\ RingOnce(ring, tail, size, b) /\ ~(RingHas(ring, tail, size, b) /\ x = b) =>
               RingOnce(ring', tail, size', b)
      <3> DEFINE f == [ring EXCEPT ![Slot(tail, size + 1)] = x]
      <3>1. /\ RingHas(f, tail, size + 1, b) <=> RingHas(ring, tail, size, b) \/ x = b
            /\ RingOnce(ring, tail, size, b) /\ ~(RingHas(ring, tail, size, b) /\ x = b) =>
                 RingOnce(f, tail, size + 1, b)
        <4>1. x \in Buffers \cup {None} /\ size < BuffersPerQ /\ size \in 0 .. BuffersPerQ
          BY <1>3, <1>5, <1>7
        <4> QED
          BY <1>6, <4>1, RingWrite
      <3>2. ring' = f /\ size' = size + 1
        BY <1>5, <1>7
      <3> HIDE DEF f
      <3> QED
        BY <3>1, <3>2
    <2> QED
      BY <1>1, <1>2, <2>1, <2>2, <2>3 DEF InOnePlace, OneOf
  <1>8. ASSUME aligned, NEW j \in 1 .. size + 1
        PROVE  Owner(ring'[Slot(tail, j)]) = offset
    <2>1. Slot(tail, j) \in 0 .. BuffersPerQ - 1
      BY <1>5, <1>6, <1>8, Sizes DEF Slot
    <2>2. CASE j = size + 1
      BY <1>4, <1>5, <1>6, <1>8, <2>1, <2>2
    <2>3. CASE j # size + 1
      <3>1. j \in 1 .. size /\ Slot(tail, j) # Slot(tail, size + 1)
        BY <1>5, <1>6, <1>8, <2>3, Sizes DEF Slot
      <3>2. ring'[Slot(tail, j)] = ring[Slot(tail, j)]
        BY <1>5, <1>6, <1>8, <2>1, <3>1
      <3> QED
        BY <1>1, <1>8, <3>1, <3>2 DEF Placed
    <2> QED
      BY <2>2, <2>3
  <1> QED
    BY <1>1, <1>2, <1>5, <1>7, <1>8 DEF Placed

LEMMA PlacedPickInOrder ==
  ASSUME Sound, Sound', Placed, PickInOrder
  PROVE  Placed'
  <1>1. /\ policy = "inorder" /\ pc = "process"
        /\ tail' = NextSlot(tail) /\ size' = size - 1
        /\ UNCHANGED <<policy, aligned, offset, posted, metaCQ, cq, ring>>
        /\ cur = None /\ None \notin Buffers
    BY Sizes DEF PickInOrder, ReadSlot, config, prioVars, Placed, Buffers, None
  <1>2. pc' # "serve" => cur' = None
    BY <1>1 DEF PickInOrder
  <1>3. ASSUME aligned
        PROVE  /\ size \in 1 .. BuffersPerQ /\ tail \in 0 .. BuffersPerQ - 1
               /\ cur' = ring[NextSlot(tail)]
    <2>1. size \in 1 .. BuffersPerQ /\ tail \in 0 .. BuffersPerQ - 1
      BY <1>1, <1>3, Sizes DEF Sound, RingExact, Typed
    <2>2. pc' # "failed"
      BY <1>1, <1>3 DEF Sound, NoFailure
    <2> QED
      BY <1>1, <2>1, <2>2 DEF PickInOrder
  <1>4. ASSUME aligned, NEW b \in Buffers
        PROVE  InOnePlace(b)'
    <2>1. InOnePlace(b)
      BY <1>4 DEF Placed
    <2>2. RingOnce(ring, tail, size, b)
      BY <2>1 DEF InOnePlace
    <2>3. /\ RingHas(ring, tail', size', b) <=> RingHas(ring, tail, size, b) /\ cur' # b
          /\ RingOnce(ring, tail', size', b)
      BY <1>1, <1>3, <1>4, <2>2, RingRead
    <2>4. cur' = b => RingHas(ring, tail, size, b)
      <3>1. NextSlot(tail) = Slot(tail, 1) /\ 1 \in 1 .. size
        BY <1>3, <1>4, Sizes DEF NextSlot, Slot
      <3> QED
        BY <1>3, <1>4, <3>1 DEF RingHas
    <2> QED
      BY <1>1, <2>1, <2>3, <2>4 DEF InOnePlace, OneOf
  <1>5. ASSUME aligned, NEW j \in 1 .. size'
        PROVE  Owner(ring[Slot(tail', j)]) = offset
    <2>1. j + 1 \in 1 .. size /\ Slot(tail', j) = Slot(tail, j + 1)
      BY <1>1, <1>3, <1>5, Sizes DEF NextSlot, Slot
    <2> QED
      BY <1>1, <1>5, <2>1 DEF Placed
  <1> QED
    BY <1>1, <1>2, <1>4, <1>5 DEF Placed, Homed

LEMMA PlacedServe ==
  ASSUME Sound, Placed, NEW signaled \in BOOLEAN, Serve(signaled)
  PROVE  Placed'
  <1>1. /\ posted' = posted \cup {cur} /\ cur' = None /\ pc' = "poll"
        /\ UNCHANGED <<policy, aligned, offset, metaCQ, ring, tail, size>>
        /\ cur \in Buffers /\ None \notin Buffers
    BY Sizes DEF Serve, config, prioVars, ringVars, Sound, Typed, Buffers, None
  <1>2. /\ Homed'
        /\ \A b \in Buffers :
             /\ CqHas(cq'[Owner(b)], b) <=> CqHas(cq[Owner(b)], b)
             /\ CqOnce(cq[Owner(b)], b) => CqOnce(cq'[Owner(b)], b)
    <2>1. CASE signaled
      <3>1. cq' = [cq EXCEPT ![Owner(cur)] = Append(@, Sent)] /\ Owner(cur) \in Queues
        BY <1>1, <2>1, OwnerInRange DEF Serve
      <3>2. \A b \in Buffers : Sent.buf # b
        BY <1>1 DEF Sent
      <3>3. Typed /\ Homed /\ ~IsRequest(Sent) /\ Sent \in Request \cup {Sent}
        BY DEF Sound, Placed, IsRequest
      <3>4. /\ Homed'
            /\ \A b \in Buffers :
              /\ CqHas(cq'[Owner(b)], b) <=> CqHas(cq[Owner(b)], b) \/ Sent.buf = b
              /\ CqOnce(cq[Owner(b)], b) /\ ~(CqHas(cq[Owner(b)], b) /\ Sent.buf = b) =>
                   CqOnce(cq'[Owner(b)], b)
        BY <3>1, <3>3, CqAdded
      <3> QED
        BY <3>2, <3>4
    <2>2. CASE ~signaled
      <3>1. cq' = cq
        BY <2>2 DEF Serve
      <3> QED
        BY <3>1 DEF Placed, Homed
    <2> QED
      BY <2>1, <2>2
  <1>3. ASSUME aligned, NEW b \in Buffers
        PROVE  InOnePlace(b)'
    <2>1. InOnePlace(b)
      BY <1>3 DEF Placed
    <2> QED
      BY <1>1, <1>2, <2>1 DEF InOnePlace, OneOf
  <1> QED
    BY <1>1, <1>2, <1>3 DEF Placed

\* The policies that take from the lists; a rotation may find that nothing is left.
LEMMA PlacedPick ==
  ASSUME Sound, Sound', Placed, PickStrict \/ PickRoundRobin \/ PickWeighted
  PROVE  Placed'
  <1>1. /\ pc = "process" /\ policy \in ByPriority
        /\ UNCHANGED <<config, posted, cq, offset, ring, tail, size>>
    BY DEF PickStrict, PickRoundRobin, PickWeighted, ringVars, ByPriority
  <1>2. pc' # "failed"
    BY <1>1 DEF Sound, NoFailure, config, ByPriority
  <1>3. ASSUME NEW p \in Priorities, TakeFront(p)
        PROVE  Placed'
    <2>1. metaCQ[p] # <<>>
      BY <1>2, <1>3 DEF TakeFront
    <2>2. cur' = Head(metaCQ[p]) /\ metaCQ' = [metaCQ EXCEPT ![p] = Tail(@)] /\ pc' = "serve"
      BY <1>3, <2>1 DEF TakeFront
    <2> QED
      BY <1>1, <2>1, <2>2, FromLists
  <1>4. ASSUME UNCHANGED <<cur, metaCQ>>, pc' = "poll"
        PROVE  Placed'
    <2>1. \A b \in Buffers : InOnePlace(b) => InOnePlace(b)'
      BY <1>1, <1>4 DEF InOnePlace
    <2> QED
      BY <1>1, <1>4, <2>1 DEF Placed, Homed, config
  <1>5. /\ skipList # {} /\ skipList \subseteq Priorities /\ skipList' \subseteq Priorities
    BY <1>1 DEF Sound, Typed, ByPriority
  <1>6. CASE PickStrict
    <2>1. First(skipList) \in Priorities
      BY <1>5, FirstIsLeast
    <2> QED
      BY <1>3, <1>6, <2>1 DEF PickStrict
  <1>7. ASSUME NEW i, Rotate(i)
        PROVE  Placed'
    <2>1. CASE skipList' = {}
      BY <1>4, <1>7, <2>1 DEF Rotate
    <2>2. CASE skipList' # {}
      <3>1. i \in skipList' /\ TakeFront(i)
        BY <1>2, <1>7, <2>2 DEF Rotate
      <3> QED
        BY <1>3, <1>5, <3>1
    <2> QED
      BY <2>1, <2>2
  <1>8. CASE PickRoundRobin
    BY <1>7, <1>8 DEF PickRoundRobin
  <1>9. CASE PickWeighted
    BY <1>7, <1>9 DEF PickWeighted
  <1> QED
    BY <1>6, <1>8, <1>9

LEMMA PlacedNext == Sound /\ Placed /\ [Next]_vars => Placed'
  <1> SUFFICES ASSUME Sound, Placed, [Next]_vars
               PROVE  Placed'
    OBVIOUS
  <1>1. Sound'
    BY SoundNext
  <1>2. CASE UNCHANGED <<config, posted, cq, pc, cur, prioVars, ringVars>>
    <2>1. \A b \in Buffers : InOnePlace(b) => InOnePlace(b)'
      BY <1>2 DEF InOnePlace, prioVars, ringVars
    <2>2. policy = "inorder" => offset' = offset
      BY DEF Next, Thread, Pick, Failed, Arrive, PollAll, PollOne, PollSent, PollNone,
         PollToRing, PickStrict, PickRoundRobin, PickWeighted, PickInOrder, Serve, ByPoll, vars
    <2> QED
      BY <1>2, <2>1, <2>2 DEF Placed, Homed, config, ringVars
  <1>3. CASE PollNone \/ Failed \/ UNCHANGED vars
    BY <1>2, <1>3 DEF PollNone, Failed, vars
  <1> QED
    BY <1>1, <1>3, PlacedArrive, PlacedPollAll, PlacedPollOne, PlacedPollSent, PlacedPollToRing,
       PlacedPick, PlacedPickInOrder, PlacedServe DEF Next, Thread, Pick

\* The slots of Listed are those of the invariant.
LEMMA SlotIsRemainder ==
  ASSUME NEW t \in 0 .. BuffersPerQ - 1, NEW j \in 1 .. BuffersPerQ
  PROVE  (t + j) % BuffersPerQ = Slot(t, j)
  BY Sizes DEF Slot

\* Under every policy a receive of the connections is posted, completed, filed, in the
\* ring or in service, in exactly one of these places and once there: no request is
\* answered twice and no receive is lost to the receive queue.
THEOREM EachOnceCorrect == Spec => []EachOnce
  <1>1. ASSUME Sound, Placed
        PROVE  EachOnce
    <2> SUFFICES ASSUME aligned, NEW b \in Buffers
                 PROVE  \E place \in Listed(b) : Listed(b) = {place}
      BY DEF EachOnce
    <2>1. InOnePlace(b)
      BY <1>1 DEF Placed
    <2>2. /\ size \in 0 .. BuffersPerQ /\ tail \in 0 .. BuffersPerQ - 1
      BY <1>1, Sizes DEF Sound, RingExact, Typed, Placed
    <2>3. \A j \in 1 .. size : (tail + j) % BuffersPerQ = Slot(tail, j)
      <3> TAKE j \in 1 .. size
      <3>1. j \in 1 .. BuffersPerQ
        BY <2>2, Sizes
      <3> QED
        BY <2>2, <3>1, SlotIsRemainder
    <2> DEFINE C == {<<"cq", Owner(b), i>> : i \in {j \in DOMAIN cq[Owner(b)] : cq[Owner(b)][j].buf = b}}
               M == UNION {{<<"meta", p, i>> : i \in {j \in DOMAIN metaCQ[p] : metaCQ[p][j] = b}}
                             : p \in Priorities}
               R == {<<"ring", 0, i>> : i \in {j \in 1 .. size : ring[(tail + j) % BuffersPerQ] = b}}
               P == IF b \in posted THEN {<<"posted", 0, 0>>} ELSE {}
               U == IF cur = b THEN {<<"cur", 0, 0>>} ELSE {}
    <2>4. Listed(b) = C \cup M \cup R \cup P \cup U
      BY DEF Listed
    <2>5. (C # {} <=> CqHas(cq[Owner(b)], b)) /\ \A v, w \in C : v = w
      BY <2>1 DEF InOnePlace, CqHas, CqOnce
    <2>6. (M # {} <=> MetaHas(metaCQ, b)) /\ \A v, w \in M : v = w
      <3>1. \A v : v \in M <=> \E p \in Priorities : \E i \in DOMAIN metaCQ[p] :
                               metaCQ[p][i] = b /\ v = <<"meta", p, i>>
        OBVIOUS
      <3> HIDE DEF M
      <3>2. M # {} <=> MetaHas(metaCQ, b)
        BY <3>1 DEF MetaHas
      <3>3. \A v, w \in M : v = w
        BY <2>1, <3>1 DEF InOnePlace, MetaOnce
      <3> QED
        BY <3>2, <3>3
    <2>7. (R # {} <=> RingHas(ring, tail, size, b)) /\ \A v, w \in R : v = w
      BY <2>1, <2>3 DEF InOnePlace, RingHas, RingOnce
    <2>8. (P # {} <=> b \in posted) /\ (U # {} <=> cur = b)
          /\ (\A v, w \in P : v = w) /\ (\A v, w \in U : v = w)
      OBVIOUS
    <2> HIDE DEF C, M, R, P, U
    <2>9. OneOf(P # {}, C # {}, M # {}, R # {}, U # {})
      BY <2>1, <2>5, <2>6, <2>7, <2>8 DEF InOnePlace, OneOf
    <2>10. \E v : v \in Listed(b)
      BY <2>4, <2>9 DEF OneOf
    <2>11. \A v, w \in Listed(b) : v = w
      BY <2>4, <2>5, <2>6, <2>7, <2>8, <2>9 DEF OneOf
    <2> QED
      BY <2>10, <2>11
  <1> QED
    BY <1>1, SoundInit, SoundNext, PlacedInit, PlacedNext, PTL DEF Spec

-----------------------------------------------------------------------------
(* How often a waiting priority is passed over. *)

LEMMA LevelSizes ==
  /\ Levels \in Nat \ {0} /\ CounterRange \in Nat \ {0} /\ Levels < CounterRange
  /\ Levels < 65536
  <1>1. {Levels, CounterRange, PollBacklog} \subseteq Nat \ {0}
    BY SchedulersAssumption
  <1> QED
    BY <1>1, SchedulersAssumption

\* The weights for which WEIGHTED_ROUND_ROBIN rotates: at least one priority for every
\* level, so that they are defined, and none of them below zero.
Rotating == NumPriorities >= Levels /\ WeightsHold

\* A weight that has not fallen below zero is at most Levels.
LEMMA WeightInRange ==
  ASSUME Rotating
  PROVE  \A p \in Priorities : QueueWeight(p) \in 0 .. Levels
  <1> TAKE p \in Priorities
  <1> DEFINE D == NumPriorities \div Levels
             k == p \div D
  <1>1. /\ Levels \in Nat \ {0} /\ NumPriorities \in Nat \ {0}
        /\ NumPriorities >= Levels /\ Levels < 65536
    BY LevelSizes, Sizes DEF Rotating
  <1>2. D \in Nat \ {0}
    BY <1>1
  <1>3. k <= Levels
    BY DEF Rotating, WeightsHold
  <1> HIDE DEF D
  <1>4. k \in Nat
    BY <1>2, Sizes, Division DEF Priorities
  <1> HIDE DEF k
  <1>5. Levels - k \in 0 .. Levels /\ Levels - k < 65536
    BY <1>1, <1>3, <1>4
  <1>6. (Levels - k) % 65536 = Levels - k
    BY <1>5
  <1>7. QueueWeight(p) = (Levels - k) % 65536
    BY DEF QueueWeight, k, D
  <1> QED
    BY <1>5, <1>6, <1>7

\* Priorities the iterator comes to between i and p, where it returns to i last.
Apart(i, p) == IF p > i THEN p - i - 1 ELSE p - i - 1 + NumPriorities

LEMMA ApartInRange ==
  \A i, p \in Priorities :
    Apart(i, p) \in 0 .. NumPriorities - 1 /\ (i # p => Apart(i, p) <= NumPriorities - 2)
  BY Sizes DEF Apart, Priorities

\* One step of the iterator brings it nearer to every other priority of the set.
LEMMA FollowingNearer ==
  ASSUME Typed, NEW i \in skipList, skipList # {First(skipList)},
         NEW p \in skipList, p # Following(i)
  PROVE  Apart(Following(i), p) < Apart(i, p)
  <1> DEFINE j == Following(i)
  <1>1. /\ skipList \subseteq Priorities
        /\ \A x \in skipList : x \in Int /\ x >= 0 /\ x < NumPriorities
    BY Sizes DEF Typed, Priorities
  <1>2. First(skipList) \in skipList /\ \A x \in skipList : First(skipList) <= x
    BY <1>1, FirstIsLeast
  <1>3. j \in skipList /\ j # i
    BY FollowingMoves
  <1>4. CASE IsLast(i, skipList)
    <2>1. j = First(skipList) /\ \A x \in skipList : x <= i
      BY <1>4 DEF Following, IsLast
    <2> HIDE DEF j
    <2>2. j < p /\ p <= i /\ j < i
      BY <1>1, <1>2, <1>3, <2>1 DEF j
    <2> QED
      BY <1>1, <1>3, <2>2, Sizes DEF Apart, j
  <1>5. CASE ~IsLast(i, skipList)
    <2> DEFINE S == {x \in skipList : x > i}
    <2>1. S # {} /\ S \subseteq Priorities
      BY <1>1, <1>5 DEF IsLast
    <2>2. First(S) \in S /\ \A x \in S : First(S) <= x
      BY <2>1, FirstIsLeast
    <2>3. j = First(S)
      BY <1>5 DEF Following
    <2> HIDE DEF j
    <2>4. i < j /\ (p > i => j <= p)
      BY <1>1, <2>2, <2>3
    <2>5. p > i => p > j
      BY <1>1, <1>3, <2>4 DEF j
    <2> QED
      BY <1>1, <1>3, <2>4, <2>5, Sizes DEF Apart, j
  <1> QED
    BY <1>4, <1>5

\* Requests priority r may still be served before the iterator leaves it: the test is
\* for equality, so a count c beyond the weight w has to come round first.
Left(c, w) == IF c <= w THEN w - c ELSE w - c + CounterRange

LEMMA LeftInRange ==
  \A c \in 0 .. CounterRange - 1, w \in 0 .. Levels : Left(c, w) \in 0 .. CounterRange - 1
  BY LevelSizes DEF Left

LEMMA TurnSize == LongestTurn \in Nat \ {0} /\ LongestTurn <= CounterRange
  BY LevelSizes DEF LongestTurn

\* A turn of weight w begins with a count of 1 and never exceeds the longest one.
LEMMA OneTurn ==
  ASSUME Rotating, NEW p \in Priorities
  PROVE  Left(1, QueueWeight(p)) <= LongestTurn - 1
  <1> DEFINE w == QueueWeight(p)
  <1>1. w \in 0 .. Levels
    BY WeightInRange
  <1>2. w = 0 => LongestTurn = CounterRange
    BY DEF LongestTurn
  <1>3. LongestTurn = CounterRange \/ LongestTurn = Levels
    BY DEF LongestTurn
  <1> HIDE DEF w
  <1>4. Left(1, w) = IF w = 0 THEN CounterRange - 1 ELSE w - 1
    BY <1>1, LevelSizes DEF Left
  <1>5. Left(1, w) <= LongestTurn - 1
    BY <1>1, <1>2, <1>3, <1>4, LevelSizes
  <1> QED
    BY <1>5 DEF w

\* Under ROUND_ROBIN a waiting priority has been passed over at most once by each
\* priority the iterator has visited since, under WEIGHTED_ROUND_ROBIN at most a full
\* turn of each, and the priority whose turn it is keeps it until checkCnt comes round.
Near(f, g, p) == f[p] + Apart(g, p) <= NumPriorities - 1
WeightedNear(f, g, c, p) ==
  f[p] + Left(c, QueueWeight(g)) + LongestTurn * Apart(g, p)
    <= CounterRange + LongestTurn * (NumPriorities - 2)

Patient ==
  /\ policy \in ByPriority => Waiting \subseteq skipList
  /\ checkCnt \in 0 .. CounterRange - 1
  /\ passed \in [Priorities -> Nat]
  /\ priority \in Priorities \cup {None}
  /\ \A p \in Priorities :
       policy \notin {"rr", "wrr"} \/ metaCQ[p] = <<>> \/ priority \in {None, p} => passed[p] = 0
  /\ policy = "rr" /\ priority # None => \A p \in Priorities : Near(passed, priority, p)
  /\ policy = "wrr" => NumPriorities >= Levels
  /\ policy = "wrr" /\ WeightsHold /\ priority # None =>
       \A p \in Priorities \ {priority} : WeightedNear(passed, priority, checkCnt, p)

LEMMA PatientInit == Init => Patient
  BY LevelSizes DEF Init, Patient, Waiting

\* What a priority that is not waiting adds to the bounds is never too much.
LEMMA NotPassed ==
  ASSUME NEW g \in Priorities, NEW c \in 0 .. CounterRange - 1, NEW p \in Priorities \ {g},
         NEW f \in [Priorities -> Nat], f[p] <= 1
  PROVE  Near(f, g, p) /\ (Rotating => WeightedNear(f, g, c, p))
  <1> DEFINE w == QueueWeight(g)
             a == Apart(g, p)
             l == Left(c, w)
             turn == LongestTurn
  <1>1. a \in 0 .. NumPriorities - 1 /\ a <= NumPriorities - 2
    BY ApartInRange
  <1>2. /\ turn \in Nat \ {0} /\ CounterRange \in Nat \ {0} /\ NumPriorities \in Nat \ {0}
        /\ f[p] \in Nat
    BY LevelSizes, TurnSize, Sizes
  <1>3. Near(f, g, p)
    <2> HIDE DEF a
    <2> QED
      BY <1>1, <1>2 DEF Near, a
  <1>4. ASSUME Rotating
        PROVE  f[p] + l + turn * a <= CounterRange + turn * (NumPriorities - 2)
    <2>1. w \in 0 .. Levels
      BY <1>4, WeightInRange
    <2>2. l \in 0 .. CounterRange - 1
      BY <2>1, LeftInRange
    <2> HIDE DEF w, a, l, turn
    <2>3. turn * a <= turn * (NumPriorities - 2)
      BY <1>1, <1>2
    <2>4. turn * a \in Nat /\ turn * (NumPriorities - 2) \in Int
      BY <1>1, <1>2
    <2>5. f[p] + l <= CounterRange
      BY <1>2, <2>2
    <2> QED
      BY <1>2, <2>2, <2>3, <2>4, <2>5
  <1> QED
    BY <1>3, <1>4 DEF WeightedNear

\* A poll passes nobody over.
LEMMA PatientPollAll ==
  ASSUME Sound, Patient, PollAll
  PROVE  Patient'
  <1>1. /\ cq[offset] \in Seq(Request) /\ metaCQ \in [Priorities -> Seq(Buffers)]
        /\ skipList \subseteq Priorities /\ policy \in ByPriority
    BY DEF Sound, Typed, PollAll, ByPriority
  <1> DEFINE s == cq[offset]
  <1>2. \A p \in Priorities :
          metaCQ'[p] # <<>> <=> metaCQ[p] # <<>> \/ \E k \in DOMAIN s : s[k].prio = p
    BY <1>1, FiledLists DEF PollAll
  <1>3. /\ skipList' = skipList \cup {c.prio : c \in ToSet(s)}
        /\ UNCHANGED <<policy, iter, iterPrev, priority, passed, checkCnt>>
    BY DEF PollAll, config
  <1>4. \A k \in DOMAIN s : s[k] \in ToSet(s)
    BY DEF ToSet
  <1> HIDE DEF s
  <1>5. Waiting' \subseteq skipList'
    BY <1>1, <1>2, <1>3, <1>4 DEF Patient, Waiting
  <1>6. \A p \in Priorities : metaCQ'[p] = <<>> => metaCQ[p] = <<>>
    BY <1>2
  <1> QED
    BY <1>3, <1>5, <1>6 DEF Patient, Near, WeightedNear

\* A step of a rotation to priority i passes the other waiting ones over, and leaves
\* the set only when nothing waits.
LEMMA RotatePasses ==
  ASSUME Sound, Sound', Patient, policy \in {"rr", "wrr"}, NEW i, Rotate(i),
         UNCHANGED config
  PROVE  /\ Waiting' \subseteq skipList'
         /\ passed' \in [Priorities -> Nat]
         /\ priority' \in Priorities \cup {None}
         /\ \A p \in Priorities : metaCQ'[p] = <<>> \/ priority' \in {None, p} => passed'[p] = 0
         /\ \/ priority' = None
            \/ /\ priority' = i /\ i \in Priorities /\ pc' = "serve"
               /\ \A p \in Priorities \ {i} :
                    passed'[p] = IF metaCQ[p] = <<>> THEN 0 ELSE passed[p] + 1
  <1>1. /\ Waiting \subseteq skipList /\ skipList \subseteq Priorities
        /\ passed \in [Priorities -> Nat] /\ metaCQ \in [Priorities -> Seq(Buffers)]
        /\ priority # None => iterPrev = priority
        /\ \A p \in Priorities : metaCQ[p] = <<>> => passed[p] = 0
    BY DEF Patient, Sound, SetExact, Typed, ByPriority
  <1>2. Waiting \subseteq skipList'
    BY <1>1 DEF Rotate, WithoutEmptied, Waiting
  <1>3. pc' # "failed"
    BY DEF Sound, NoFailure, config
  <1>4. CASE skipList' = {}
    <2>1. priority' = None /\ UNCHANGED <<metaCQ, passed>>
      BY <1>4 DEF Rotate
    <2>2. \A p \in Priorities : passed[p] = 0
      BY <1>1, <1>2, <1>4 DEF Waiting
    <2> QED
      BY <1>1, <1>2, <2>1, <2>2 DEF Waiting
  <1>5. CASE skipList' # {}
    <2>1. i \in skipList' /\ TakeFront(i)
      BY <1>3, <1>5 DEF Rotate
    <2>2. i \in Priorities
      BY <1>1, <2>1 DEF Rotate, WithoutEmptied
    <2>3. metaCQ[i] # <<>>
      BY <1>3, <2>1 DEF TakeFront
    <2>4. /\ priority' = i /\ pc' = "serve" /\ metaCQ' = [metaCQ EXCEPT ![i] = Tail(@)]
          /\ passed' = Overtaken(i)
      BY <2>1, <2>3 DEF TakeFront
    <2>5. passed' = [r \in Priorities |->
                       IF r = i \/ metaCQ[r] = <<>> THEN 0 ELSE passed[r] + 1]
      BY <2>4 DEF Overtaken
    <2>6. passed' \in [Priorities -> Nat]
      BY <1>1, <2>5
    <2>7. \A p \in Priorities \ {i} : metaCQ'[p] = metaCQ[p]
      BY <1>1, <2>2, <2>4
    <2>8. Waiting' \subseteq Waiting
      BY <2>2, <2>3, <2>7 DEF Waiting
    <2>9. i # None
      BY <2>2, Sizes DEF None, Priorities
    <2>10. \A p \in Priorities : metaCQ'[p] = <<>> \/ p = i => passed'[p] = 0
      BY <2>5, <2>7
    <2> QED
      BY <1>2, <2>2, <2>4, <2>5, <2>6, <2>8, <2>9, <2>10
  <1> QED
    BY <1>4, <1>5

\* Where the set is left to one priority, or the rotation starts, nobody else waits or
\* nobody has been passed over.
LEMMA FreshNobody ==
  ASSUME Sound, Patient, policy \in {"rr", "wrr"}, FreshStart
  PROVE  \A p \in Priorities : p # First(skipList) => metaCQ[p] = <<>> \/ passed[p] = 0
  BY DEF Sound, Patient, FreshStart, Waiting, ByPriority

LEMMA PatientRoundRobin ==
  ASSUME Sound, Sound', Patient, PickRoundRobin
  PROVE  Patient'
  <1> DEFINE i == RoundRobinNext
  <1>1. /\ policy = "rr" /\ policy' = "rr" /\ Rotate(i) /\ UNCHANGED <<config, checkCnt>>
        /\ skipList # {} /\ skipList \subseteq Priorities /\ Typed
        /\ priority # None => priority \in skipList /\ iter = priority
        /\ passed \in [Priorities -> Nat] /\ Waiting \subseteq skipList
    BY DEF PickRoundRobin, config, Sound, SetExact, Patient, ByPriority, Typed
  <1>2. /\ Waiting' \subseteq skipList'
        /\ passed' \in [Priorities -> Nat]
        /\ priority' \in Priorities \cup {None}
        /\ \A p \in Priorities : metaCQ'[p] = <<>> \/ priority' \in {None, p} => passed'[p] = 0
        /\ \/ priority' = None
           \/ /\ priority' = i /\ i \in Priorities /\ pc' = "serve"
              /\ \A p \in Priorities \ {i} :
                   passed'[p] = IF metaCQ[p] = <<>> THEN 0 ELSE passed[p] + 1
    <2> HIDE DEF i
    <2> QED
      BY <1>1, RotatePasses
  <1>3. ASSUME priority' # None, NEW p \in Priorities, p # i
        PROVE  Near(passed', i, p)
    <2>1. passed'[p] = IF metaCQ[p] = <<>> THEN 0 ELSE passed[p] + 1
      BY <1>2, <1>3
    <2>2. i \in Priorities /\ passed[p] \in Nat /\ NumPriorities \in Nat
      BY <1>1, <1>2, <1>3, Sizes
    <2>3. Apart(i, p) \in 0 .. NumPriorities - 1 /\ Apart(i, p) <= NumPriorities - 2
      BY <1>3, <2>2, ApartInRange
    <2> HIDE DEF i
    <2>4. CASE passed'[p] <= 1
      BY <2>1, <2>2, <2>3, <2>4 DEF Near
    <2>5. CASE ~(passed'[p] <= 1)
      <3>1. metaCQ[p] # <<>> /\ passed[p] # 0 /\ passed'[p] = passed[p] + 1
        BY <2>1, <2>2, <2>5
      <3>2. ~FreshStart
        <4>1. FreshStart => i = First(skipList)
          BY DEF i, RoundRobinNext
        <4> QED
          BY <1>1, <1>3, <3>1, <4>1, FreshNobody DEF Sound
      <3>3. i = Following(iter) /\ priority # None /\ skipList # {First(skipList)}
        BY <3>2 DEF i, RoundRobinNext, FreshStart
      <3>4. p \in skipList /\ iter \in skipList /\ iter \in Priorities
        BY <1>1, <3>1, <3>3 DEF Waiting
      <3>5. Apart(i, p) < Apart(iter, p)
        BY <1>1, <1>3, <3>3, <3>4, FollowingNearer
      <3>6. passed[p] + Apart(iter, p) <= NumPriorities - 1
        BY <1>1, <3>3 DEF Patient, Near
      <3>7. Apart(iter, p) \in Int
        BY <3>4, ApartInRange
      <3> QED
        BY <2>2, <2>3, <3>1, <3>5, <3>6, <3>7 DEF Near
    <2> QED
      BY <2>4, <2>5
  <1>4. ASSUME priority' # None
        PROVE  Near(passed', i, i)
    <2>1. i \in Priorities /\ passed'[i] = 0
      BY <1>2, <1>4
    <2>2. Apart(i, i) \in 0 .. NumPriorities - 1
      BY <2>1, ApartInRange
    <2> HIDE DEF i
    <2> QED
      BY <2>1, <2>2, Sizes DEF Near
  <1> HIDE DEF i
  <1>5. priority' # None => \A p \in Priorities : Near(passed', priority', p)
    BY <1>2, <1>3, <1>4 DEF Near
  <1>6. checkCnt' \in 0 .. CounterRange - 1
    BY <1>1 DEF Patient
  <1> QED
    BY <1>1, <1>2, <1>5, <1>6 DEF Patient

LEMMA PatientWeighted ==
  ASSUME Sound, Sound', Patient, PickWeighted
  PROVE  Patient'
  <1> DEFINE moves == ~FreshStart /\ TurnOver
             i == IF FreshStart THEN First(skipList)
                  ELSE IF moves THEN Following(iter) ELSE iter
             count == IF moves THEN 0 ELSE checkCnt
  <1>1. /\ policy = "wrr" /\ policy' = "wrr" /\ Rotate(i) /\ UNCHANGED config
        /\ checkCnt' = IF pc' = "serve" THEN (count + 1) % CounterRange ELSE count
        /\ checkCnt \in 0 .. CounterRange - 1
        /\ skipList # {} /\ skipList \subseteq Priorities /\ Typed
        /\ priority # None => priority \in skipList /\ iter = priority
        /\ passed \in [Priorities -> Nat] /\ Waiting \subseteq skipList
    BY DEF PickWeighted, config, Sound, SetExact, Patient, ByPriority, Typed
  <1>2. /\ Waiting' \subseteq skipList'
        /\ passed' \in [Priorities -> Nat]
        /\ priority' \in Priorities \cup {None}
        /\ \A p \in Priorities : metaCQ'[p] = <<>> \/ priority' \in {None, p} => passed'[p] = 0
        /\ \/ priority' = None
           \/ /\ priority' = i /\ i \in Priorities /\ pc' = "serve"
              /\ \A p \in Priorities \ {i} :
                   passed'[p] = IF metaCQ[p] = <<>> THEN 0 ELSE passed[p] + 1
    <2> HIDE DEF i
    <2> QED
      BY <1>1, RotatePasses
  <1>3. /\ count \in 0 .. CounterRange - 1
        /\ CounterRange \in Nat \ {0} /\ Levels \in Nat \ {0} /\ Levels < CounterRange
        /\ NumPriorities \in Nat \ {0} /\ LongestTurn \in Nat \ {0}
        /\ NumPriorities >= Levels
    BY <1>1, LevelSizes, TurnSize, Sizes DEF Patient
  <1>4. checkCnt' \in 0 .. CounterRange - 1
    <2> HIDE DEF count
    <2>1. (count + 1) % CounterRange \in 0 .. CounterRange - 1
      BY <1>3
    <2> QED
      BY <1>1, <1>3, <2>1
  <1>5. ASSUME WeightsHold, priority' # None, NEW p \in Priorities \ {i}
        PROVE  WeightedNear(passed', i, checkCnt', p)
    <2>0. Rotating
      BY <1>3, <1>5 DEF Rotating
    <2>1. /\ i \in Priorities /\ passed[p] \in Nat /\ passed'[p] \in Nat
          /\ checkCnt' = (count + 1) % CounterRange
          /\ passed'[p] = IF metaCQ[p] = <<>> THEN 0 ELSE passed[p] + 1
      BY <1>1, <1>2, <1>5
    <2>2. CASE passed'[p] <= 1
      BY <1>2, <1>4, <2>0, <2>1, <2>2, NotPassed
    <2>3. CASE ~(passed'[p] <= 1)
      <3>1. metaCQ[p] # <<>> /\ passed[p] # 0 /\ passed'[p] = passed[p] + 1
        BY <2>1, <2>3
      <3>2. ~FreshStart
        <4>1. FreshStart => i = First(skipList)
          OBVIOUS
        <4> QED
          BY <1>1, <1>5, <3>1, <4>1, FreshNobody
      <3>3. /\ priority # None /\ skipList # {First(skipList)} /\ iter = priority
            /\ p \in skipList /\ iter \in skipList /\ iter \in Priorities
        BY <1>1, <3>1, <3>2 DEF FreshStart, Waiting
      <3>4. p # iter
        BY <3>1, <3>3 DEF Patient
      <3> DEFINE v == QueueWeight(iter)
                 a == Apart(iter, p)
                 l == Left(checkCnt, v)
                 turn == LongestTurn
                 bound == CounterRange + turn * (NumPriorities - 2)
      <3>5. passed[p] + l + turn * a <= bound
        BY <1>1, <1>5, <3>3, <3>4 DEF Patient, WeightedNear
      <3>6. v \in 0 .. Levels
        BY <2>0, <3>3, WeightInRange
      <3>7. l \in 0 .. CounterRange - 1
        BY <1>1, <3>6, LeftInRange
      <3>8. a \in 0 .. NumPriorities - 1
        BY <3>3, ApartInRange
      <3>9. bound \in Int /\ turn * a \in Nat
        BY <1>3, <3>8
      <3>10. CASE moves
        <4>1. i = Following(iter) /\ count = 0
          BY <3>2, <3>10
        <4> DEFINE w == QueueWeight(i)
                   b == Apart(i, p)
        <4>2. b < a
          BY <1>1, <1>5, <3>3, <4>1, FollowingNearer
        <4>3. b \in 0 .. NumPriorities - 1
          BY <2>1, ApartInRange
        <4>4. w \in 0 .. Levels
          BY <2>0, <2>1, WeightInRange
        <4>5. checkCnt' = 1
          BY <1>3, <2>1, <4>1
        <4>6. Left(checkCnt', w) <= turn - 1
          BY <2>0, <2>1, <4>5, OneTurn
        <4>6a. Left(checkCnt', w) \in 0 .. CounterRange - 1
          BY <1>4, <4>4, LeftInRange
        <4> HIDE DEF w, b, a, l, bound, v, i, moves
        <4>7. turn * (b + 1) <= turn * a
          BY <1>3, <3>8, <4>2, <4>3
        <4>8. turn * (b + 1) = turn * b + turn /\ turn * b \in Nat
          BY <1>3, <4>3
        <4>9. passed'[p] + Left(checkCnt', w) + turn * b <= passed[p] + turn * a
          BY <1>3, <2>1, <3>1, <3>9, <4>6, <4>6a, <4>7, <4>8
        <4>10. passed[p] + turn * a <= bound
          BY <2>1, <3>5, <3>7, <3>9
        <4>11. /\ passed'[p] + Left(checkCnt', w) + turn * b \in Int
               /\ passed[p] + turn * a \in Int
          BY <1>3, <2>1, <3>9, <4>6a, <4>8
        <4>12. passed'[p] + Left(checkCnt', w) + turn * b <= bound
          BY <3>9, <4>9, <4>10, <4>11
        <4> QED
          BY <4>12 DEF WeightedNear, w, b, bound
      <3>11. CASE ~moves
        <4>1. i = iter /\ count = checkCnt /\ ~TurnOver
          BY <3>2, <3>11
        <4>2. checkCnt # v
          BY <1>1, <3>3, <4>1 DEF TurnOver
        <4> HIDE DEF v, a, i, count, bound, moves
        <4>3. Left((checkCnt + 1) % CounterRange, v) = l - 1
          <5>1. CASE checkCnt + 1 < CounterRange
            <6>1. (checkCnt + 1) % CounterRange = checkCnt + 1
              BY <1>1, <1>3, <5>1
            <6> QED
              BY <1>1, <1>3, <3>6, <4>2, <5>1, <6>1 DEF Left
          <5>2. CASE ~(checkCnt + 1 < CounterRange)
            <6>1. checkCnt + 1 = CounterRange
              BY <1>1, <1>3, <5>2
            <6>2. (checkCnt + 1) % CounterRange = 0
              BY <1>3, <6>1
            <6> QED
              BY <1>1, <1>3, <3>6, <4>2, <6>1, <6>2 DEF Left
          <5> QED
            BY <5>1, <5>2
        <4>4. Left(checkCnt', v) = l - 1
          BY <2>1, <4>1, <4>3
        <4> HIDE DEF l
        <4>5. passed'[p] + Left(checkCnt', v) + turn * a <= bound
          BY <2>1, <3>1, <3>5, <3>7, <3>9, <4>4
        <4> QED
          BY <4>1, <4>5 DEF WeightedNear, v, a, bound
      <3> QED
        BY <3>10, <3>11
    <2> QED
      BY <2>2, <2>3
  <1> HIDE DEF i
  <1>6. WeightsHold /\ priority' # None =>
          \A p \in Priorities \ {priority'} : WeightedNear(passed', priority', checkCnt', p)
    BY <1>2, <1>5
  <1> QED
    BY <1>1, <1>2, <1>3, <1>4, <1>6 DEF Patient

LEMMA PatientStrict ==
  ASSUME Sound, Patient, PickStrict
  PROVE  Patient'
  <1>1. /\ policy = "strict" /\ UNCHANGED <<config, checkCnt>>
        /\ skipList # {} /\ skipList \subseteq Waiting /\ Waiting \subseteq skipList
        /\ skipList \subseteq Priorities /\ metaCQ \in [Priorities -> Seq(Buffers)]
    BY DEF PickStrict, Sound, Typed, SetExact, Patient, ByPriority
  <1> DEFINE p == First(skipList)
  <1>2. p \in Priorities /\ metaCQ[p] # <<>>
    BY <1>1, FirstIsLeast DEF Waiting
  <1>3. /\ TakeFront(p)
        /\ skipList' = IF metaCQ'[p] = <<>> THEN skipList \ {p} ELSE skipList
    BY DEF PickStrict
  <1> HIDE DEF p
  <1>4. /\ metaCQ' = [metaCQ EXCEPT ![p] = Tail(@)] /\ priority' = p
        /\ passed' = [r \in Priorities |-> 0]
    BY <1>1, <1>2, <1>3 DEF TakeFront, Overtaken
  <1>5. Waiting' \subseteq skipList'
    BY <1>1, <1>2, <1>3, <1>4 DEF Waiting
  <1> QED
    BY <1>1, <1>2, <1>4, <1>5 DEF Patient, config

LEMMA PatientNext == Sound /\ Patient /\ [Next]_vars => Patient'
  <1> SUFFICES ASSUME Sound, Patient, [Next]_vars
               PROVE  Patient'
    OBVIOUS
  <1>1. Sound'
    BY SoundNext
  <1>2. CASE UNCHANGED <<config, prioVars>>
    BY <1>2 DEF Patient, Waiting, config, prioVars
  <1>3. CASE \/ \E b \in Buffers, p \in Priorities : Arrive(b, p)
             \/ PollOne \/ PollSent \/ PollNone \/ PollToRing \/ PickInOrder
             \/ \E signaled \in BOOLEAN : Serve(signaled)
             \/ Failed \/ UNCHANGED vars
    BY <1>2, <1>3 DEF Arrive, PollOne, PollSent, PollNone, PollToRing, PickInOrder, Serve,
       Failed, vars
  <1> QED
    BY <1>1, <1>3, PatientPollAll, PatientStrict, PatientRoundRobin, PatientWeighted
       DEF Next, Thread, Pick

\* A priority that waits is passed over at most NumPriorities-1 times under
\* ROUND_ROBIN, for every number of priorities.  Under WEIGHTED_ROUND_ROBIN, for the
\* numbers whose weights do not fall below zero, at most as often as checkCnt, which
\* runs on while one priority has the set to itself, takes to come round, plus a turn
\* of each of the others.
THEOREM BypassCorrect == Spec => []BypassBounded
  <1>1. ASSUME Patient
        PROVE  BypassBounded
    <2> SUFFICES ASSUME policy = "rr" \/ (policy = "wrr" /\ WeightsHold),
                        NEW p \in Priorities
                 PROVE  passed[p] <= BypassBound(p)
      BY DEF BypassBounded
    <2> DEFINE turn == LongestTurn
    <2>1. /\ turn \in Nat \ {0} /\ CounterRange \in Nat \ {0} /\ turn <= CounterRange
          /\ NumPriorities \in Nat \ {0} /\ passed[p] \in Nat
      BY <1>1, LevelSizes, TurnSize, Sizes DEF Patient
    <2> HIDE DEF turn
    <2>2. turn * (NumPriorities - 2) >= - turn /\ turn * (NumPriorities - 2) \in Int
      BY <2>1
    <2>3. (NumPriorities - 2) * turn = turn * (NumPriorities - 2)
      BY <2>1
    <2>4. passed[p] = 0 => passed[p] <= BypassBound(p)
      BY <2>1, <2>2, <2>3 DEF BypassBound, turn
    <2>5. CASE passed[p] # 0
      <3>1. policy \in {"rr", "wrr"} /\ priority \in Priorities \ {p} /\ p # priority
        BY <1>1, <2>5 DEF Patient
      <3>2. priority # None
        BY <3>1, Sizes DEF None, Priorities
      <3>3. Apart(priority, p) \in 0 .. NumPriorities - 1
        BY <3>1, ApartInRange
      <3>4. CASE policy = "rr"
        <4>1. Near(passed, priority, p)
          BY <1>1, <3>2, <3>4 DEF Patient
        <4> QED
          BY <2>1, <3>3, <3>4, <4>1 DEF Near, BypassBound
      <3>5. CASE policy = "wrr"
        <4> DEFINE l == Left(checkCnt, QueueWeight(priority))
                   a == Apart(priority, p)
                   m == turn * (NumPriorities - 2)
        <4>1. passed[p] + l + turn * a <= CounterRange + m
          BY <1>1, <3>1, <3>2, <3>5 DEF Patient, WeightedNear, turn
        <4>2. l \in 0 .. CounterRange - 1
          BY <1>1, <3>1, <3>5, WeightInRange, LeftInRange DEF Patient, Rotating
        <4>3. turn * a \in Nat /\ m \in Int
          BY <2>1, <2>2, <3>3
        <4> HIDE DEF l, a, m
        <4>4. passed[p] <= CounterRange + m
          BY <2>1, <4>1, <4>2, <4>3
        <4>5. BypassBound(p) = CounterRange + m
          BY <2>3, <3>5 DEF BypassBound, m, turn
        <4> QED
          BY <4>4, <4>5
      <3> QED
        BY <3>1, <3>4, <3>5
    <2> QED
      BY <2>4, <2>5
  <1> QED
    BY <1>1, SoundInit, SoundNext, PatientInit, PatientNext, PTL DEF Spec

-----------------------------------------------------------------------------
(* Types. *)

\* The iterators point at priorities, and one request at a time is in the ring.
Shaped ==
  /\ iter \in Priorities \cup {None} /\ iterPrev \in Priorities \cup {None}
  /\ size = IF policy = "inorder" /\ pc = "process" THEN 1 ELSE 0

LEMMA ShapedInit == Init => Shaped
  BY DEF Init, Shaped

LEMMA ShapedNext == Sound /\ Shaped /\ [Next]_vars => Shaped'
  <1> SUFFICES ASSUME Sound, Shaped, [Next]_vars
               PROVE  Shaped'
    OBVIOUS
  <1>1. /\ skipList \subseteq Priorities /\ BuffersPerQ \in Nat \ {0}
        /\ iter \in Priorities \cup {None} /\ iterPrev \in Priorities \cup {None}
    BY Sizes DEF Sound, Typed, Shaped
  <1>2. CASE PollToRing
    BY <1>1, <1>2 DEF PollToRing, Shaped, config, prioVars
  <1>3. CASE PickInOrder
    BY <1>1, <1>3 DEF PickInOrder, Shaped, config, prioVars
  <1>4. CASE PickRoundRobin \/ PickWeighted
    <2>1. PICK i : Rotate(i) /\ i \in skipList
      <3>1. skipList # {} /\ First(skipList) \in skipList
        BY <1>1, <1>4, FirstIsLeast DEF Sound, Typed, PickRoundRobin, PickWeighted
      <3>2. ~FreshStart => iter \in skipList /\ skipList # {First(skipList)}
        BY <1>4 DEF FreshStart, Sound, SetExact, PickRoundRobin, PickWeighted
      <3>3. ~FreshStart => Following(iter) \in skipList
        BY <3>2, FollowingMoves DEF Sound
      <3>4. CASE PickRoundRobin
        <4>1. RoundRobinNext \in skipList
          BY <3>1, <3>3 DEF RoundRobinNext
        <4> QED
          BY <3>4, <4>1 DEF PickRoundRobin
      <3>5. CASE PickWeighted
        <4> DEFINE i == IF FreshStart THEN First(skipList)
                        ELSE IF ~FreshStart /\ TurnOver THEN Following(iter) ELSE iter
        <4>1. i \in skipList
          BY <3>1, <3>2, <3>3
        <4>2. Rotate(i)
          BY <3>5 DEF PickWeighted
        <4> HIDE DEF i
        <4> QED
          BY <4>1, <4>2
      <3> QED
        BY <1>4, <3>4, <3>5
    <2>2. iter' \in Priorities /\ iterPrev' \in Priorities \cup {None}
      BY <1>1, <2>1 DEF Rotate
    <2>3. policy \in {"rr", "wrr"} /\ UNCHANGED <<policy, size>>
      BY <1>4 DEF PickRoundRobin, PickWeighted, config, ringVars
    <2> QED
      BY <2>2, <2>3 DEF Shaped
  <1>5. CASE PickStrict
    BY <1>1, <1>5 DEF PickStrict, Shaped, config, ringVars
  <1>6. CASE PollAll
    BY <1>1, <1>6 DEF PollAll, ByPriority, Shaped, config, ringVars
  <1>7. CASE PollOne \/ PollSent \/ PollNone
    BY <1>1, <1>7 DEF PollOne, PollSent, PollNone, ByPoll, Shaped, config, prioVars, ringVars
  <1>8. CASE \E b \in Buffers, p \in Priorities : Arrive(b, p)
    BY <1>1, <1>8 DEF Arrive, Shaped, config, prioVars, ringVars
  <1>9. CASE \E signaled \in BOOLEAN : Serve(signaled)
    BY <1>1, <1>9 DEF Serve, Shaped, config, prioVars, ringVars
  <1>10. CASE Failed \/ UNCHANGED vars
    BY <1>10 DEF Failed, Shaped, vars, config, prioVars, ringVars
  <1> QED
    BY <1>2, <1>3, <1>4, <1>5, <1>6, <1>7, <1>8, <1>9, <1>10 DEF Next, Thread, Pick

\* Every variable has its type under every policy: the connection polled exists, the
\* iterators point at priorities, checkCnt keeps its width, and the ring never holds
\* more than its slots, even when its uninitialised indices start apart.
THEOREM SchedulersTypeCorrect == Spec => []TypeOK
  <1>1. ASSUME Sound, Patient, Shaped
        PROVE  TypeOK
    <2>1. size \in 0 .. BuffersPerQ
      BY <1>1, Sizes DEF Shaped
    <2>2. {iter, iterPrev, priority} \subseteq Priorities \cup {None}
      BY <1>1 DEF Shaped, Patient
    <2>3. checkCnt \in 0 .. CounterRange - 1 /\ passed \in [Priorities -> Nat]
      BY <1>1 DEF Patient
    <2> QED
      BY <1>1, <2>1, <2>2, <2>3 DEF Sound, Typed, TypeOK
  <1> QED
    BY <1>1, SoundInit, SoundNext, PatientInit, PatientNext, ShapedInit, ShapedNext, PTL DEF Spec

=============================================================================
