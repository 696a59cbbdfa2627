----------------------------- MODULE RelayProofs -----------------------------
(***************************************************************************)
(* Proofs about Relay for every number of threads, buffers, send slots and *)
(* requests, and every number the device starts to count queue pairs from: *)
(* the numbers of the ingress QPs, and where the payloads of the requests  *)
(* are while the middle host forwards them.                                *)
(***************************************************************************)
EXTENDS Relay, FiniteSetTheorems, TLAPS

-----------------------------------------------------------------------------
(* The numbers of the queue pairs. *)

Unmade == {"off", "ingress"}

NumberTypes ==
  /\ pc \in [Threads -> {"off", "ingress", "barrier1", "barrier2", "resolve", "fill",
                         "connect0", "connect1", "poll", "handle", "forward", "crashed"}]
  /\ nextQp \in Nat
  /\ qpn \in [Threads -> [Conns -> Nat]]
  /\ early \in BOOLEAN

\* The barrier: while one thread lacks its ingress QP nobody has an egress QP.
Ordered ==
  /\ \A t \in Threads : pc[t] \in Unmade => qpn[t][0] = 0
  /\ \A t \in Threads : pc[t] \in Unmade \cup {"barrier1"} => qpn[t][1] = 0
  /\ (\E t \in Threads : pc[t] \in Unmade) => \A t \in Threads : qpn[t][1] = 0

Egress == \E t \in Threads : qpn[t][1] # 0

\* Once thread 0 has its number q, nobody having been early: the ingress numbers are
\* those handed out since, one each, until the first egress QP takes the number after
\* the last of them.
Numbered ==
  LET q == qpn[0][0] IN
    /\ q % Align = 0
    /\ \A t \in Threads : pc[t] \notin Unmade => qpn[t][0] \in q .. nextQp - 1
    /\ \A t, u \in Threads : qpn[t][0] # 0 /\ qpn[t][0] = qpn[u][0] => t = u
    /\ ~Egress => \A n \in q .. nextQp - 1 : \E t \in Threads : qpn[t][0] = n
    /\ Egress => /\ {qpn[t][0] : t \in Threads} = q .. q + NumThreads - 1
                 /\ nextQp >= q + NumThreads
                 /\ \A t \in Threads : qpn[t][1] # 0 => qpn[t][1] >= q + NumThreads

Numbers ==
  /\ NumberTypes
  /\ Ordered
  /\ ~early /\ qpn[0][0] = 0 => \A t \in Threads \ {0} : pc[t] \in Unmade
  /\ ~early /\ qpn[0][0] # 0 => Numbered

LEMMA Sizes ==
  /\ NumThreads \in Nat \ {0} /\ Align \in Nat \ {0} /\ FirstQp \in Nat
  /\ 0 \in Threads /\ {0, 1} = Conns
  <1>1. {NumThreads, ServerCores, NumBufs, RxDepth, Align} \subseteq Nat \ {0} /\ FirstQp \in Nat
    BY RelayAssumption
  <1>2. NumThreads \in Nat \ {0} /\ Align \in Nat \ {0}
    BY <1>1
  <1> QED
    BY <1>1, <1>2 DEF Threads, Conns

LEMMA NumbersInit == Init => Numbers
  <1> SUFFICES ASSUME Init
               PROVE  Numbers
    OBVIOUS
  <1>1. NumberTypes
    BY Sizes DEF Init, NumberTypes, PerConn, Conns
  <1>2. Ordered
    BY Sizes DEF Init, Ordered, PerConn, Conns
  <1> QED
    BY <1>1, <1>2, Sizes DEF Init, Numbers, PerConn, Conns, Unmade

\* When every thread has its ingress number, there are as many numbers as threads.
LEMMA AsManyAsThreads ==
  ASSUME NumberTypes, Numbered, ~Egress, qpn[0][0] # 0,
         \A t \in Threads : pc[t] \notin Unmade
  PROVE  /\ nextQp = qpn[0][0] + NumThreads
         /\ {qpn[t][0] : t \in Threads} = qpn[0][0] .. qpn[0][0] + NumThreads - 1
  <1> DEFINE q == qpn[0][0]
             f == [t \in Threads |-> qpn[t][0]]
             S == q .. nextQp - 1
  <1>1. q \in Nat /\ nextQp \in Nat /\ q \in S
    BY Sizes DEF NumberTypes, Numbered
  <1>2. f \in Bijection(Threads, S)
    <2>1. \A t \in Threads : f[t] \in S /\ f[t] # 0
      BY <1>1 DEF Numbered
    <2>2. \A t, u \in Threads : f[t] = f[u] => t = u
      BY <2>1 DEF Numbered
    <2>3. \A n \in S : \E t \in Threads : f[t] = n
      BY DEF Numbered
    <2>4. f \in [Threads -> S]
      BY <2>1
    <2> HIDE DEF f, S
    <2> QED
      BY <2>2, <2>3, <2>4 DEF Bijection, Injection, Surjection, IsInjective
  <1>3. IsFiniteSet(Threads) /\ Cardinality(Threads) = NumThreads
    BY Sizes, FS_Interval, 0 \in Int, NumThreads - 1 \in Int DEF Threads
  <1>4. Cardinality(S) = NumThreads
    BY <1>2, <1>3, FS_Bijection DEF ExistsBijection
  <1>5. Cardinality(S) = nextQp - q
    <2>1. Cardinality(S) = IF q > nextQp - 1 THEN 0 ELSE (nextQp - 1) - q + 1
      BY <1>1, FS_Interval
    <2> QED
      BY <1>1, <2>1
  <1>6. nextQp = q + NumThreads
    BY <1>1, <1>4, <1>5, Sizes
  <1>7. {qpn[t][0] : t \in Threads} = S
    BY <1>1 DEF Numbered
  <1>8. S = q .. q + NumThreads - 1
    <2>1. nextQp - 1 = q + NumThreads - 1
      BY <1>1, <1>6, Sizes
    <2> QED
      BY <2>1
  <1> QED
    BY <1>6, <1>7, <1>8

\* A new ingress number.
LEMMA NumbersIngress ==
  ASSUME Numbers, NEW t \in Threads, CreateIngress(t)
  PROVE  Numbers'
  <1> USE Sizes DEF Set, Goto
  <1>1. NumberTypes /\ Ordered
    BY DEF Numbers
  <1>2. pc[t] = "ingress" /\ nextQp' = nextQp + 1
    BY DEF CreateIngress
  <1>3. qpn[t][0] = 0 /\ \A u \in Threads : qpn[u][1] = 0
    BY <1>1, <1>2 DEF Ordered, Unmade
  <1>4. CASE ~KeepsQp(t, nextQp)
    <2>1. UNCHANGED <<pc, qpn>> /\ t = 0
      BY <1>4 DEF CreateIngress, KeepsQp
    <2>2. early' = early
      BY <1>1, <2>1 DEF CreateIngress, NumberTypes
    <2>3. NumberTypes' /\ Ordered'
      BY <1>1, <1>2, <2>1, <2>2 DEF NumberTypes, Ordered
    <2> QED
      BY <1>3, <2>1, <2>2, <2>3 DEF Numbers
  <1>5. CASE KeepsQp(t, nextQp)
    <2>1. /\ pc' = [pc EXCEPT ![t] = "barrier1"]
          /\ qpn' = [qpn EXCEPT ![t][0] = nextQp]
          /\ early' = (early \/ (t # 0 /\ qpn[0][0] = 0))
      BY <1>5 DEF CreateIngress
    <2>2. NumberTypes'
      BY <1>1, <1>2, <2>1 DEF NumberTypes
    <2>3. /\ \A u \in Threads : qpn'[u][0] = IF u = t THEN nextQp ELSE qpn[u][0]
          /\ \A u \in Threads : qpn'[u][1] = 0
          /\ \A u \in Threads : pc'[u] = IF u = t THEN "barrier1" ELSE pc[u]
      BY <1>1, <1>3, <2>1 DEF NumberTypes
    <2>4. Ordered'
      BY <1>1, <2>3 DEF Ordered, Unmade
    <2>5. (~early /\ qpn[0][0] = 0 => \A u \in Threads \ {0} : pc[u] \in Unmade)'
      <3> SUFFICES ASSUME ~early', qpn'[0][0] = 0
                   PROVE  \A u \in Threads \ {0} : pc'[u] \in Unmade
        OBVIOUS
      <3>1. ~early /\ (t # 0 => qpn[0][0] # 0)
        BY <1>1, <2>1 DEF NumberTypes
      <3>2. t = 0 /\ qpn[0][0] = 0
        BY <1>3, <2>3, <3>1
      <3> QED
        BY <2>3, <3>1, <3>2 DEF Numbers
    <2>6. ASSUME ~early', qpn'[0][0] # 0
          PROVE  Numbered'
      <3>0. ~early /\ (t # 0 => qpn[0][0] # 0) /\ ~Egress'
        BY <1>1, <2>1, <2>3, <2>6 DEF NumberTypes, Egress
      <3>1. CASE t = 0
        <4>1. \A u \in Threads \ {0} : pc'[u] \in Unmade /\ qpn'[u][0] = 0
          BY <1>1, <1>3, <2>3, <3>0, <3>1 DEF Numbers, Ordered
        <4>2. qpn'[0][0] = nextQp /\ nextQp % Align = 0 /\ nextQp \in Nat
          BY <1>1, <2>3, <1>5, <3>1 DEF KeepsQp, NumberTypes
        <4> QED
          BY <1>2, <3>0, <4>1, <4>2 DEF Numbered
      <3>2. CASE t # 0
        <4>1. /\ Numbered /\ ~Egress /\ qpn'[0][0] = qpn[0][0]
              /\ nextQp \in Nat /\ qpn[0][0] \in Nat
          BY <1>1, <1>3, <2>3, <3>0, <3>2 DEF Numbers, Egress, NumberTypes
        <4>2. qpn[0][0] \in qpn[0][0] .. nextQp - 1
          <5>1. PICK n \in Nat : n = qpn[0][0]
            BY <4>1
          <5>2. pc[0] \notin Unmade
            BY <1>1, <3>0, <3>2 DEF Ordered
          <5> QED
            BY <4>1, <5>2 DEF Numbered
        <4>3. \A u \in Threads : pc'[u] \notin Unmade => qpn'[u][0] \in qpn[0][0] .. nextQp
          <5> TAKE u \in Threads
          <5>1. qpn[u][0] \in Nat
            BY <1>1 DEF NumberTypes
          <5> QED
            BY <2>3, <4>1, <4>2, <5>1 DEF Numbered
        <4>4. \A u \in Threads : qpn[u][0] # nextQp \/ qpn[u][0] = 0
          <5> TAKE u \in Threads
          <5>1. qpn[u][0] \in Nat
            BY <1>1 DEF NumberTypes
          <5> QED
            BY <1>1, <4>1, <5>1 DEF Numbered, Ordered
        <4>5. \A u, v \in Threads : qpn'[u][0] # 0 /\ qpn'[u][0] = qpn'[v][0] => u = v
          BY <2>3, <4>1, <4>4 DEF Numbered
        <4>6. \A n \in qpn[0][0] .. nextQp : \E u \in Threads : qpn'[u][0] = n
          <5> TAKE n \in qpn[0][0] .. nextQp
          <5>1. CASE n = nextQp
            BY <2>3, <5>1
          <5>2. CASE n # nextQp
            <6>1. n \in qpn[0][0] .. nextQp - 1
              BY <4>1, <5>2
            <6>2. PICK u \in Threads : qpn[u][0] = n
              BY <4>1, <6>1 DEF Numbered
            <6>3. u # t
              BY <1>3, <3>0, <3>2, <4>1, <6>1, <6>2
            <6> QED
              BY <2>3, <6>2, <6>3
          <5> QED
            BY <5>1, <5>2
        <4>7. nextQp' - 1 = nextQp
          BY <1>2, <4>1
        <4> QED
          BY <3>0, <4>1, <4>3, <4>5, <4>6, <4>7 DEF Numbered
      <3> QED
        BY <3>1, <3>2
    <2> QED
      BY <2>2, <2>4, <2>5, <2>6 DEF Numbers
  <1> QED
    BY <1>4, <1>5

\* A new egress number: all threads are behind the barrier.
LEMMA NumbersEgress ==
  ASSUME Numbers, NEW t \in Threads, CreateEgress(t)
  PROVE  Numbers'
  <1> USE Sizes DEF Set, Goto
  <1>1. NumberTypes /\ Ordered
    BY DEF Numbers
  <1>2. /\ pc[t] = "barrier1" /\ nextQp' = nextQp + 1 /\ UNCHANGED early
        /\ pc' = [pc EXCEPT ![t] = "barrier2"]
        /\ qpn' = [qpn EXCEPT ![t][1] = nextQp]
        /\ \A u \in Threads : pc[u] \notin Unmade
    BY DEF CreateEgress, AllIngressReady, Unmade
  <1>3. NumberTypes'
    BY <1>1, <1>2 DEF NumberTypes
  <1>4. /\ \A u \in Threads : qpn'[u][0] = qpn[u][0]
        /\ \A u \in Threads : qpn'[u][1] = IF u = t THEN nextQp ELSE qpn[u][1]
        /\ \A u \in Threads : pc'[u] = IF u = t THEN "barrier2" ELSE pc[u]
        /\ \A u \in Threads : pc'[u] \notin Unmade
    BY <1>1, <1>2 DEF NumberTypes, Unmade
  <1>5. Ordered'
    BY <1>1, <1>4 DEF Ordered
  <1>6. (~early /\ qpn[0][0] = 0 => \A u \in Threads \ {0} : pc[u] \in Unmade)'
    BY <1>2, <1>4 DEF Numbers
  <1>7. ASSUME ~early, qpn[0][0] # 0
        PROVE  Numbered'
    <2>1. Numbered /\ nextQp \in Nat /\ qpn[0][0] \in Nat
      BY <1>1, <1>7 DEF Numbers, NumberTypes
    <2>2. /\ {qpn[u][0] : u \in Threads} = qpn[0][0] .. qpn[0][0] + NumThreads - 1
          /\ nextQp >= qpn[0][0] + NumThreads
          /\ \A u \in Threads : qpn[u][1] # 0 => qpn[u][1] >= qpn[0][0] + NumThreads
      <3>1. CASE Egress
        BY <2>1, <3>1 DEF Numbered
      <3>2. CASE ~Egress
        <4>1. nextQp = qpn[0][0] + NumThreads
          BY <1>1, <1>2, <1>7, <2>1, <3>2, AsManyAsThreads
        <4> QED
          BY <1>1, <1>2, <1>7, <2>1, <3>2, <4>1, AsManyAsThreads DEF Egress
      <3> QED
        BY <3>1, <3>2
    <2>3. Egress'
      BY <1>4, <2>1, <2>2 DEF Egress
    <2>4. \A u \in Threads : qpn[u][0] \in qpn[0][0] .. nextQp
      <3> TAKE u \in Threads
      <3>1. qpn[u][0] \in Nat
        BY <1>1 DEF NumberTypes
      <3> QED
        BY <1>2, <2>1, <3>1 DEF Numbered
    <2>5. {qpn'[u][0] : u \in Threads} = {qpn[u][0] : u \in Threads}
      BY <1>4
    <2>6. nextQp' - 1 = nextQp /\ qpn'[0][0] = qpn[0][0]
      BY <1>2, <1>4, <2>1
    <2>7. nextQp' >= qpn[0][0] + NumThreads
      BY <1>2, <2>1, <2>2
    <2>8. \A u, v \in Threads : qpn'[u][0] # 0 /\ qpn'[u][0] = qpn'[v][0] => u = v
      BY <1>4, <2>1 DEF Numbered
    <2> QED
      BY <1>4, <2>1, <2>2, <2>3, <2>4, <2>5, <2>6, <2>7, <2>8 DEF Numbered
  <1> QED
    BY <1>2, <1>3, <1>4, <1>5, <1>6, <1>7 DEF Numbers

\* No other step creates a QP.
LEMMA NumbersStay ==
  ASSUME Numbers, UNCHANGED <<nextQp, qpn, early>>, NumberTypes',
         \A t \in Threads : pc'[t] \in Unmade <=> pc[t] \in Unmade,
         \A t \in Threads : pc'[t] = "barrier1" => pc[t] = "barrier1"
  PROVE  Numbers'
  <1>1. Ordered'
    BY DEF Numbers, Ordered
  <1>2. Numbered => Numbered'
    BY DEF Numbered, Egress
  <1> QED
    BY <1>1, <1>2, Sizes DEF Numbers

LEMMA NumbersNext == Numbers /\ [Next]_vars => Numbers'
  <1> SUFFICES ASSUME Numbers, [Next]_vars
               PROVE  Numbers'
    OBVIOUS
  <1>1. NumberTypes
    BY DEF Numbers
  <1>2. ASSUME UNCHANGED <<nextQp, qpn, early>>, NEW t \in Threads, NEW l,
               pc' = [pc EXCEPT ![t] = l],
               \/ pc[t] = "off" /\ l = "ingress"
               \/ /\ pc[t] \notin Unmade
                  /\ l \in {"resolve", "fill", "connect0", "connect1", "poll", "handle",
                            "forward", "crashed"}
        PROVE  Numbers'
    <2>1. NumberTypes'
      BY <1>1, <1>2 DEF NumberTypes
    <2>2. \A u \in Threads : pc'[u] = IF u = t THEN l ELSE pc[u]
      BY <1>1, <1>2 DEF NumberTypes
    <2> QED
      BY <1>2, <2>1, <2>2, NumbersStay DEF Unmade
  <1>3. ASSUME UNCHANGED <<pc, nextQp, qpn, early>>
        PROVE  Numbers'
    BY <1>1, <1>3, NumbersStay DEF NumberTypes
  <1>4. ASSUME NEW t \in Threads, Thread(t)
        PROVE  Numbers'
    <2> USE DEF Goto, setupVars, Unmade
    <2>1. CASE CreateIngress(t)
      BY <2>1, NumbersIngress
    <2>2. CASE CreateEgress(t)
      BY <2>2, NumbersEgress
    <2>3. CASE Start(t)
      BY <2>3, <1>2 DEF Start
    <2>4. CASE LeaveBarrier(t)
      BY <2>4, <1>2 DEF LeaveBarrier
    <2>5. CASE t = 0 /\ (Resolve \/ Fill)
      BY <2>5, <1>2 DEF Resolve, Fill
    <2>6. ASSUME NEW y \in Conns, Connect(t, y)
          PROVE  Numbers'
      <3>1. /\ UNCHANGED <<nextQp, qpn, early>> /\ pc[t] \notin Unmade
            /\ \E l \in {"crashed", "connect1", "poll"} : pc' = [pc EXCEPT ![t] = l]
        BY <2>6 DEF Connect, ConnectCrashes, ConnectGoesOn
      <3> QED
        BY <3>1, <1>2
    <2>7. CASE Poll(t) \/ HandleSend(t) \/ PostRecv(t) \/ Forward(t) \/ ForwardCrashes(t)
      BY <2>7, <1>2 DEF Poll, HandleSend, PostRecv, Forward, ForwardCrashes, GoOn
    <2> QED
      BY <1>4, <2>1, <2>2, <2>3, <2>4, <2>5, <2>6, <2>7 DEF Thread
  <1>5. CASE Device
    BY <1>5, <1>3 DEF Device, NicSend, setupVars
  <1>6. CASE \E k \in Tokens : Server(k)
    BY <1>6, <1>3 DEF Server, ServerReply, setupVars
  <1>7. CASE \E t \in Addressed, k \in Tokens : ClientSend(t, k)
    BY <1>7, <1>3 DEF ClientSend, setupVars
  <1>8. CASE UNCHANGED vars
    BY <1>8, <1>3 DEF vars, setupVars
  <1> QED
    BY <1>4, <1>5, <1>6, <1>7, <1>8 DEF Next

\* The numbers the clients count on: when no thread was early, the ingress queue pairs
\* are consecutive from the round number of thread 0 on, and the barrier keeps the
\* egress queue pairs behind them.
THEOREM IngressCorrect == Spec => []IngressContiguous
  <1>1. Numbers => IngressContiguous
    <2> SUFFICES ASSUME Numbers, ~early, \A t \in Threads : qpn[t][0] # 0
                 PROVE  /\ qpn[0][0] % Align = 0
                        /\ {qpn[t][0] : t \in Threads} = qpn[0][0] .. qpn[0][0] + NumThreads - 1
                        /\ \A t \in Threads :
                             qpn[t][1] # 0 => qpn[t][1] >= qpn[0][0] + NumThreads
      BY DEF IngressContiguous
    <2>1. NumberTypes /\ Numbered /\ qpn[0][0] # 0 /\ \A t \in Threads : pc[t] \notin Unmade
      BY Sizes DEF Numbers, Ordered
    <2>2. CASE Egress
      BY <2>1, <2>2 DEF Numbered
    <2>3. CASE ~Egress
      BY <2>1, <2>3, AsManyAsThreads DEF Numbered, Egress
    <2> QED
      BY <2>2, <2>3
  <1> QED
    BY <1>1, NumbersInit, NumbersNext, PTL DEF Spec

-----------------------------------------------------------------------------
(* The payloads: the buffers of a line, which leads from the receives of one  *)
(* connection to the sends of the other.                                      *)

Entries == [kind : {"recv", "send"}, buf : Bufs]

\* The buffers the receive completions in s name, and that each is named once.
RecvBufs(s) == {s[i].buf : i \in {j \in DOMAIN s : s[j].kind = "recv"}}
NamedOnce(s) ==
  \A i, j \in DOMAIN s :
    s[i].kind = "recv" /\ s[j].kind = "recv" /\ s[i].buf = s[j].buf => i = j

\* Receives polled and not forwarded, and those whose completion waits.
Polling(t, y) == IF turn[t] = y THEN RecvBufs(wc[t]) ELSE {}
Received(t, y) == Polling(t, y) \cup RecvBufs(cq[t][y])
SendBufs(s) == {s[i].buf : i \in DOMAIN s}
Busy(t, y) == Received(t, y) \cup SendBufs(sq[t][Other(y)])

\* The request in a busy buffer: copied from the receive buffer when it is forwarded.
Held(t, y, b) ==
  IF b \in Received(t, y) THEN bufRecv[t][y][b] ELSE bufSend[t][Other(y)][b]
Carried(t, y) == {Held(t, y, b) : b \in Busy(t, y)}

\* The buffer of the request being forwarded is posted again already.
Lent(t, y) == pc[t] = "forward" /\ turn[t] = y
LentOf(t, y) == IF Lent(t, y) THEN 1 ELSE 0
Connected(t, y) == InLoop(t) \/ (y = 0 /\ pc[t] = "connect1")

\* Every buffer is posted or received, only the lent one is both; the sends under way
\* read the buffers posted last, in order.
Apart(t, y) ==
  /\ NamedOnce(cq[t][y]) /\ NamedOnce(wc[t])
  /\ Polling(t, y) \cap RecvBufs(cq[t][y]) = {}
  /\ \A i, j \in DOMAIN rq[t][y] : rq[t][y][i] = rq[t][y][j] => i = j
  /\ \A i \in DOMAIN rq[t][y] :
       rq[t][y][i] \in Received(t, y) => Lent(t, y) /\ i = Len(rq[t][y])
  /\ \A b \in Bufs : b \in Received(t, y) \/ \E i \in DOMAIN rq[t][y] : rq[t][y][i] = b
Following(t, y) ==
  LET r == rq[t][y]
      s == sq[t][Other(y)]
  IN  /\ Lent(t, y) => r # <<>> /\ r[Len(r)] = Head(wc[t]).buf
      /\ Len(s) + LentOf(t, y) <= Len(r)
      /\ \A i \in DOMAIN s : s[i].buf = r[Len(r) - LentOf(t, y) - Len(s) + i]
Lines == \A t \in Threads, y \in Conns : Connected(t, y) => Apart(t, y) /\ Following(t, y)

\* A thread is between two polls exactly while it has completions to handle; before it
\* enters its loop nothing has come to it and it has sent nothing.
Located(t) ==
  /\ InLoop(t) => (wc[t] = <<>> <=> pc[t] = "poll")
  /\ pc[t] = "forward" => Head(wc[t]).kind = "recv"
  /\ ~InLoop(t) =>
       /\ wc[t] = <<>> /\ \A y \in Conns : cq[t][y] = <<>> /\ sq[t][y] = <<>>
       /\ \A x \in atServer : x[1] # t

\* No request is in two places.
Unique ==
  /\ \A t, u \in Threads, y, w \in Conns : \A b \in Busy(t, y), d \in Busy(u, w) :
       Held(t, y, b) = Held(u, w, d) => t = u /\ y = w /\ b = d
  /\ \A x, z \in atServer : x[3] = z[3] => x = z
  /\ \A t \in Threads, y \in Conns : \A b \in Busy(t, y) : \A x \in atServer : Held(t, y, b) # x[3]

\* The requests on their way are those in some place, and none has been dropped.
Accounted ==
  /\ \A t \in Threads, y \in Conns : \A b \in Busy(t, y) :
       Held(t, y, b) \in Tokens /\ client[Held(t, y, b)] = "out"
  /\ \A x \in atServer : client[x[3]] = "out"
  /\ \A k \in Tokens : client[k] = "out" =>
       \/ \E t \in Threads, y \in Conns : \E b \in Busy(t, y) : Held(t, y, b) = k
       \/ \E x \in atServer : x[3] = k
  /\ \A k \in Tokens : client[k] # "dropped"

\* Requests that have come to a connection and wait to be polled.
Waiting(t, y) == {bufRecv[t][y][b] : b \in RecvBufs(cq[t][y])}
AtServer(t) == {x[3] : x \in {z \in atServer : z[1] = t}}
\* What the completed sends of the two connections can have carried since the
\* connection was polled: towards the clients, requests that are back at their client,
\* lost, or waiting to be polled as new ones; towards the server, requests that are at the
\* server, lost, or waiting to be polled as responses.
Away(t) == Tokens \ ((Carried(t, 0) \ Waiting(t, 0)) \cup Carried(t, 1) \cup AtServer(t))
Beyond(t) == {k \in Tokens : client[k] = "lost" \/ k \in AtServer(t) \/ k \in Waiting(t, 1)}
RoomAt(t) ==
  /\ SendsIn(cq[t][0]) <= Cardinality(Away(t))
  /\ SendsIn(cq[t][1]) <= Cardinality(Beyond(t))
Slots ==
  /\ \A t \in Threads, y \in Conns : slots[t][y] = Len(sq[t][y]) + SendsIn(cq[t][y])
  /\ \A t \in Threads : RoomAt(t)

Dests == \A t \in Threads : \A i \in DOMAIN sq[t][1] : sq[t][1][i].dest \in 0 .. ServerCores - 1

PayloadInv ==
  /\ TypeOK
  /\ Dests
  /\ \A t \in Threads : Located(t)
  /\ Lines
  /\ Unique
  /\ Accounted
  /\ Slots

LEMMA RelaySizes ==
  /\ NumBufs \in Nat \ {0} /\ RxDepth \in Nat \ {0} /\ ServerCores \in Nat \ {0}
  /\ IsFiniteSet(Tokens) /\ Cardinality(Tokens) \in Nat /\ Tokens \subseteq Nat \ {0}
  /\ Cardinality(Tokens) <= NumBufs /\ NumBufs <= RxDepth
  /\ IsFiniteSet(Bufs) /\ Cardinality(Bufs) = NumBufs
  <1>1. {NumThreads, ServerCores, NumBufs, RxDepth, Align} \subseteq Nat \ {0}
    BY RelayAssumption
  <1>2. NumBufs \in Nat \ {0} /\ RxDepth \in Nat \ {0} /\ ServerCores \in Nat \ {0}
    BY <1>1
  <1>3. IsFiniteSet(Bufs) /\ Cardinality(Bufs) = NumBufs
    BY <1>2, FS_Interval, 0 \in Int, NumBufs - 1 \in Int DEF Bufs
  <1>4. Cardinality(Tokens) \in Nat
    BY RelayAssumption, FS_CardinalityType
  <1> QED
    BY <1>2, <1>3, <1>4, RelayAssumption

LEMMA TwoConns ==
  /\ 0 \in Conns /\ 1 \in Conns /\ Other(0) = 1 /\ Other(1) = 0
  /\ \A y \in Conns : Other(y) \in Conns /\ Other(y) # y /\ Other(Other(y)) = y
  /\ \A y, w \in Conns : w = y \/ w = Other(y)
  BY DEF Conns, Other

-----------------------------------------------------------------------------
(* Queues of completions and of sends. *)

LEMMA Assigned ==
  ASSUME NEW S, NEW f \in [Threads -> [Conns -> S]], NEW t \in Threads, NEW y \in Conns,
         NEW v \in S, NEW g, g = Set(f, t, y, v)
  PROVE  /\ g \in [Threads -> [Conns -> S]] /\ g[t][y] = v
         /\ \A u \in Threads, w \in Conns : ~(u = t /\ w = y) => g[u][w] = f[u][w]
  BY DEF Set

LEMMA Ends ==
  ASSUME NEW S, NEW s \in Seq(S)
  PROVE  /\ DOMAIN s = 1 .. Len(s) /\ Len(s) \in Nat
         /\ \A i \in DOMAIN s : s[i] \in S
         /\ s # <<>> =>
              /\ Head(s) \in S /\ Head(s) = s[1] /\ 1 \in DOMAIN s /\ Tail(s) \in Seq(S)
              /\ Len(Tail(s)) = Len(s) - 1
              /\ \A i \in DOMAIN Tail(s) : Tail(s)[i] = s[i + 1] /\ i + 1 \in DOMAIN s
         /\ \A i \in DOMAIN s : i = 1 \/ (i - 1 \in DOMAIN Tail(s) /\ Tail(s)[i - 1] = s[i])
  OBVIOUS

LEMMA Appended ==
  ASSUME NEW S, NEW s \in Seq(S), NEW e \in S
  PROVE  /\ Append(s, e) \in Seq(S) /\ Append(s, e) # <<>>
         /\ Len(Append(s, e)) = Len(s) + 1
         /\ DOMAIN Append(s, e) = DOMAIN s \cup {Len(s) + 1}
         /\ \A i \in DOMAIN s : Append(s, e)[i] = s[i] /\ i # Len(s) + 1
         /\ Append(s, e)[Len(s) + 1] = e
  OBVIOUS

LEMMA NoRecvs ==
  RecvBufs(<<>>) = {} /\ NamedOnce(<<>>) /\ SendBufs(<<>>) = {} /\ SendsIn(<<>>) = 0
  <1>1. {i \in DOMAIN <<>> : <<>>[i].kind = "send"} = {}
    OBVIOUS
  <1>2. SendsIn(<<>>) = 0
    BY <1>1, FS_EmptySet DEF SendsIn
  <1> QED
    BY <1>2 DEF RecvBufs, NamedOnce, SendBufs

LEMMA RecvBufsType ==
  ASSUME NEW s \in Seq(Entries)
  PROVE  RecvBufs(s) \subseteq Bufs
  <1> SUFFICES ASSUME NEW i \in DOMAIN s
               PROVE  s[i].buf \in Bufs
    BY DEF RecvBufs
  <1>1. s[i] \in Entries
    OBVIOUS
  <1> QED
    BY <1>1 DEF Entries

LEMMA SendsFinite ==
  ASSUME NEW s \in Seq(Entries)
  PROVE  IsFiniteSet({i \in DOMAIN s : s[i].kind = "send"}) /\ SendsIn(s) \in Nat
  <1>1. IsFiniteSet(DOMAIN s)
    BY Ends, FS_Interval, 1 \in Int
  <1>2. {i \in DOMAIN s : s[i].kind = "send"} \in SUBSET DOMAIN s
    OBVIOUS
  <1>3. IsFiniteSet({i \in DOMAIN s : s[i].kind = "send"})
    BY <1>1, <1>2, FS_Subset
  <1> QED
    BY <1>3, FS_CardinalityType DEF SendsIn

\* The device completes a receive or a send.
LEMMA Completing ==
  ASSUME NEW s \in Seq(Entries), NEW e \in Entries
  PROVE  /\ RecvBufs(Append(s, e)) = RecvBufs(s) \cup (IF e.kind = "recv" THEN {e.buf} ELSE {})
         /\ NamedOnce(s) /\ (e.kind = "recv" => e.buf \notin RecvBufs(s))
              => NamedOnce(Append(s, e))
         /\ SendsIn(Append(s, e)) = SendsIn(s) + (IF e.kind = "send" THEN 1 ELSE 0)
  <1> DEFINE a == Append(s, e)
             n == Len(s) + 1
  <1>1. /\ DOMAIN a = DOMAIN s \cup {n} /\ a[n] = e
        /\ \A i \in DOMAIN s : a[i] = s[i] /\ i # n
    BY Appended
  <1> HIDE DEF a, n
  <1>2. RecvBufs(a) = RecvBufs(s) \cup (IF e.kind = "recv" THEN {e.buf} ELSE {})
    BY <1>1 DEF RecvBufs
  <1>3. NamedOnce(s) /\ (e.kind = "recv" => e.buf \notin RecvBufs(s)) => NamedOnce(a)
    BY <1>1 DEF RecvBufs, NamedOnce
  <1>4. SendsIn(a) = SendsIn(s) + (IF e.kind = "send" THEN 1 ELSE 0)
    <2> DEFINE A == {i \in DOMAIN s : s[i].kind = "send"}
               B == {i \in DOMAIN a : a[i].kind = "send"}
    <2>1. IsFiniteSet(A) /\ Cardinality(A) \in Nat
      BY SendsFinite, FS_CardinalityType
    <2>2. B = IF e.kind = "send" THEN A \cup {n} ELSE A
      BY <1>1
    <2>3. n \notin A
      BY <1>1
    <2>4. Cardinality(A \cup {n}) = Cardinality(A) + 1
      BY <2>1, <2>3, FS_AddElement
    <2>5. SendsIn(a) = Cardinality(B) /\ SendsIn(s) = Cardinality(A)
      BY DEF SendsIn
    <2> HIDE DEF A, B
    <2>6. CASE e.kind = "send"
      BY <2>2, <2>4, <2>5, <2>6
    <2>7. CASE e.kind # "send"
      BY <2>1, <2>2, <2>5, <2>7
    <2> QED
      BY <2>6, <2>7
  <1> QED
    BY <1>2, <1>3, <1>4 DEF a

\* A thread is done with the first completion.
LEMMA Finishing ==
  ASSUME NEW s \in Seq(Entries), s # <<>>
  PROVE  /\ Head(s).kind = "recv" => Head(s).buf \in RecvBufs(s)
         /\ NamedOnce(s) => NamedOnce(Tail(s))
         /\ NamedOnce(s) => RecvBufs(Tail(s)) =
              IF Head(s).kind = "recv" THEN RecvBufs(s) \ {Head(s).buf} ELSE RecvBufs(s)
  <1> DEFINE q == Tail(s)
  <1>1. /\ Head(s) = s[1] /\ 1 \in DOMAIN s
        /\ \A i \in DOMAIN q : q[i] = s[i + 1] /\ i + 1 \in DOMAIN s /\ i + 1 # 1
        /\ \A i \in DOMAIN s : i = 1 \/ (i - 1 \in DOMAIN q /\ q[i - 1] = s[i])
        /\ \A i, j \in DOMAIN q : i + 1 = j + 1 => i = j
    OBVIOUS
  <1> HIDE DEF q
  <1>2. Head(s).kind = "recv" => Head(s).buf \in RecvBufs(s)
    BY <1>1 DEF RecvBufs
  <1>3. NamedOnce(s) => NamedOnce(q)
    BY <1>1 DEF NamedOnce
  <1>4. ASSUME NEW b, b \in RecvBufs(q)
        PROVE  b \in RecvBufs(s) /\ (NamedOnce(s) /\ Head(s).kind = "recv" => b # Head(s).buf)
    <2>1. PICK i \in DOMAIN q : q[i].kind = "recv" /\ b = q[i].buf
      BY <1>4 DEF RecvBufs
    <2>2. i + 1 \in DOMAIN s /\ s[i + 1].kind = "recv" /\ b = s[i + 1].buf /\ i + 1 # 1
      BY <1>1, <2>1
    <2> QED
      BY <1>1, <2>2 DEF RecvBufs, NamedOnce
  <1>5. ASSUME NEW b \in RecvBufs(s), ~(Head(s).kind = "recv" /\ b = Head(s).buf)
        PROVE  b \in RecvBufs(q)
    <2>1. PICK i \in DOMAIN s : s[i].kind = "recv" /\ b = s[i].buf
      BY DEF RecvBufs
    <2>2. i - 1 \in DOMAIN q /\ q[i - 1] = s[i]
      BY <1>1, <1>5, <2>1
    <2> QED
      BY <2>1, <2>2 DEF RecvBufs
  <1> QED
    BY <1>2, <1>3, <1>4, <1>5 DEF q

\* Posting and transmitting a send.
LEMMA SendsChange ==
  ASSUME NEW S, NEW s \in Seq(S)
  PROVE  /\ \A e \in S : SendBufs(Append(s, e)) = SendBufs(s) \cup {e.buf}
         /\ s # <<>> => Head(s).buf \in SendBufs(s)
         /\ s # <<>> /\ (\A i, j \in DOMAIN s : s[i].buf = s[j].buf => i = j)
              => SendBufs(Tail(s)) = SendBufs(s) \ {Head(s).buf}
  <1>1. ASSUME NEW e \in S
        PROVE  SendBufs(Append(s, e)) = SendBufs(s) \cup {e.buf}
    <2> DEFINE a == Append(s, e)
               n == Len(s) + 1
    <2>1. /\ DOMAIN a = DOMAIN s \cup {n} /\ a[n] = e /\ \A i \in DOMAIN s : a[i] = s[i]
      BY Appended
    <2> HIDE DEF a, n
    <2>2. SendBufs(a) = SendBufs(s) \cup {e.buf}
      BY <2>1 DEF SendBufs
    <2> QED
      BY <2>2 DEF a
  <1>2. s # <<>> => Head(s).buf \in SendBufs(s)
    BY Ends DEF SendBufs
  <1>3. ASSUME s # <<>>, \A i, j \in DOMAIN s : s[i].buf = s[j].buf => i = j
        PROVE  SendBufs(Tail(s)) = SendBufs(s) \ {Head(s).buf}
    <2> DEFINE q == Tail(s)
    <2>1. /\ Head(s) = s[1] /\ 1 \in DOMAIN s
          /\ \A i \in DOMAIN q : q[i] = s[i + 1] /\ i + 1 \in DOMAIN s /\ i + 1 # 1
          /\ \A i \in DOMAIN s : i = 1 \/ (i - 1 \in DOMAIN q /\ q[i - 1] = s[i])
      BY <1>3
    <2> HIDE DEF q
    <2>2. SendBufs(q) \subseteq SendBufs(s) \ {Head(s).buf}
      BY <1>3, <2>1 DEF SendBufs
    <2>3. SendBufs(s) \ {Head(s).buf} \subseteq SendBufs(q)
      <3> SUFFICES ASSUME NEW i \in DOMAIN s, s[i].buf # Head(s).buf
                   PROVE  s[i].buf \in SendBufs(q)
        BY DEF SendBufs
      <3>1. i - 1 \in DOMAIN q /\ q[i - 1] = s[i]
        BY <2>1
      <3> QED
        BY <3>1 DEF SendBufs
    <2> QED
      BY <2>2, <2>3 DEF q
  <1> QED
    BY <1>1, <1>2, <1>3

-----------------------------------------------------------------------------
(* Lines. *)

SendEntries == [buf : Bufs, dest : Int]
Locations == {"off", "ingress", "barrier1", "barrier2", "resolve", "fill", "connect0",
              "connect1", "poll", "handle", "forward", "crashed"}

LEMMA LineTypes ==
  ASSUME TypeOK, NEW t \in Threads, NEW y \in Conns
  PROVE  /\ rq[t][y] \in Seq(Bufs) /\ cq[t][y] \in Seq(Entries) /\ sq[t][y] \in Seq(SendEntries)
         /\ wc[t] \in Seq(Entries) /\ turn[t] \in Conns /\ slots[t][y] \in 0 .. RxDepth
         /\ bufRecv[t][y] \in [Bufs -> Tokens \cup {NoToken}]
         /\ bufSend[t][y] \in [Bufs -> Tokens \cup {NoToken}]
  <1>1. rq[t][y] \in Seq(Bufs) /\ cq[t][y] \in Seq(Entries) /\ sq[t][y] \in Seq(SendEntries)
    BY ZenonT(60) DEF TypeOK, Entries, SendEntries
  <1>2. wc[t] \in Seq(Entries) /\ turn[t] \in Conns /\ slots[t][y] \in 0 .. RxDepth
    BY DEF TypeOK, Entries
  <1>3. /\ bufRecv[t][y] \in [Bufs -> Tokens \cup {NoToken}]
        /\ bufSend[t][y] \in [Bufs -> Tokens \cup {NoToken}]
    BY DEF TypeOK
  <1> QED
    BY <1>1, <1>2, <1>3

LEMMA BusyType ==
  ASSUME TypeOK, NEW t \in Threads, NEW y \in Conns
  PROVE  Busy(t, y) \subseteq Bufs /\ Received(t, y) \subseteq Bufs
  <1>1. RecvBufs(wc[t]) \subseteq Bufs /\ RecvBufs(cq[t][y]) \subseteq Bufs
    BY LineTypes, RecvBufsType
  <1>2. SendBufs(sq[t][Other(y)]) \subseteq Bufs
    <2> SUFFICES ASSUME NEW i \in DOMAIN sq[t][Other(y)]
                 PROVE  sq[t][Other(y)][i].buf \in Bufs
      BY DEF SendBufs
    <2>1. sq[t][Other(y)] \in Seq(SendEntries)
      BY LineTypes, TwoConns
    <2>2. sq[t][Other(y)][i] \in SendEntries
      BY <2>1
    <2> QED
      BY <2>2 DEF SendEntries
  <1> QED
    BY <1>1, <1>2 DEF Busy, Received, Polling

\* A thread that is not in its loop holds nothing.
LEMMA NothingYet ==
  ASSUME NEW t \in Threads, NEW y \in Conns, Located(t), ~InLoop(t)
  PROVE  /\ Busy(t, y) = {} /\ Received(t, y) = {}
         /\ wc[t] = <<>> /\ cq[t][y] = <<>> /\ sq[t][y] = <<>>
  BY NoRecvs, TwoConns DEF Located, Busy, Received, Polling

\* A line in terms of its two queues: r is the receive queue, s the sends that read the
\* buffers posted last, except the lent one (l = 1), and R the buffers received.
Suffix(r, s, l, R) ==
  /\ Len(s) + l <= Len(r)
  /\ \A i \in DOMAIN s : s[i].buf = r[Len(r) - l - Len(s) + i]
  /\ \A i, j \in DOMAIN r : r[i] = r[j] => i = j
  /\ \A i \in DOMAIN r : r[i] \in R => l = 1 /\ i = Len(r)
  /\ l = 1 => r[Len(r)] \in R

LEMMA SuffixIndex ==
  ASSUME NEW r \in Seq(Bufs), NEW s \in Seq(SendEntries), NEW l \in {0, 1}, NEW R,
         Suffix(r, s, l, R), NEW i \in DOMAIN s
  PROVE  /\ Len(r) - l - Len(s) + i \in DOMAIN r
         /\ Len(r) - l - Len(s) + i <= Len(r) - l
  <1>1. i \in 1 .. Len(s) /\ Len(s) \in Nat /\ Len(r) \in Nat /\ DOMAIN r = 1 .. Len(r)
    OBVIOUS
  <1>2. Len(s) + l <= Len(r)
    BY DEF Suffix
  <1> QED
    BY <1>1, <1>2

\* The sends under way read different buffers, none of them received.
LEMMA SuffixApart ==
  ASSUME NEW r \in Seq(Bufs), NEW s \in Seq(SendEntries), NEW l \in {0, 1}, NEW R,
         Suffix(r, s, l, R)
  PROVE  /\ \A i, j \in DOMAIN s : s[i].buf = s[j].buf => i = j
         /\ SendBufs(s) \cap R = {}
  <1>1. Len(s) \in Nat /\ Len(r) \in Nat /\ DOMAIN s \subseteq Nat
    OBVIOUS
  <1>2. ASSUME NEW i \in DOMAIN s, NEW j \in DOMAIN s, s[i].buf = s[j].buf
        PROVE  i = j
    <2> DEFINE m == Len(r) - l - Len(s) + i
               n == Len(r) - l - Len(s) + j
    <2>3. m \in DOMAIN r /\ n \in DOMAIN r
      BY SuffixIndex
    <2>4. r[m] = s[i].buf /\ r[n] = s[j].buf
      BY DEF Suffix
    <2>1. m = n
      <3> HIDE DEF m, n
      <3> QED
        BY <1>2, <2>3, <2>4 DEF Suffix
    <2>2. i \in Nat /\ j \in Nat
      BY <1>1
    <2> QED
      BY <1>1, <2>1, <2>2
  <1>3. ASSUME NEW i \in DOMAIN s, s[i].buf \in R
        PROVE  FALSE
    <2>1. l = 1 /\ Len(r) - l - Len(s) + i = Len(r)
      BY <1>3, SuffixIndex DEF Suffix
    <2>2. Len(r) - l - Len(s) + i <= Len(r) - l
      BY SuffixIndex
    <2> QED
      BY <1>1, <2>1, <2>2
  <1> QED
    BY <1>2, <1>3 DEF SendBufs

\* If a posted buffer is neither received nor read by a send, the oldest one is.
LEMMA SuffixFree ==
  ASSUME NEW r \in Seq(Bufs), NEW s \in Seq(SendEntries), NEW l \in {0, 1}, NEW R,
         Suffix(r, s, l, R), NEW n \in DOMAIN r, r[n] \notin R \cup SendBufs(s)
  PROVE  /\ r # <<>> /\ Head(r) \in Bufs /\ Head(r) \notin R \cup SendBufs(s)
         /\ Len(s) + l < Len(r)
  <1>1. /\ Len(s) \in Nat /\ Len(r) \in Nat /\ DOMAIN s = 1 .. Len(s)
        /\ n \in 1 .. Len(r) /\ DOMAIN r = 1 .. Len(r)
    OBVIOUS
  <1>2. Len(s) + l < Len(r)
    <2>0. Len(s) + l <= Len(r) /\ l \in Int
      BY DEF Suffix
    <2> SUFFICES ASSUME ~(Len(s) + l < Len(r))
                 PROVE  FALSE
      OBVIOUS
    <2>4. Len(s) + l = Len(r)
      <3>1. \A a, b, c \in Int : a + c <= b /\ ~(a + c < b) => a + c = b
        OBVIOUS
      <3>2. Len(s) \in Int /\ Len(r) \in Int
        BY <1>1
      <3> QED
        BY <2>0, <3>1, <3>2
    <2>1. ~(l = 1 /\ n = Len(r))
      BY DEF Suffix
    <2>2. n \in DOMAIN s /\ Len(r) - l - Len(s) + n = n
      BY <1>1, <2>0, <2>1, <2>4
    <2>3. s[n].buf = r[n]
      BY <2>2 DEF Suffix
    <2> QED
      BY <2>2, <2>3 DEF SendBufs
  <1>3. r # <<>> /\ 1 \in DOMAIN r /\ Head(r) = r[1] /\ Head(r) \in Bufs
    <2>1. r # <<>>
      BY <1>1
    <2> QED
      BY <2>1, Ends
  <1>4. r[1] \notin R
    <2>1. l = 1 => Len(r) # 1
      BY <1>1, <1>2
    <2> QED
      BY <1>3, <2>1 DEF Suffix
  <1>5. ASSUME NEW j \in DOMAIN s, s[j].buf = r[1]
        PROVE  FALSE
    <2>1. Len(r) - l - Len(s) + j = 1
      BY <1>3, <1>5, SuffixIndex DEF Suffix
    <2>2. j \in 1 .. Len(s)
      BY <1>1
    <2> QED
      BY <1>1, <1>2, <2>1, <2>2
  <1> QED
    BY <1>2, <1>3, <1>4, <1>5 DEF SendBufs

LEMMA LineSuffix ==
  ASSUME TypeOK, NEW t \in Threads, NEW y \in Conns, Apart(t, y), Following(t, y), Located(t)
  PROVE  /\ rq[t][y] \in Seq(Bufs) /\ sq[t][Other(y)] \in Seq(SendEntries)
         /\ LentOf(t, y) \in {0, 1}
         /\ Suffix(rq[t][y], sq[t][Other(y)], LentOf(t, y), Received(t, y))
  <1>1. rq[t][y] \in Seq(Bufs) /\ sq[t][Other(y)] \in Seq(SendEntries) /\ wc[t] \in Seq(Entries)
    BY LineTypes, TwoConns
  <1>2. LentOf(t, y) \in {0, 1} /\ (LentOf(t, y) = 1 <=> Lent(t, y))
    BY DEF LentOf
  <1>3. ASSUME Lent(t, y)
        PROVE  rq[t][y][Len(rq[t][y])] \in Received(t, y)
    <2>1. wc[t] # <<>> /\ Head(wc[t]).kind = "recv" /\ turn[t] = y
      BY <1>3 DEF Lent, Located, InLoop
    <2>2. Head(wc[t]).buf \in RecvBufs(wc[t])
      BY <1>1, <2>1, Finishing
    <2> QED
      BY <1>3, <2>1, <2>2 DEF Following, Received, Polling
  <1>4. /\ Len(sq[t][Other(y)]) + LentOf(t, y) <= Len(rq[t][y])
        /\ \A i \in DOMAIN sq[t][Other(y)] : sq[t][Other(y)][i].buf =
             rq[t][y][Len(rq[t][y]) - LentOf(t, y) - Len(sq[t][Other(y)]) + i]
    BY DEF Following
  <1>5. /\ \A i, j \in DOMAIN rq[t][y] : rq[t][y][i] = rq[t][y][j] => i = j
        /\ \A i \in DOMAIN rq[t][y] :
             rq[t][y][i] \in Received(t, y) => Lent(t, y) /\ i = Len(rq[t][y])
    BY DEF Apart
  <1> QED
    BY <1>1, <1>2, <1>3, <1>4, <1>5 DEF Suffix

LEMMA SendsApart ==
  ASSUME TypeOK, NEW t \in Threads, NEW y \in Conns, Apart(t, y), Following(t, y), Located(t)
  PROVE  /\ \A i, j \in DOMAIN sq[t][Other(y)] :
              sq[t][Other(y)][i].buf = sq[t][Other(y)][j].buf => i = j
         /\ SendBufs(sq[t][Other(y)]) \cap Received(t, y) = {}
  BY LineSuffix, SuffixApart

\* There are no more requests than buffers: while one of them is elsewhere, a line has
\* a buffer that is not busy.
LEMMA BufferLeft ==
  ASSUME TypeOK, Unique, Accounted, NEW t \in Threads, NEW y \in Conns, NEW k \in Tokens,
         k \notin Carried(t, y)
  PROVE  \E b \in Bufs : b \notin Busy(t, y)
  <1> SUFFICES ASSUME Bufs \subseteq Busy(t, y)
               PROVE  FALSE
    OBVIOUS
  <1> DEFINE f == [b \in Bufs |-> Held(t, y, b)]
  <1>1. f \in [Bufs -> Tokens \ {k}]
    BY DEF Accounted, Carried
  <1>2. IsFiniteSet(Tokens \ {k}) /\ Cardinality(Tokens \ {k}) = Cardinality(Tokens) - 1
    BY RelaySizes, FS_RemoveElement
  <1>3. Cardinality(Tokens \ {k}) < Cardinality(Bufs)
    BY <1>2, RelaySizes
  <1>4. \E b, d \in Bufs : b # d /\ f[b] = f[d]
    <2> HIDE DEF f
    <2> QED
      BY <1>1, <1>2, <1>3, RelaySizes, FS_PigeonHole
  <1> QED
    BY <1>4 DEF Unique

\* So an arriving request finds a receive, and its buffer is not busy.
LEMMA ReceiveFree ==
  ASSUME TypeOK, Unique, Accounted, NEW t \in Threads, NEW y \in Conns, NEW k \in Tokens,
         k \notin Carried(t, y), Apart(t, y), Following(t, y), Located(t)
  PROVE  /\ rq[t][y] # <<>> /\ Head(rq[t][y]) \in Bufs /\ Head(rq[t][y]) \notin Busy(t, y)
         /\ Len(sq[t][Other(y)]) + LentOf(t, y) < Len(rq[t][y])
  <1>1. PICK b \in Bufs : b \notin Busy(t, y)
    BY BufferLeft
  <1>2. PICK n \in DOMAIN rq[t][y] : rq[t][y][n] = b
    BY <1>1 DEF Apart, Busy
  <1>3. b \notin Received(t, y) \cup SendBufs(sq[t][Other(y)])
    BY <1>1 DEF Busy
  <1>4. Busy(t, y) = Received(t, y) \cup SendBufs(sq[t][Other(y)])
    BY DEF Busy
  <1> QED
    BY <1>2, <1>3, <1>4, LineSuffix, SuffixFree

-----------------------------------------------------------------------------
(* How the steps change where the requests are. *)

\* What is in every line but line y of thread t stays.
OtherLinesStay(t, y) ==
  \A u \in Threads, w \in Conns : ~(u = t /\ w = y) =>
    /\ Busy(u, w)' = Busy(u, w)
    /\ \A d \in Busy(u, w) : Held(u, w, d)' = Held(u, w, d)

LinesStay ==
  \A u \in Threads, w \in Conns :
    /\ Busy(u, w)' = Busy(u, w)
    /\ \A d \in Busy(u, w) : Held(u, w, d)' = Held(u, w, d)

\* Buffer b of a line becomes busy with request k, or ceases to be.
Joins(t, y, b, k) ==
  /\ OtherLinesStay(t, y)
  /\ b \notin Busy(t, y) /\ Busy(t, y)' = Busy(t, y) \cup {b}
  /\ Held(t, y, b)' = k /\ \A d \in Busy(t, y) : Held(t, y, d)' = Held(t, y, d)
Leaves(t, y, b) ==
  /\ OtherLinesStay(t, y)
  /\ b \in Busy(t, y) /\ Busy(t, y)' = Busy(t, y) \ {b}
  /\ \A d \in Busy(t, y) \ {b} : Held(t, y, d)' = Held(t, y, d)

\* Request k is at the client or the server and comes in; it goes out to the client or
\* the server.
ComesIn(t, y, k) ==
  /\ client' = [client EXCEPT ![k] = "out"]
  /\ \/ y = 0 /\ client[k] = "idle" /\ atServer' = atServer
     \/ y = 1 /\ \E x \in atServer : x[1] = t /\ x[3] = k /\ atServer' = atServer \ {x}
GoesOut(t, y, k) ==
  \/ y = 1 /\ client' = [client EXCEPT ![k] = "idle"] /\ atServer' = atServer
  \/ client' = [client EXCEPT ![k] = "lost"] /\ atServer' = atServer
  \/ y = 0 /\ client' = client /\ \E x : x[1] = t /\ x[3] = k /\ atServer' = atServer \cup {x}

LEMMA PlacesStay ==
  ASSUME Unique, Accounted, LinesStay, UNCHANGED <<atServer, client>>
  PROVE  Unique' /\ Accounted'
  <1>1. Unique'
    BY DEF Unique, LinesStay
  <1>2. Accounted'
    <2>1. \A t \in Threads, y \in Conns : \A b \in Busy(t, y)' :
            Held(t, y, b)' \in Tokens /\ client'[Held(t, y, b)'] = "out"
      BY DEF Accounted, LinesStay
    <2>2. ASSUME NEW k \in Tokens, client[k] = "out"
          PROVE  \/ \E t \in Threads, y \in Conns : \E b \in Busy(t, y)' : Held(t, y, b)' = k
                 \/ \E x \in atServer : x[3] = k
      BY <2>2 DEF Accounted, LinesStay
    <2> QED
      BY <2>1, <2>2 DEF Accounted
  <1> QED
    BY <1>1, <1>2

\* A request that comes in is in no line.
LEMMA NotInLines ==
  ASSUME Unique, Accounted, NEW t \in Threads, NEW y \in Conns, NEW k, ComesIn(t, y, k)
  PROVE  \A u \in Threads, w \in Conns : \A d \in Busy(u, w) : Held(u, w, d) # k
  BY DEF Unique, Accounted, ComesIn

LEMMA PlacesJoin ==
  ASSUME TypeOK, Unique, Accounted, NEW t \in Threads, NEW y \in Conns, NEW b, NEW k \in Tokens,
         Joins(t, y, b, k), ComesIn(t, y, k)
  PROVE  Unique' /\ Accounted'
  <1>1. /\ \A u \in Threads, w \in Conns : \A d : d \in Busy(u, w)' =>
              \/ u = t /\ w = y /\ d = b /\ Held(u, w, d)' = k
              \/ d \in Busy(u, w) /\ Held(u, w, d)' = Held(u, w, d)
        /\ \A u \in Threads, w \in Conns : \A d \in Busy(u, w) :
              d \in Busy(u, w)' /\ Held(u, w, d)' = Held(u, w, d)
        /\ b \in Busy(t, y)' /\ Held(t, y, b)' = k
    BY DEF Joins, OtherLinesStay
  <1>2. \A u \in Threads, w \in Conns : \A d \in Busy(u, w) : Held(u, w, d) # k
    BY NotInLines
  <1>3. /\ \A x \in atServer' : x \in atServer /\ x[3] # k
        /\ \A x \in atServer : x[3] # k => x \in atServer'
    BY DEF ComesIn, Unique, Accounted
  <1>4. client \in [Tokens -> {"idle", "out", "lost", "dropped"}]
    BY DEF TypeOK
  <1>5. client'[k] = "out" /\ \A j \in Tokens : j # k => client'[j] = client[j]
    BY <1>4 DEF ComesIn
  <1>6. Unique'
    <2>1. ASSUME NEW u \in Threads, NEW v \in Threads, NEW w \in Conns, NEW z \in Conns,
                 NEW d \in Busy(u, w)', NEW e \in Busy(v, z)', Held(u, w, d)' = Held(v, z, e)'
          PROVE  u = v /\ w = z /\ d = e
      BY <1>1, <1>2, <2>1 DEF Unique
    <2>2. \A x, z \in atServer' : x[3] = z[3] => x = z
      BY <1>3 DEF Unique
    <2>3. ASSUME NEW u \in Threads, NEW w \in Conns, NEW d \in Busy(u, w)', NEW x \in atServer'
          PROVE  Held(u, w, d)' # x[3]
      BY <1>1, <1>3 DEF Unique
    <2> QED
      BY <2>1, <2>2, <2>3 DEF Unique
  <1>7. Accounted'
    <2>1. ASSUME NEW u \in Threads, NEW w \in Conns, NEW d \in Busy(u, w)'
          PROVE  Held(u, w, d)' \in Tokens /\ client'[Held(u, w, d)'] = "out"
      BY <1>1, <1>5 DEF Accounted
    <2>2. ASSUME NEW x \in atServer'
          PROVE  client'[x[3]] = "out"
      <3>1. client[x[3]] = "out" /\ x[3] # k
        BY <1>3 DEF Accounted
      <3>2. x \in Threads \X (0 .. ServerCores - 1) \X Tokens
        BY <1>3 DEF TypeOK
      <3>3. x[3] \in Tokens
        BY <3>2
      <3> QED
        BY <1>5, <3>1, <3>3
    <2>3. ASSUME NEW j \in Tokens, client'[j] = "out"
          PROVE  \/ \E u \in Threads, w \in Conns : \E d \in Busy(u, w)' : Held(u, w, d)' = j
                 \/ \E x \in atServer' : x[3] = j
      <3>1. CASE j = k
        BY <1>1, <3>1
      <3>2. CASE j # k
        <4>1. client[j] = "out"
          BY <1>5, <2>3, <3>2
        <4>2. CASE \E u \in Threads, w \in Conns : \E d \in Busy(u, w) : Held(u, w, d) = j
          BY <1>1, <4>2
        <4>3. CASE \E x \in atServer : x[3] = j
          BY <1>3, <3>2, <4>3
        <4> QED
          BY <4>1, <4>2, <4>3 DEF Accounted
      <3> QED
        BY <3>1, <3>2
    <2>4. \A j \in Tokens : client'[j] # "dropped"
      BY <1>5 DEF Accounted
    <2> QED
      BY <2>1, <2>2, <2>3, <2>4 DEF Accounted
  <1> QED
    BY <1>6, <1>7

LEMMA PlacesLeave ==
  ASSUME TypeOK, Unique, Accounted, NEW t \in Threads, NEW y \in Conns, NEW b,
         Leaves(t, y, b), GoesOut(t, y, Held(t, y, b))
  PROVE  Unique' /\ Accounted'
  <1> DEFINE k == Held(t, y, b)
  <1>1. /\ \A u \in Threads, w \in Conns : \A d : d \in Busy(u, w)' =>
              d \in Busy(u, w) /\ ~(u = t /\ w = y /\ d = b) /\ Held(u, w, d)' = Held(u, w, d)
        /\ \A u \in Threads, w \in Conns : \A d \in Busy(u, w) : ~(u = t /\ w = y /\ d = b) =>
              d \in Busy(u, w)' /\ Held(u, w, d)' = Held(u, w, d)
        /\ b \in Busy(t, y)
    BY DEF Leaves, OtherLinesStay
  <1>2. k \in Tokens /\ client[k] = "out" /\ \A x \in atServer : x[3] # k
    BY <1>1 DEF Unique, Accounted
  <1>3. \A u \in Threads, w \in Conns : \A d \in Busy(u, w)' : Held(u, w, d)' # k
    BY <1>1 DEF Unique
  <1>4. client \in [Tokens -> {"idle", "out", "lost", "dropped"}]
    BY DEF TypeOK
  <1>5. \A x \in atServer : x[3] \in Tokens
    <2> TAKE x \in atServer
    <2>1. x \in Threads \X (0 .. ServerCores - 1) \X Tokens
      BY DEF TypeOK
    <2> QED
      BY <2>1
  <1>6. /\ \A j \in Tokens : j # k => client'[j] = client[j]
        /\ client'[k] # "dropped" /\ atServer \subseteq atServer'
        /\ \/ client'[k] # "out" /\ atServer' = atServer
           \/ client'[k] = "out" /\ \E x : x[3] = k /\ atServer' = atServer \cup {x}
    BY <1>2, <1>4 DEF GoesOut
  <1> HIDE DEF k
  <1>7. \A x \in atServer' : x \in atServer \/ x[3] = k
    BY <1>6
  <1>8. Unique'
    <2>1. ASSUME NEW u \in Threads, NEW v \in Threads, NEW w \in Conns, NEW z \in Conns,
                 NEW d \in Busy(u, w)', NEW e \in Busy(v, z)', Held(u, w, d)' = Held(v, z, e)'
          PROVE  u = v /\ w = z /\ d = e
      BY <1>1, <2>1 DEF Unique
    <2>2. \A x, z \in atServer' : x[3] = z[3] => x = z
      BY <1>2, <1>6 DEF Unique
    <2>3. ASSUME NEW u \in Threads, NEW w \in Conns, NEW d \in Busy(u, w)', NEW x \in atServer'
          PROVE  Held(u, w, d)' # x[3]
      BY <1>1, <1>3, <1>7 DEF Unique
    <2> QED
      BY <2>1, <2>2, <2>3 DEF Unique
  <1>9. Accounted'
    <2>1. ASSUME NEW u \in Threads, NEW w \in Conns, NEW d \in Busy(u, w)'
          PROVE  Held(u, w, d)' \in Tokens /\ client'[Held(u, w, d)'] = "out"
      <3>1. Held(u, w, d)' # k /\ Held(u, w, d)' = Held(u, w, d) /\ d \in Busy(u, w)
        BY <1>1, <1>3
      <3> QED
        BY <1>6, <3>1 DEF Accounted
    <2>2. ASSUME NEW x \in atServer'
          PROVE  client'[x[3]] = "out"
      <3>1. CASE x \in atServer
        BY <1>2, <1>5, <1>6, <3>1 DEF Accounted
      <3>2. CASE x \notin atServer
        BY <1>6, <1>7, <3>2
      <3> QED
        BY <3>1, <3>2
    <2>3. ASSUME NEW j \in Tokens, client'[j] = "out"
          PROVE  \/ \E u \in Threads, w \in Conns : \E d \in Busy(u, w)' : Held(u, w, d)' = j
                 \/ \E x \in atServer' : x[3] = j
      <3>1. CASE j = k
        BY <1>6, <2>3, <3>1
      <3>2. CASE j # k
        <4>1. client[j] = "out"
          BY <1>6, <2>3, <3>2
        <4>2. CASE \E u \in Threads, w \in Conns : \E d \in Busy(u, w) : Held(u, w, d) = j
          BY <1>1, <3>2, <4>2 DEF k
        <4>3. CASE \E x \in atServer : x[3] = j
          BY <1>6, <4>3
        <4> QED
          BY <4>1, <4>2, <4>3 DEF Accounted
      <3> QED
        BY <3>1, <3>2
    <2>4. \A j \in Tokens : client'[j] # "dropped"
      BY <1>6 DEF Accounted
    <2> QED
      BY <2>1, <2>2, <2>3, <2>4 DEF Accounted
  <1> QED
    BY <1>8, <1>9

-----------------------------------------------------------------------------
(* How many sends can have completed since a connection was polled. *)

LEMMA WaitingCarried ==
  ASSUME NEW t \in Threads, NEW y \in Conns
  PROVE  Waiting(t, y) \subseteq Carried(t, y)
  BY DEF Waiting, Carried, Held, Busy, Received

LEMMA RoomGrows ==
  ASSUME NEW A, NEW B \in SUBSET Tokens, A \subseteq B, NEW n \in Nat, NEW m \in Nat,
         n <= Cardinality(A), m <= n \/ (m = n + 1 /\ \E k \in B : k \notin A)
  PROVE  m <= Cardinality(B)
  <1>1. IsFiniteSet(B) /\ IsFiniteSet(A)
    BY RelaySizes, FS_Subset
  <1>2. /\ Cardinality(A) \in Nat /\ Cardinality(B) \in Nat /\ Cardinality(A) <= Cardinality(B)
        /\ Cardinality(A) = Cardinality(B) => A = B
    BY <1>1, FS_CardinalityType, FS_Subset
  <1>3. CASE m <= n
    BY <1>2, <1>3
  <1>4. CASE m = n + 1 /\ \E k \in B : k \notin A
    <2>1. Cardinality(A) # Cardinality(B)
      BY <1>2, <1>4
    <2> QED
      BY <1>2, <1>4, <2>1
  <1> QED
    BY <1>3, <1>4

LEMMA AwaySubset == \A t \in Threads : Away(t) \subseteq Tokens /\ Beyond(t) \subseteq Tokens
  BY DEF Away, Beyond

\* Nothing comes in or goes out; a connection may have been polled.
LEMMA RoomStays ==
  ASSUME TypeOK, NEW u \in Threads, RoomAt(u), UNCHANGED <<atServer, client>>,
         \A w \in Conns : Carried(u, w)' = Carried(u, w),
         \A w \in Conns : \/ cq'[u][w] = <<>>
                          \/ cq'[u][w] = cq[u][w] /\ Waiting(u, w)' = Waiting(u, w)
  PROVE  RoomAt(u)'
  <1>1. SendsIn(cq[u][0]) \in Nat /\ SendsIn(cq[u][1]) \in Nat
    BY LineTypes, SendsFinite, TwoConns
  <1>2. Away(u)' \in SUBSET Tokens /\ Beyond(u)' \in SUBSET Tokens
    BY DEF Away, Beyond
  <1>3. AtServer(u)' = AtServer(u)
    BY DEF AtServer
  <1>4. SendsIn(cq'[u][0]) <= Cardinality(Away(u)')
    <2>1. CASE cq'[u][0] = <<>>
      <3>1. Cardinality(Away(u)') \in Nat
        BY <1>2, RelaySizes, FS_Subset, FS_CardinalityType
      <3> QED
        BY <2>1, <3>1, NoRecvs
    <2>2. CASE cq'[u][0] = cq[u][0] /\ Waiting(u, 0)' = Waiting(u, 0)
      <3>1. Away(u)' = Away(u)
        BY <1>3, <2>2, TwoConns DEF Away
      <3> QED
        BY <2>2, <3>1 DEF RoomAt
    <2> QED
      BY <2>1, <2>2, TwoConns
  <1>5. SendsIn(cq'[u][1]) <= Cardinality(Beyond(u)')
    <2>1. CASE cq'[u][1] = <<>>
      <3>1. Cardinality(Beyond(u)') \in Nat
        BY <1>2, RelaySizes, FS_Subset, FS_CardinalityType
      <3> QED
        BY <2>1, <3>1, NoRecvs
    <2>2. CASE cq'[u][1] = cq[u][1] /\ Waiting(u, 1)' = Waiting(u, 1)
      <3>1. Beyond(u)' = Beyond(u)
        BY <1>3, <2>2, TwoConns DEF Beyond
      <3> QED
        BY <2>2, <3>1 DEF RoomAt
    <2> QED
      BY <2>1, <2>2, TwoConns
  <1> QED
    BY <1>4, <1>5 DEF RoomAt

LEMMA CarriedChange ==
  ASSUME NEW t \in Threads, NEW y \in Conns, OtherLinesStay(t, y)
  PROVE  \A u \in Threads, w \in Conns : ~(u = t /\ w = y) => Carried(u, w)' = Carried(u, w)
  BY DEF OtherLinesStay, Carried

LEMMA RoomJoin ==
  ASSUME TypeOK, Unique, Accounted, NEW t \in Threads, NEW y \in Conns, NEW b, NEW k \in Tokens,
         Joins(t, y, b, k), ComesIn(t, y, k),
         \A u \in Threads, w \in Conns : SendsIn(cq'[u][w]) = SendsIn(cq[u][w]),
         \A u \in Threads, w \in Conns : ~(u = t /\ w = y) => Waiting(u, w)' = Waiting(u, w),
         Waiting(t, y)' = Waiting(t, y) \cup {k},
         NEW u \in Threads, RoomAt(u)
  PROVE  RoomAt(u)'
  <1>1. SendsIn(cq[u][0]) \in Nat /\ SendsIn(cq[u][1]) \in Nat
    BY LineTypes, SendsFinite, TwoConns
  <1>2. Away(u)' \in SUBSET Tokens /\ Beyond(u)' \in SUBSET Tokens
    BY DEF Away, Beyond
  <1>3. /\ \A v \in Threads, w \in Conns : ~(v = t /\ w = y) => Carried(v, w)' = Carried(v, w)
        /\ Carried(t, y)' = Carried(t, y) \cup {k}
    BY SMTT(30), CarriedChange DEF Joins, Carried
  <1>4. \A v \in Threads, w \in Conns : k \notin Carried(v, w)
    BY NotInLines DEF Carried
  <1>5. /\ y = 0 => client[k] = "idle" /\ \A v \in Threads : AtServer(v)' = AtServer(v)
        /\ y = 0 => \A v \in Threads : k \notin AtServer(v)
        /\ y = 1 => AtServer(t)' = AtServer(t) \ {k} /\ k \in AtServer(t)
        /\ y = 1 => \A v \in Threads : v # t => AtServer(v)' = AtServer(v)
    BY DEF ComesIn, AtServer, Unique, Accounted
  <1>6. client[k] # "lost" /\ \A j \in Tokens : j # k => client'[j] = client[j]
    <2>1. client \in [Tokens -> {"idle", "out", "lost", "dropped"}]
      BY DEF TypeOK
    <2> QED
      BY <2>1 DEF ComesIn, Accounted
  <1>7. Away(u) \subseteq Away(u)'
    <2>1. CASE u # t
      <3>1. Carried(u, 0)' = Carried(u, 0) /\ Carried(u, 1)' = Carried(u, 1)
        BY <1>3, <2>1, TwoConns
      <3>2. Waiting(u, 0)' = Waiting(u, 0) /\ AtServer(u)' = AtServer(u)
        BY <1>5, <2>1, TwoConns DEF Conns
      <3> QED
        BY <3>1, <3>2 DEF Away
    <2>2. CASE u = t /\ y = 0
      <3>1. Carried(u, 0)' = Carried(u, 0) \cup {k} /\ Carried(u, 1)' = Carried(u, 1)
        BY <1>3, <2>2, TwoConns
      <3>2. Waiting(u, 0)' = Waiting(u, 0) \cup {k} /\ AtServer(u)' = AtServer(u)
        BY <1>5, <2>2
      <3> QED
        BY <3>1, <3>2 DEF Away
    <2>3. CASE u = t /\ y = 1
      <3>1. Carried(u, 1)' = Carried(u, 1) \cup {k} /\ Carried(u, 0)' = Carried(u, 0)
        BY <1>3, <2>3, TwoConns
      <3>2. /\ Waiting(u, 0)' = Waiting(u, 0) /\ AtServer(u)' = AtServer(u) \ {k}
            /\ k \in AtServer(u)
        BY <1>5, <2>3, TwoConns
      <3> QED
        BY <3>1, <3>2 DEF Away
    <2> QED
      BY <2>1, <2>2, <2>3 DEF Conns
  <1>8. Beyond(u) \subseteq Beyond(u)'
    <2>1. CASE u # t \/ y = 0
      <3>1. Waiting(u, 1)' = Waiting(u, 1) /\ AtServer(u)' = AtServer(u)
        BY <1>5, <2>1, TwoConns DEF Conns
      <3> QED
        BY <1>6, <3>1 DEF Beyond
    <2>2. CASE u = t /\ y = 1
      <3>1. Waiting(u, 1)' = Waiting(u, 1) \cup {k} /\ AtServer(u)' = AtServer(u) \ {k}
        BY <1>5, <2>2
      <3> QED
        BY <1>6, <3>1 DEF Beyond
    <2> QED
      BY <2>1, <2>2 DEF Conns
  <1>9. SendsIn(cq'[u][0]) <= Cardinality(Away(u)')
    BY <1>1, <1>2, <1>7, RoomGrows, TwoConns DEF RoomAt
  <1>10. SendsIn(cq'[u][1]) <= Cardinality(Beyond(u)')
    BY <1>1, <1>2, <1>8, RoomGrows, TwoConns DEF RoomAt
  <1> QED
    BY <1>9, <1>10 DEF RoomAt

LEMMA RoomLeave ==
  ASSUME TypeOK, Unique, Accounted, NEW t \in Threads, NEW y \in Conns, NEW b,
         Leaves(t, y, b), GoesOut(t, y, Held(t, y, b)),
         \A u \in Threads, w \in Conns : SendsIn(cq'[u][w]) =
           SendsIn(cq[u][w]) + (IF u = t /\ w = Other(y) THEN 1 ELSE 0),
         \A u \in Threads, w \in Conns : Waiting(u, w)' = Waiting(u, w),
         Held(t, y, b) \notin Waiting(t, y),
         NEW u \in Threads, RoomAt(u)
  PROVE  RoomAt(u)'
  <1> DEFINE k == Held(t, y, b)
  <1>1. SendsIn(cq[u][0]) \in Nat /\ SendsIn(cq[u][1]) \in Nat
    BY LineTypes, SendsFinite, TwoConns
  <1>2. Away(u)' \in SUBSET Tokens /\ Beyond(u)' \in SUBSET Tokens
    BY DEF Away, Beyond
  <1>3. /\ \A v \in Threads, w \in Conns : ~(v = t /\ w = y) => Carried(v, w)' = Carried(v, w)
        /\ Carried(t, y)' = Carried(t, y) \ {k}
    BY SMTT(30), CarriedChange DEF Leaves, Carried, Unique
  <1>4. /\ \A v \in Threads, w \in Conns : ~(v = t /\ w = y) => k \notin Carried(v, w)
        /\ k \in Carried(t, y) /\ k \in Tokens /\ client[k] = "out"
        /\ \A v \in Threads : k \notin AtServer(v)
    BY DEF Carried, Leaves, Unique, Accounted, AtServer
  <1>5. \A j \in Tokens : j # k => client'[j] = client[j]
    <2>1. client \in [Tokens -> {"idle", "out", "lost", "dropped"}]
      BY DEF TypeOK
    <2> QED
      BY <2>1 DEF GoesOut
  <1>6. /\ y = 1 => \A v \in Threads : AtServer(v)' = AtServer(v)
        /\ \A v \in Threads : v # t => AtServer(v)' = AtServer(v)
        /\ AtServer(t) \subseteq AtServer(t)' /\ AtServer(t)' \subseteq AtServer(t) \cup {k}
        /\ y = 0 => client'[k] = "lost" \/ k \in AtServer(t)'
    <2>1. client \in [Tokens -> {"idle", "out", "lost", "dropped"}]
      BY DEF TypeOK
    <2> QED
      BY <1>4, <2>1 DEF GoesOut, AtServer
  <1>7. Waiting(u, 0)' = Waiting(u, 0) /\ Waiting(u, 1)' = Waiting(u, 1) /\ k \notin Waiting(t, y)
    BY TwoConns
  <1> HIDE DEF k
  <1>8. Away(u) \subseteq Away(u)'
    <2>1. CASE u # t
      <3>1. Carried(u, 0)' = Carried(u, 0) /\ Carried(u, 1)' = Carried(u, 1)
        BY <1>3, <2>1, TwoConns
      <3> QED
        BY <1>6, <1>7, <2>1, <3>1 DEF Away
    <2>2. CASE u = t /\ y = 0
      <3>1. Carried(u, 0)' = Carried(u, 0) \ {k} /\ Carried(u, 1)' = Carried(u, 1)
        BY <1>3, <2>2, TwoConns
      <3>2. k \notin Away(u)
        BY <1>4, <1>7, <2>2 DEF Away
      <3> QED
        BY <1>6, <1>7, <2>2, <3>1, <3>2 DEF Away
    <2>3. CASE u = t /\ y = 1
      <3>1. Carried(u, 1)' = Carried(u, 1) \ {k} /\ Carried(u, 0)' = Carried(u, 0)
        BY <1>3, <2>3, TwoConns
      <3> QED
        BY <1>6, <1>7, <2>3, <3>1 DEF Away
    <2> QED
      BY <2>1, <2>2, <2>3 DEF Conns
  <1>9. u = t /\ y = 1 => k \in Away(u)' /\ k \notin Away(u)
    <2> SUFFICES ASSUME u = t, y = 1
                 PROVE  k \in Away(u)' /\ k \notin Away(u)
      OBVIOUS
    <2>1. k \in Carried(u, 1) /\ k \notin Carried(u, 1)' /\ k \notin Carried(u, 0)'
      BY <1>3, <1>4, TwoConns
    <2>2. k \notin AtServer(u)'
      BY <1>4, <1>6
    <2> QED
      BY <1>4, <2>1, <2>2 DEF Away
  <1>10. Beyond(u) \subseteq Beyond(u)'
    <2>1. AtServer(u) \subseteq AtServer(u)'
      BY <1>6
    <2>2. \A j \in Tokens : client[j] = "lost" => client'[j] = "lost"
      BY <1>4, <1>5
    <2> QED
      BY <1>7, <2>1, <2>2 DEF Beyond
  <1>11. u = t /\ y = 0 => k \in Beyond(u)' /\ k \notin Beyond(u)
    <2> SUFFICES ASSUME u = t, y = 0
                 PROVE  k \in Beyond(u)' /\ k \notin Beyond(u)
      OBVIOUS
    <2>1. k \notin Waiting(u, 1)
      BY <1>4, WaitingCarried, TwoConns
    <2> QED
      BY <1>4, <1>6, <2>1 DEF Beyond
  <1>12. SendsIn(cq'[u][0]) <= Cardinality(Away(u)')
    <2>1. SendsIn(cq[u][0]) <= Cardinality(Away(u))
      BY DEF RoomAt
    <2>2. SendsIn(cq'[u][0]) = IF u = t /\ y = 1 THEN SendsIn(cq[u][0]) + 1 ELSE SendsIn(cq[u][0])
      BY <1>1, TwoConns DEF Conns
    <2> QED
      BY <1>1, <1>2, <1>8, <1>9, <2>1, <2>2, RoomGrows
  <1>13. SendsIn(cq'[u][1]) <= Cardinality(Beyond(u)')
    <2>1. SendsIn(cq[u][1]) <= Cardinality(Beyond(u))
      BY DEF RoomAt
    <2>2. SendsIn(cq'[u][1]) = IF u = t /\ y = 0 THEN SendsIn(cq[u][1]) + 1 ELSE SendsIn(cq[u][1])
      BY <1>1, TwoConns DEF Conns
    <2> QED
      BY <1>1, <1>2, <1>10, <1>11, <2>1, <2>2, RoomGrows
  <1> QED
    BY <1>12, <1>13 DEF RoomAt

\* A request being forwarded finds a slot: the requests it could share the send queue
\* with are none of those that have gone beyond it.
LEMMA SlotFree ==
  ASSUME TypeOK, Unique, Accounted, NEW t \in Threads, NEW y \in Conns, RoomAt(t),
         Apart(t, y), Following(t, y), Located(t), NEW b \in Received(t, y)
  PROVE  Len(sq[t][Other(y)]) + SendsIn(cq[t][Other(y)]) < RxDepth
  <1> DEFINE s == sq[t][Other(y)]
             n == SendsIn(cq[t][Other(y)])
             F == IF y = 0 THEN Beyond(t) ELSE Away(t)
             e(i) == IF i <= Len(s) THEN s[i].buf ELSE b
             f == [i \in 1 .. Len(s) + 1 |-> Held(t, y, e(i))]
  <1>1. n <= Cardinality(F) /\ n \in Nat /\ F \in SUBSET Tokens
    <2>1. cq[t][Other(y)] \in Seq(Entries)
      BY LineTypes, TwoConns
    <2>2. n \in Nat
      BY <2>1, SendsFinite
    <2> QED
      BY <2>2, AwaySubset, TwoConns DEF RoomAt, Conns
  <1>2. s \in Seq(SendEntries) /\ Len(s) \in Nat /\ DOMAIN s = 1 .. Len(s)
    BY LineTypes, TwoConns, Ends
  <1>3. \A d \in Busy(t, y) : Held(t, y, d) \in Tokens \ F
    <2> TAKE d \in Busy(t, y)
    <2>1. /\ Held(t, y, d) \in Tokens /\ client[Held(t, y, d)] = "out"
          /\ Held(t, y, d) \notin AtServer(t) /\ Held(t, y, d) \in Carried(t, y)
      BY DEF Accounted, Unique, AtServer, Carried
    <2>2. CASE y = 0
      <3>1. Held(t, y, d) \notin Carried(t, 1)
        BY <2>2, TwoConns DEF Carried, Unique
      <3>2. Held(t, y, d) \notin Waiting(t, 1)
        BY <3>1, WaitingCarried, TwoConns
      <3> QED
        BY <2>1, <2>2, <3>2 DEF Beyond
    <2>3. CASE y = 1
      BY <2>1, <2>3 DEF Away
    <2> QED
      BY <2>2, <2>3 DEF Conns
  <1>4. /\ \A i, j \in DOMAIN s : s[i].buf = s[j].buf => i = j
        /\ SendBufs(s) \cap Received(t, y) = {}
    BY SendsApart
  <1>5. Busy(t, y) = Received(t, y) \cup SendBufs(s)
    BY DEF Busy
  <1> HIDE DEF s, F, n
  <1>6. \A i \in 1 .. Len(s) + 1 : e(i) \in Busy(t, y)
    <2> TAKE i \in 1 .. Len(s) + 1
    <2>1. CASE i <= Len(s)
      <3>1. i \in DOMAIN s
        BY <1>2, <2>1
      <3> QED
        BY <1>5, <2>1, <3>1 DEF SendBufs
    <2>2. CASE ~(i <= Len(s))
      BY <1>5, <2>2
    <2> QED
      BY <2>1, <2>2
  <1>7. ASSUME NEW i \in 1 .. Len(s) + 1, NEW j \in 1 .. Len(s) + 1, e(i) = e(j)
        PROVE  i = j
    <2>1. CASE i <= Len(s) /\ j <= Len(s)
      <3>1. i \in DOMAIN s /\ j \in DOMAIN s /\ s[i].buf = s[j].buf
        BY <1>2, <1>7, <2>1
      <3> QED
        BY <1>4, <3>1
    <2>2. CASE i <= Len(s) /\ ~(j <= Len(s))
      <3>1. i \in DOMAIN s /\ s[i].buf = b
        BY <1>2, <1>7, <2>2
      <3> QED
        BY <1>4, <3>1 DEF SendBufs
    <2>3. CASE ~(i <= Len(s)) /\ j <= Len(s)
      <3>1. j \in DOMAIN s /\ s[j].buf = b
        BY <1>2, <1>7, <2>3
      <3> QED
        BY <1>4, <3>1 DEF SendBufs
    <2>4. CASE ~(i <= Len(s)) /\ ~(j <= Len(s))
      BY <1>2, <2>4
    <2> QED
      BY <2>1, <2>2, <2>3, <2>4
  <1> HIDE DEF e
  <1>8. f \in Injection(1 .. Len(s) + 1, Tokens \ F)
    <2>1. f \in [1 .. Len(s) + 1 -> Tokens \ F]
      BY <1>3, <1>6
    <2>2. ASSUME NEW i \in 1 .. Len(s) + 1, NEW j \in 1 .. Len(s) + 1, f[i] = f[j]
          PROVE  i = j
      <3>1. e(i) = e(j)
        BY <1>6, <2>2 DEF Unique
      <3> QED
        BY <1>7, <3>1
    <2> HIDE DEF f
    <2> QED
      BY <2>1, <2>2 DEF Injection, IsInjective
  <1>9. /\ IsFiniteSet(Tokens \ F)
        /\ Cardinality(Tokens \ F) = Cardinality(Tokens) - Cardinality(F)
    <2>1. Tokens \cap F = F
      BY <1>1
    <2> QED
      BY <2>1, RelaySizes, FS_Difference
  <1>10. Cardinality(1 .. Len(s) + 1) = Len(s) + 1
    <2>1. Len(s) + 1 \in Nat \ {0}
      BY <1>2
    <2>2. Cardinality(1 .. Len(s) + 1) = IF 1 > Len(s) + 1 THEN 0 ELSE (Len(s) + 1) - 1 + 1
      BY <2>1, 1 \in Int, FS_Interval
    <2> QED
      BY <1>2, <2>2
  <1>11. Len(s) + 1 <= Cardinality(Tokens) - Cardinality(F)
    <2> HIDE DEF f
    <2> QED
      BY <1>8, <1>9, <1>10, FS_Injection
  <1>12. Cardinality(F) \in Nat
    BY <1>1, RelaySizes, FS_Subset, FS_CardinalityType
  <1>13. Len(s) + n < RxDepth
    <2>1. \A a, m, c, k, r, d \in Int :
            a + 1 <= k - c /\ m <= c /\ k <= d /\ d <= r => a + m < r
      OBVIOUS
    <2>2. /\ Len(s) \in Int /\ n \in Int /\ Cardinality(F) \in Int /\ Cardinality(Tokens) \in Int
          /\ NumBufs \in Int /\ RxDepth \in Int
      BY <1>1, <1>2, <1>12, RelaySizes
    <2> QED
      BY <1>1, <1>11, <2>1, <2>2, RelaySizes
  <1> QED
    BY <1>13 DEF s, n

\* One poll takes all completions that wait.
LEMMA PollsAll ==
  ASSUME TypeOK, NEW t \in Threads, NEW y \in Conns, RoomAt(t), NamedOnce(cq[t][y])
  PROVE  Polled(cq[t][y]) = cq[t][y]
  <1> DEFINE c == cq[t][y]
             R == {i \in DOMAIN c : c[i].kind = "recv"}
             S == {i \in DOMAIN c : c[i].kind = "send"}
             f == [i \in R |-> c[i].buf]
  <1>1. c \in Seq(Entries) /\ Len(c) \in Nat /\ DOMAIN c = 1 .. Len(c)
    BY LineTypes, Ends
  <1>2. \A i \in DOMAIN c : c[i] \in Entries /\ c[i].kind \in {"recv", "send"} /\ c[i].buf \in Bufs
    <2> TAKE i \in DOMAIN c
    <2>1. c[i] \in Entries
      BY <1>1
    <2> QED
      BY <2>1 DEF Entries
  <1>3. IsFiniteSet(DOMAIN c) /\ Cardinality(DOMAIN c) = Len(c)
    <2>1. Cardinality(1 .. Len(c)) = IF 1 > Len(c) THEN 0 ELSE Len(c) - 1 + 1
      <3>1. Len(c) \in Int
        BY <1>1
      <3> HIDE DEF c
      <3> QED
        BY <3>1, 1 \in Int, FS_Interval
    <2>2. IsFiniteSet(1 .. Len(c))
      BY <1>1, 1 \in Int, FS_Interval
    <2> QED
      BY <1>1, <2>1, <2>2
  <1>4. DOMAIN c = R \cup S /\ R \in SUBSET DOMAIN c /\ S \in SUBSET DOMAIN c
    BY <1>2
  <1>5. IsFiniteSet(R) /\ IsFiniteSet(S)
    BY <1>3, <1>4, FS_Subset
  <1>6. Cardinality(R) <= NumBufs
    <2>1. f \in [R -> Bufs]
      BY <1>2
    <2>2. \A i, j \in R : f[i] = f[j] => i = j
      BY DEF NamedOnce
    <2>3. f \in Injection(R, Bufs)
      <3> HIDE DEF f, R
      <3> QED
        BY <2>1, <2>2 DEF Injection, IsInjective
    <2> HIDE DEF f, R
    <2> QED
      BY <2>3, RelaySizes, FS_Injection
  <1>7. Cardinality(S) <= NumBufs
    <2>1. Cardinality(S) = SendsIn(c)
      BY DEF SendsIn
    <2>2. \E F \in SUBSET Tokens : SendsIn(c) <= Cardinality(F)
      BY AwaySubset DEF RoomAt, Conns
    <2>3. PICK F \in SUBSET Tokens : SendsIn(c) <= Cardinality(F)
      BY <2>2
    <2>4. Cardinality(F) <= Cardinality(Tokens) /\ Cardinality(F) \in Nat
      BY RelaySizes, FS_Subset, FS_CardinalityType
    <2>5. Cardinality(S) \in Nat
      BY <1>5, FS_CardinalityType
    <2> HIDE DEF S, c
    <2> QED
      BY <2>1, <2>3, <2>4, <2>5, RelaySizes
  <1>8. Len(c) <= 2 * NumBufs
    <2>1. Cardinality(R \cup S) = Cardinality(R) + Cardinality(S) - Cardinality(R \cap S)
      BY <1>5, FS_Union
    <2>2. Cardinality(R) \in Nat /\ Cardinality(S) \in Nat
      BY <1>5, FS_CardinalityType
    <2>3. Cardinality(R \cap S) \in Nat
      BY <1>5, FS_Intersection, FS_CardinalityType
    <2>4. Len(c) = Cardinality(R \cup S)
      BY <1>3, <1>4
    <2> HIDE DEF R, S, c
    <2> QED
      BY <1>6, <1>7, <2>1, <2>2, <2>3, <2>4, RelaySizes
  <1> QED
    BY <1>8 DEF Polled

-----------------------------------------------------------------------------
(* The lines of a thread. *)

\* What a line is made of, except the completions polled and the place of the thread.
SameQueues(u, w) ==
  /\ rq'[u][w] = rq[u][w] /\ sq'[u][Other(w)] = sq[u][Other(w)]
  /\ bufRecv'[u][w] = bufRecv[u][w] /\ bufSend'[u][Other(w)] = bufSend[u][Other(w)]
SameThread(u) ==
  /\ pc'[u] = pc[u] /\ wc'[u] = wc[u] /\ turn'[u] = turn[u]

LineOK(u, w) == Connected(u, w) => Apart(u, w) /\ Following(u, w)
SameContents(u, w) ==
  /\ Busy(u, w)' = Busy(u, w)
  /\ \A d \in Busy(u, w) : Held(u, w, d)' = Held(u, w, d)

LEMMA LineUntouched ==
  ASSUME NEW u \in Threads, NEW w \in Conns, SameQueues(u, w), SameThread(u),
         cq'[u][w] = cq[u][w], LineOK(u, w)
  PROVE  LineOK(u, w)' /\ SameContents(u, w)
  <1>1. Received(u, w)' = Received(u, w) /\ Polling(u, w)' = Polling(u, w)
    BY DEF Received, Polling, SameThread
  <1>2. Lent(u, w)' <=> Lent(u, w)
    BY DEF Lent, SameThread
  <1>3. LentOf(u, w)' = LentOf(u, w)
    BY <1>2 DEF LentOf
  <1>4. Connected(u, w)' <=> Connected(u, w)
    BY DEF Connected, InLoop, SameThread
  <1>5. SameContents(u, w)
    BY <1>1 DEF SameContents, Busy, Held, SameQueues
  <1>6. Apart(u, w) => Apart(u, w)'
    BY <1>1, <1>2 DEF Apart, SameQueues, SameThread
  <1>7. Following(u, w) => Following(u, w)'
    BY <1>2, <1>3 DEF Following, SameQueues, SameThread
  <1> QED
    BY <1>4, <1>5, <1>6, <1>7 DEF LineOK

\* A thread goes on with its completions, without forwarding on this line.
LEMMA LineKept ==
  ASSUME NEW u \in Threads, NEW w \in Conns, SameQueues(u, w),
         Received(u, w)' = Received(u, w), NamedOnce(cq'[u][w]), NamedOnce(wc'[u]),
         Polling(u, w)' \cap RecvBufs(cq'[u][w]) = {},
         ~Lent(u, w), ~Lent(u, w)', Connected(u, w), LineOK(u, w)
  PROVE  LineOK(u, w)' /\ SameContents(u, w)
  <1>1. LentOf(u, w)' = LentOf(u, w)
    BY DEF LentOf
  <1>2. SameContents(u, w)
    BY DEF SameContents, Busy, Held, SameQueues
  <1>3. Apart(u, w)'
    BY DEF Apart, SameQueues, LineOK
  <1>4. Following(u, w)'
    BY <1>1 DEF Following, SameQueues, LineOK
  <1> QED
    BY <1>2, <1>3, <1>4 DEF LineOK

\* The thread goes on to the next completion or to the next connection.
LEMMA Onward ==
  ASSUME TypeOK, NEW t \in Threads, NEW left \in Seq(Entries), GoOn(t, left)
  PROVE  /\ wc' \in [Threads -> Seq(Entries)] /\ turn' \in [Threads -> Conns]
         /\ wc'[t] = left /\ pc'[t] \in {"poll", "handle"}
         /\ left = <<>> <=> pc'[t] = "poll"
         /\ \A u \in Threads : u # t => SameThread(u)
         /\ \A w \in Conns : ~Lent(t, w)'
         /\ \A w \in Conns : Polling(t, w)' = IF w = turn[t] THEN RecvBufs(left) ELSE {}
         /\ InLoop(t)' /\ \A w \in Conns : Connected(t, w)'
         /\ Located(t)' /\ pc' \in [Threads -> Locations]
  <1>1. /\ wc \in [Threads -> Seq(Entries)] /\ turn \in [Threads -> Conns]
        /\ pc \in [Threads -> Locations]
    BY DEF TypeOK, Entries, Locations
  <1>2. /\ wc' = [wc EXCEPT ![t] = left]
        /\ pc' = [pc EXCEPT ![t] = IF left = <<>> THEN "poll" ELSE "handle"]
        /\ turn' = IF left = <<>> THEN [turn EXCEPT ![t] = Other(turn[t])] ELSE turn
    BY DEF GoOn, Goto
  <1>3. /\ wc' \in [Threads -> Seq(Entries)] /\ turn' \in [Threads -> Conns]
        /\ wc'[t] = left /\ pc'[t] \in {"poll", "handle"}
        /\ left = <<>> <=> pc'[t] = "poll"
        /\ pc' \in [Threads -> Locations]
        /\ turn'[t] = IF left = <<>> THEN Other(turn[t]) ELSE turn[t]
    BY <1>1, <1>2, TwoConns DEF Locations
  <1>4. \A u \in Threads : u # t => SameThread(u)
    BY <1>1, <1>2 DEF SameThread
  <1>5. \A w \in Conns : ~Lent(t, w)'
    BY <1>3 DEF Lent
  <1>6. \A w \in Conns : Polling(t, w)' = IF w = turn[t] THEN RecvBufs(left) ELSE {}
    BY <1>3, NoRecvs DEF Polling
  <1>7. InLoop(t)' /\ Located(t)' /\ \A w \in Conns : Connected(t, w)'
    BY <1>3 DEF InLoop, Located, Connected
  <1> QED
    BY <1>3, <1>4, <1>5, <1>6, <1>7

-----------------------------------------------------------------------------
(* The steps of the threads: no request comes in or goes out. *)

\* All that a thread leaves alone at the others.
OthersUntouched(t) ==
  \A u \in Threads : u # t =>
    /\ SameThread(u) /\ sq'[u] = sq[u] /\ cq'[u] = cq[u]
    /\ \A w \in Conns : SameQueues(u, w)

LEMMA QuietStep ==
  ASSUME PayloadInv, NEW t \in Threads, OthersUntouched(t), UNCHANGED <<atServer, client>>,
         TypeOK', Dests', Located(t)',
         \A w \in Conns : LineOK(t, w)' /\ SameContents(t, w),
         \A w \in Conns : \/ cq'[t][w] = <<>>
                          \/ cq'[t][w] = cq[t][w] /\ bufRecv'[t][w] = bufRecv[t][w],
         \A u \in Threads, w \in Conns : slots'[u][w] = Len(sq'[u][w]) + SendsIn(cq'[u][w])
  PROVE  PayloadInv'
  <1>1. \A u \in Threads : Located(u)'
    <2> SUFFICES ASSUME NEW u \in Threads, u # t
                 PROVE  Located(u)'
      OBVIOUS
    <2> QED
      BY DEF OthersUntouched, SameThread, PayloadInv, Located, InLoop
  <1>2. \A u \in Threads, w \in Conns : LineOK(u, w)' /\ SameContents(u, w)
    <2> SUFFICES ASSUME NEW u \in Threads, NEW w \in Conns, u # t
                 PROVE  LineOK(u, w)' /\ SameContents(u, w)
      OBVIOUS
    <2>1. SameQueues(u, w) /\ SameThread(u) /\ cq'[u][w] = cq[u][w]
      BY DEF OthersUntouched
    <2>2. LineOK(u, w)
      BY DEF PayloadInv, Lines, LineOK
    <2> QED
      BY <2>1, <2>2, LineUntouched
  <1>3. Lines'
    BY <1>2 DEF Lines, LineOK
  <1>4. LinesStay
    BY <1>2 DEF LinesStay, SameContents
  <1>5. Unique' /\ Accounted'
    BY <1>4, PlacesStay DEF PayloadInv
  <1>6. \A u \in Threads : RoomAt(u)'
    <2> TAKE u \in Threads
    <2>1. \A w \in Conns : Carried(u, w)' = Carried(u, w)
      BY <1>2 DEF SameContents, Carried
    <2>2. \A w \in Conns : \/ cq'[u][w] = <<>>
                           \/ cq'[u][w] = cq[u][w] /\ bufRecv'[u][w] = bufRecv[u][w]
      BY DEF OthersUntouched, SameQueues
    <2>3. \A w \in Conns : cq'[u][w] = cq[u][w] /\ bufRecv'[u][w] = bufRecv[u][w]
                              => Waiting(u, w)' = Waiting(u, w)
      BY DEF Waiting
    <2> QED
      BY <2>1, <2>2, <2>3, RoomStays DEF PayloadInv, Slots
  <1> QED
    BY <1>1, <1>3, <1>5, <1>6 DEF PayloadInv, Slots

LEMMA AtThread ==
  ASSUME PayloadInv, NEW t \in Threads
  PROVE  /\ TypeOK /\ Located(t) /\ RoomAt(t)
         /\ \A w \in Conns : LineOK(t, w)
         /\ \A w \in Conns : slots[t][w] = Len(sq[t][w]) + SendsIn(cq[t][w])
         /\ InLoop(t) => \A w \in Conns : Connected(t, w) /\ Apart(t, w) /\ Following(t, w)
  BY DEF PayloadInv, Lines, LineOK, Slots, Connected

LEMMA PollKeeps ==
  ASSUME PayloadInv, NEW t \in Threads, Poll(t)
  PROVE  PayloadInv'
  <1> DEFINE y == turn[t]
             c == cq[t][y]
  <1>1. /\ TypeOK /\ Located(t) /\ pc[t] = "poll" /\ InLoop(t) /\ wc[t] = <<>> /\ y \in Conns
        /\ c \in Seq(Entries)
    <2>1. TypeOK /\ Located(t) /\ pc[t] = "poll"
      BY AtThread DEF Poll
    <2>2. y \in Conns
      BY <2>1, LineTypes, TwoConns
    <2>3. c \in Seq(Entries)
      BY <2>1, <2>2, LineTypes
    <2> QED
      BY <2>1, <2>2, <2>3 DEF Located, InLoop
  <1>2. NamedOnce(c) /\ Polled(c) = c
    BY <1>1, AtThread, PollsAll DEF Apart
  <1>3. SubSeq(c, Len(c) + 1, Len(c)) = <<>>
    BY <1>1
  <1>4. /\ cq' = Set(cq, t, y, <<>>)
        /\ slots' = Set(slots, t, y, slots[t][y] - SendsIn(c))
        /\ GoOn(t, c)
        /\ UNCHANGED <<nextQp, qpn, early, remDest, ah, rq, sq, bufRecv, bufSend, atServer,
                       client, owner>>
    BY <1>2, <1>3 DEF Poll, setupVars, clientVars
  <1> HIDE DEF y, c
  <1>5. /\ cq' \in [Threads -> [Conns -> Seq(Entries)]] /\ cq'[t][y] = <<>>
        /\ \A u \in Threads, w \in Conns : ~(u = t /\ w = y) => cq'[u][w] = cq[u][w]
        /\ \A u \in Threads : u # t => cq'[u] = cq[u]
    <2>1. cq \in [Threads -> [Conns -> Seq(Entries)]] /\ <<>> \in Seq(Entries)
      BY <1>1 DEF TypeOK, Entries
    <2> QED
      BY <1>1, <1>4, <2>1, Assigned DEF Set
  <1>6. /\ slots' \in [Threads -> [Conns -> 0 .. RxDepth]]
        /\ slots'[t][y] = Len(sq[t][y])
        /\ \A u \in Threads, w \in Conns : ~(u = t /\ w = y) => slots'[u][w] = slots[u][w]
    <2>1. slots[t][y] = Len(sq[t][y]) + SendsIn(c) /\ slots \in [Threads -> [Conns -> 0 .. RxDepth]]
      BY <1>1, AtThread DEF TypeOK, c
    <2>2. Len(sq[t][y]) \in Nat /\ SendsIn(c) \in Nat /\ slots[t][y] \in 0 .. RxDepth
      <3>1. sq[t][y] \in Seq(SendEntries) /\ slots[t][y] \in 0 .. RxDepth
        BY <1>1, LineTypes
      <3>2. SendsIn(c) \in Nat
        BY <1>1, SendsFinite
      <3> QED
        BY <3>1, <3>2
    <2>3. slots[t][y] - SendsIn(c) = Len(sq[t][y]) /\ Len(sq[t][y]) \in 0 .. RxDepth
      BY <2>1, <2>2, RelaySizes
    <2>4. slots' = Set(slots, t, y, Len(sq[t][y]))
      BY <1>4, <2>3
    <2> DEFINE D == 0 .. RxDepth
               v == Len(sq[t][y])
    <2>5. slots \in [Threads -> [Conns -> D]] /\ v \in D /\ slots' = Set(slots, t, y, v)
      BY <2>1, <2>3, <2>4
    <2> HIDE DEF D, v
    <2>6. /\ slots' \in [Threads -> [Conns -> D]] /\ slots'[t][y] = v
          /\ \A u \in Threads, w \in Conns : ~(u = t /\ w = y) => slots'[u][w] = slots[u][w]
      BY <1>1, <2>5 DEF Set
    <2> QED
      BY <2>6 DEF D, v
  <1>7. /\ TypeOK' /\ Dests'
    <2>1. wc' \in [Threads -> Seq(Entries)] /\ turn' \in [Threads -> Conns]
          /\ pc' \in [Threads -> Locations]
      BY <1>1, <1>4, Onward
    <2>2. TypeOK'
      BY <1>1, <1>4, <1>5, <1>6, <2>1 DEF TypeOK, Entries, Locations
    <2> QED
      BY <1>4, <2>2 DEF Dests, PayloadInv
  <1>8. OthersUntouched(t)
    BY <1>1, <1>4, <1>5, Onward DEF OthersUntouched, SameQueues
  <1>9. \A w \in Conns : LineOK(t, w)' /\ SameContents(t, w)
    <2> TAKE w \in Conns
    <2>1. Apart(t, w) /\ Connected(t, w) /\ LineOK(t, w) /\ ~Lent(t, w)
      BY <1>1, AtThread DEF Lent
    <2>2. ~Lent(t, w)' /\ Polling(t, w)' = (IF w = y THEN RecvBufs(c) ELSE {})
      BY <1>1, <1>4, Onward DEF y
    <2>3. Polling(t, w) = {}
      BY <1>1, NoRecvs DEF Polling
    <2>4. Received(t, w)' = Received(t, w) /\ Polling(t, w)' \cap RecvBufs(cq'[t][w]) = {}
      BY <1>1, <1>5, <2>2, <2>3, NoRecvs DEF Received, c
    <2>5. NamedOnce(cq'[t][w]) /\ NamedOnce(wc'[t])
      BY ZenonT(60), <1>1, <1>2, <1>4, <1>5, <2>1, NoRecvs, Onward DEF Apart
    <2>6. SameQueues(t, w)
      BY <1>4 DEF SameQueues
    <2> QED
      BY <2>1, <2>2, <2>4, <2>5, <2>6, LineKept
  <1>10. \A u \in Threads, w \in Conns : slots'[u][w] = Len(sq'[u][w]) + SendsIn(cq'[u][w])
    <2> TAKE u \in Threads, w \in Conns
    <2>1. CASE u = t /\ w = y
      <3>1. Len(sq[t][y]) \in Nat
        BY <1>1, LineTypes
      <3> QED
        BY <1>4, <1>5, <1>6, <2>1, <3>1, NoRecvs
    <2>2. CASE ~(u = t /\ w = y)
      BY <1>4, <1>5, <1>6, <2>2 DEF PayloadInv, Slots
    <2> QED
      BY <2>1, <2>2
  <1>11. Located(t)'
    BY <1>1, <1>4, Onward
  <1>12. \A w \in Conns : \/ cq'[t][w] = <<>>
                          \/ cq'[t][w] = cq[t][w] /\ bufRecv'[t][w] = bufRecv[t][w]
    BY <1>4, <1>5
  <1> QED
    BY <1>4, <1>7, <1>8, <1>9, <1>10, <1>11, <1>12, QuietStep

LEMMA HandleSendKeeps ==
  ASSUME PayloadInv, NEW t \in Threads, HandleSend(t)
  PROVE  PayloadInv'
  <1> DEFINE q == wc[t]
  <1>1. /\ TypeOK /\ Located(t) /\ pc[t] = "handle" /\ InLoop(t) /\ q # <<>>
        /\ q \in Seq(Entries) /\ Head(q).kind = "send"
    BY AtThread, LineTypes, TwoConns DEF HandleSend, Located, InLoop
  <1>2. GoOn(t, Tail(q)) /\ Tail(q) \in Seq(Entries)
    BY <1>1, Ends DEF HandleSend
  <1>3. UNCHANGED <<nextQp, qpn, early, remDest, ah, rq, cq, sq, slots, bufRecv, bufSend, atServer,
                    client, owner>>
    BY DEF HandleSend, setupVars, queueVars, clientVars
  <1>4. NamedOnce(q) /\ NamedOnce(Tail(q)) /\ RecvBufs(Tail(q)) = RecvBufs(q)
    <2>1. NamedOnce(q)
      BY <1>1, AtThread, TwoConns DEF Apart
    <2>2. "send" # "recv"
      OBVIOUS
    <2> QED
      BY <1>1, <2>1, <2>2, Finishing
  <1>5. wc'[t] = Tail(q)
    BY <1>1, <1>2, Onward
  <1> HIDE DEF q
  <1>6. /\ TypeOK' /\ Dests'
    <2>1. wc' \in [Threads -> Seq(Entries)] /\ turn' \in [Threads -> Conns]
          /\ pc' \in [Threads -> Locations]
      BY <1>1, <1>2, Onward
    <2>2. TypeOK'
      BY <1>1, <1>3, <2>1 DEF TypeOK, Entries, Locations
    <2> QED
      BY <1>3, <2>2 DEF Dests, PayloadInv
  <1>7. OthersUntouched(t)
    BY <1>1, <1>2, <1>3, Onward DEF OthersUntouched, SameQueues
  <1>8. \A w \in Conns : LineOK(t, w)' /\ SameContents(t, w)
    <2> TAKE w \in Conns
    <2>1. Apart(t, w) /\ Connected(t, w) /\ LineOK(t, w) /\ ~Lent(t, w)
      BY <1>1, AtThread DEF Lent
    <2>2. ~Lent(t, w)' /\ Polling(t, w)' = Polling(t, w)
      BY <1>1, <1>2, <1>4, Onward DEF Polling, q
    <2>3. Received(t, w)' = Received(t, w) /\ Polling(t, w)' \cap RecvBufs(cq'[t][w]) = {}
      BY <1>3, <2>1, <2>2 DEF Received, Apart
    <2>4. NamedOnce(cq'[t][w]) /\ NamedOnce(wc'[t])
      BY <1>3, <1>4, <1>5, <2>1 DEF Apart
    <2>5. SameQueues(t, w)
      BY <1>3 DEF SameQueues
    <2> QED
      BY <2>1, <2>2, <2>3, <2>4, <2>5, LineKept
  <1>9. \A u \in Threads, w \in Conns : slots'[u][w] = Len(sq'[u][w]) + SendsIn(cq'[u][w])
    BY <1>3 DEF PayloadInv, Slots
  <1>10. Located(t)'
    BY <1>1, <1>2, Onward
  <1> QED
    BY <1>3, <1>6, <1>7, <1>8, <1>9, <1>10, QuietStep

\* What the thread knows of the receive completion it handles.
LEMMA AtHead ==
  ASSUME PayloadInv, NEW t \in Threads, InLoop(t), wc[t] # <<>>, Head(wc[t]).kind = "recv"
  PROVE  /\ turn[t] \in Conns /\ wc[t] \in Seq(Entries) /\ Tail(wc[t]) \in Seq(Entries)
         /\ Head(wc[t]).buf \in Bufs /\ Head(wc[t]).buf \in RecvBufs(wc[t])
         /\ Head(wc[t]).buf \in Received(t, turn[t])
         /\ NamedOnce(wc[t]) /\ NamedOnce(Tail(wc[t]))
         /\ RecvBufs(Tail(wc[t])) = RecvBufs(wc[t]) \ {Head(wc[t]).buf}
  <1>1. wc[t] \in Seq(Entries) /\ turn[t] \in Conns
    BY AtThread, LineTypes, TwoConns
  <1>2. Tail(wc[t]) \in Seq(Entries) /\ Head(wc[t]).buf \in RecvBufs(wc[t])
    BY <1>1, Ends, Finishing
  <1>3. Head(wc[t]).buf \in Received(t, turn[t]) /\ Head(wc[t]).buf \in Bufs
    BY <1>1, <1>2, RecvBufsType DEF Received, Polling
  <1>4. NamedOnce(wc[t])
    BY <1>1, AtThread DEF Apart
  <1> QED
    BY <1>1, <1>2, <1>3, <1>4, Finishing

LEMMA PostRecvKeeps ==
  ASSUME PayloadInv, NEW t \in Threads, PostRecv(t)
  PROVE  PayloadInv'
  <1>1. /\ TypeOK /\ Located(t) /\ pc[t] = "handle" /\ InLoop(t) /\ wc[t] # <<>>
        /\ Head(wc[t]).kind = "recv"
    BY AtThread DEF PostRecv, Located, InLoop
  <1>20. PICK y \in Conns : y = turn[t]
    BY <1>1, AtHead
  <1>21. PICK b \in Bufs : b = Head(wc[t]).buf
    BY <1>1, AtHead
  <1> DEFINE r == rq[t][y]
  <1>2. /\ b \in Received(t, y) /\ r \in Seq(Bufs)
    BY <1>1, <1>20, <1>21, AtHead, LineTypes
  <1>3. /\ rq' = Set(rq, t, y, Append(r, b)) /\ pc' = [pc EXCEPT ![t] = "forward"]
        /\ UNCHANGED <<nextQp, qpn, early, remDest, ah, cq, sq, slots, bufRecv, bufSend, turn, wc,
                       atServer, client, owner>>
    BY <1>20, <1>21 DEF PostRecv, Reposted, Goto, setupVars, loopVars, clientVars
  <1>4. /\ Append(r, b) \in Seq(Bufs) /\ Append(r, b) # <<>>
        /\ Len(Append(r, b)) = Len(r) + 1 /\ Len(r) \in Nat
        /\ DOMAIN Append(r, b) = DOMAIN r \cup {Len(r) + 1}
        /\ \A i \in DOMAIN r : Append(r, b)[i] = r[i] /\ i # Len(r) + 1
        /\ Append(r, b)[Len(r) + 1] = b
        /\ DOMAIN r = 1 .. Len(r)
    <2> HIDE DEF r
    <2>1. Len(r) \in Nat /\ DOMAIN r = 1 .. Len(r)
      BY <1>2, Ends
    <2> QED
      BY <1>2, <2>1, Appended
  <1>5. Apart(t, y) /\ Following(t, y) /\ Connected(t, y) /\ ~Lent(t, y)
    BY <1>1, <1>2, AtThread DEF Lent
  <1>6. Len(sq[t][Other(y)]) \in Nat /\ DOMAIN sq[t][Other(y)] = 1 .. Len(sq[t][Other(y)])
    BY <1>1, <1>2, LineTypes, TwoConns, Ends
  <1>7. /\ rq' \in [Threads -> [Conns -> Seq(Bufs)]] /\ rq'[t][y] = Append(r, b)
        /\ \A u \in Threads, w \in Conns : ~(u = t /\ w = y) => rq'[u][w] = rq[u][w]
        /\ pc' \in [Threads -> Locations] /\ pc'[t] = "forward"
        /\ \A u \in Threads : u # t => pc'[u] = pc[u]
    <2>1. rq \in [Threads -> [Conns -> Seq(Bufs)]] /\ pc \in [Threads -> Locations]
      BY <1>1 DEF TypeOK, Locations
    <2> HIDE DEF r
    <2> QED
      BY <1>2, <1>3, <1>4, <2>1 DEF Set, Locations
  <1>8. TypeOK' /\ Dests'
    <2>1. TypeOK'
      BY <1>1, <1>3, <1>7 DEF TypeOK, Locations
    <2> QED
      BY <1>3, <2>1 DEF Dests, PayloadInv
  <1>9. OthersUntouched(t)
    BY <1>3, <1>7 DEF OthersUntouched, SameQueues, SameThread
  <1>10. \A w \in Conns : Received(t, w)' = Received(t, w) /\ Polling(t, w)' = Polling(t, w)
    BY <1>3 DEF Received, Polling
  <1>11. Lent(t, y)' /\ LentOf(t, y)' = 1 /\ LentOf(t, y) = 0 /\ Connected(t, y)'
    BY <1>3, <1>5, <1>7, <1>20 DEF Lent, LentOf, Connected, InLoop
  <1>12. Apart(t, y)'
    <2>1. \A i \in DOMAIN r : r[i] # b
      BY <1>2, <1>5 DEF Apart
    <2>2. \A i, j \in DOMAIN rq'[t][y] : rq'[t][y][i] = rq'[t][y][j] => i = j
      <3>1. \A i, j \in DOMAIN r : r[i] = r[j] => i = j
        BY <1>5 DEF Apart
      <3> HIDE DEF r
      <3> QED
        BY <1>4, <1>7, <2>1, <3>1
    <2>3. \A i \in DOMAIN rq'[t][y] :
            rq'[t][y][i] \in Received(t, y) => i = Len(rq'[t][y])
      <3>1. \A i \in DOMAIN r : r[i] \notin Received(t, y)
        BY <1>5 DEF Apart
      <3> HIDE DEF r
      <3> QED
        BY <1>4, <1>7, <3>1
    <2>4. \A d \in Bufs : d \in Received(t, y) \/ \E i \in DOMAIN rq'[t][y] : rq'[t][y][i] = d
      <3>1. \A d \in Bufs : d \in Received(t, y) \/ \E i \in DOMAIN r : r[i] = d
        BY <1>5 DEF Apart
      <3> HIDE DEF r
      <3> QED
        BY <1>4, <1>7, <3>1
    <2> QED
      BY SMTT(30), <1>3, <1>5, <1>10, <1>11, <2>2, <2>3, <2>4 DEF Apart
  <1>13. Following(t, y)'
    <2> DEFINE s == sq[t][Other(y)]
    <2>1. /\ Len(s) + 0 <= Len(r) /\ \A i \in DOMAIN s : s[i].buf = r[Len(r) - 0 - Len(s) + i]
      BY <1>5, <1>11 DEF Following
    <2> HIDE DEF r, s
    <2>2. \A i \in DOMAIN s : s[i].buf = rq'[t][y][Len(rq'[t][y]) - 1 - Len(s) + i]
      <3> TAKE i \in DOMAIN s
      <3>1. i \in 1 .. Len(s) /\ Len(s) \in Nat
        BY <1>6 DEF s
      <3>2. Len(r) - 0 - Len(s) + i \in DOMAIN r
        BY <1>4, <2>1, <3>1
      <3>3. Len(rq'[t][y]) - 1 - Len(s) + i = Len(r) - 0 - Len(s) + i
        BY <1>4, <1>7, <3>1
      <3> QED
        BY <1>4, <1>7, <2>1, <3>2, <3>3
    <2>3. rq'[t][y] # <<>> /\ rq'[t][y][Len(rq'[t][y])] = b /\ Len(s) + 1 <= Len(rq'[t][y])
      BY <1>4, <1>6, <1>7, <2>1 DEF s
    <2> QED
      BY <1>3, <1>11, <1>21, <2>2, <2>3 DEF Following, s
  <1>14. SameContents(t, y)
    BY <1>3, <1>10 DEF SameContents, Busy, Held
  <1>15. \A w \in Conns : LineOK(t, w)' /\ SameContents(t, w)
    <2> TAKE w \in Conns
    <2>1. CASE w = y
      BY <1>12, <1>13, <1>14, <2>1 DEF LineOK
    <2>2. CASE w # y
      <3>1. Apart(t, w) /\ Connected(t, w) /\ LineOK(t, w)
        BY <1>1, AtThread
      <3>2. ~Lent(t, w) /\ ~Lent(t, w)'
        BY <1>3, <1>20, <2>2 DEF Lent
      <3>3. SameQueues(t, w)
        BY <1>3, <1>7, <2>2 DEF SameQueues
      <3>4. NamedOnce(cq'[t][w]) /\ NamedOnce(wc'[t]) /\ Polling(t, w)' \cap RecvBufs(cq'[t][w]) = {}
        BY <1>3, <1>10, <3>1 DEF Apart
      <3> QED
        BY <1>10, <3>1, <3>2, <3>3, <3>4, LineKept
    <2> QED
      BY <2>1, <2>2
  <1>16. Located(t)'
    BY <1>1, <1>3, <1>7 DEF Located, InLoop
  <1>17. \A u \in Threads, w \in Conns : slots'[u][w] = Len(sq'[u][w]) + SendsIn(cq'[u][w])
    BY <1>3 DEF PayloadInv, Slots
  <1> QED
    BY <1>3, <1>8, <1>9, <1>15, <1>16, <1>17, QuietStep

\* Destinations are numbers, those towards the server its cores.
LEMMA DestinationsType ==
  ASSUME TypeOK, NEW t \in Threads, NEW y \in Conns, NEW k \in Tokens
  PROVE  /\ Destinations(t, y, k) \subseteq Int
         /\ y = 0 => Destinations(t, y, k) \subseteq 0 .. ServerCores - 1
  <1>1. t \in Int /\ ServerCores \in Nat \ {0}
    BY RelaySizes, Sizes DEF Threads
  <1>2. t % ServerCores \in 0 .. ServerCores - 1
    BY <1>1
  <1>3. owner[k].qpn \in Int
    <2>1. owner[k] \in [qpn : 0 .. 2^24 - 1, signed : BOOLEAN]
      BY RelayAssumption DEF TypeOK
    <2>2. owner[k].qpn \in 0 .. 2^24 - 1
      BY <2>1
    <2> QED
      BY <2>2
  <1>4. \A n \in Int : DecodeQpn(n) \in Int
    <2> TAKE n \in Int
    <2>1. n \div 65536 \in Int /\ n \div 256 \in Int /\ n % 256 \in Int
      OBVIOUS
    <2>2. (n \div 256) % 256 \in Int
      BY <2>1
    <2>3. \A v \in Int : SignedByte(v) \in Int
      BY DEF SignedByte
    <2>4. \A a, b, c \in Int : (a * 65536) + (b * 256) + c \in Int
      OBVIOUS
    <2> QED
      BY <2>1, <2>2, <2>3, <2>4 DEF DecodeQpn
  <1>5. UnsignedQpn \in Int
    BY DEF UnsignedQpn
  <1> QED
    BY <1>1, <1>2, <1>3, <1>4, <1>5 DEF Destinations

LEMMA ForwardKeeps ==
  ASSUME PayloadInv, NEW t \in Threads, Forward(t)
  PROVE  PayloadInv'
  <1>1. /\ TypeOK /\ Located(t) /\ pc[t] = "forward" /\ InLoop(t) /\ wc[t] # <<>>
        /\ Head(wc[t]).kind = "recv"
    BY AtThread DEF Forward, Located, InLoop
  <1>2. PICK y \in Conns : y = turn[t]
    BY <1>1, AtHead
  <1>3. PICK b \in Bufs : b = Head(wc[t]).buf
    BY <1>1, AtHead
  <1>4. PICK z \in Conns : z = Other(y)
    BY TwoConns
  <1> DEFINE k == bufRecv[t][y][b]
             s == sq[t][z]
             q == Tail(wc[t])
  <1>5. /\ b \in RecvBufs(wc[t]) /\ b \in Received(t, y) /\ q \in Seq(Entries) /\ NamedOnce(q)
        /\ RecvBufs(q) = RecvBufs(wc[t]) \ {b}
    BY <1>1, <1>2, <1>3, AtHead
  <1>6. Apart(t, y) /\ Following(t, y) /\ Connected(t, y) /\ Lent(t, y) /\ Other(z) = y /\ z # y
    BY <1>1, <1>2, <1>4, AtThread, TwoConns DEF Lent
  <1>7. k = Held(t, y, b) /\ k \in Tokens
    BY <1>5 DEF Held, PayloadInv, Accounted, Busy
  <1>8. Len(s) + SendsIn(cq[t][z]) < RxDepth /\ slots[t][z] = Len(s) + SendsIn(cq[t][z])
    BY <1>1, <1>4, <1>5, <1>6, AtThread, SlotFree DEF PayloadInv
  <1>9. Len(s) \in Nat /\ SendsIn(cq[t][z]) \in Nat /\ s \in Seq(SendEntries)
    <2>1. s \in Seq(SendEntries) /\ cq[t][z] \in Seq(Entries)
      BY <1>1, LineTypes
    <2>2. SendsIn(cq[t][z]) \in Nat
      <3>1. \A c \in Seq(Entries) : SendsIn(c) \in Nat
        BY SendsFinite
      <3> QED
        BY <2>1, <3>1
    <2> HIDE DEF s
    <2>3. Len(s) \in Nat
      BY <2>1
    <2> QED
      BY <2>1, <2>2, <2>3
  <1>10. slots[t][z] # RxDepth /\ slots[t][z] + 1 \in 0 .. RxDepth
    BY <1>8, <1>9, RelaySizes
  <1>11. PICK d \in Destinations(t, y, k) :
            sq' = Set(sq, t, z, Append(s, [buf |-> b, dest |-> d]))
    BY <1>2, <1>3, <1>4, <1>10 DEF Forward
  <1>12. /\ bufSend' = [bufSend EXCEPT ![t][z][b] = k]
         /\ slots' = Set(slots, t, z, slots[t][z] + 1)
         /\ GoOn(t, q)
         /\ UNCHANGED <<nextQp, qpn, early, remDest, ah, rq, cq, bufRecv, atServer, client, owner>>
    BY <1>2, <1>3, <1>4, <1>10 DEF Forward, setupVars
  <1> DEFINE e == [buf |-> b, dest |-> d]
             a == Append(s, e)
  <1>13. e \in SendEntries /\ e.buf = b /\ (y = 0 => e.dest \in 0 .. ServerCores - 1)
    BY <1>1, <1>7, DestinationsType DEF SendEntries
  <1>14. /\ a \in Seq(SendEntries) /\ Len(a) = Len(s) + 1 /\ DOMAIN a = DOMAIN s \cup {Len(s) + 1}
         /\ \A i \in DOMAIN s : a[i] = s[i] /\ i # Len(s) + 1
         /\ a[Len(s) + 1] = e
         /\ SendBufs(a) = SendBufs(s) \cup {b}
         /\ DOMAIN s = 1 .. Len(s)
    <2> HIDE DEF s, e
    <2>1. SendBufs(a) = SendBufs(s) \cup {b}
      BY <1>9, <1>13, SendsChange
    <2>2. DOMAIN s = 1 .. Len(s)
      BY <1>9, Ends
    <2> QED
      BY <1>9, <1>13, <2>1, <2>2, Appended
  <1> HIDE DEF a, e
  <1>15. /\ sq' \in [Threads -> [Conns -> Seq(SendEntries)]] /\ sq'[t][z] = a
         /\ \A u \in Threads, w \in Conns : ~(u = t /\ w = z) => sq'[u][w] = sq[u][w]
         /\ \A u \in Threads : u # t => sq'[u] = sq[u]
    <2>1. sq \in [Threads -> [Conns -> Seq(SendEntries)]]
      BY <1>1 DEF TypeOK, SendEntries
    <2>2. sq' = Set(sq, t, z, a)
      BY <1>11 DEF a, e
    <2> QED
      BY <1>14, <2>1, <2>2 DEF Set
  <1>16. /\ slots' \in [Threads -> [Conns -> 0 .. RxDepth]] /\ slots'[t][z] = slots[t][z] + 1
         /\ \A u \in Threads, w \in Conns : ~(u = t /\ w = z) => slots'[u][w] = slots[u][w]
    <2> DEFINE v == slots[t][z] + 1
               D == 0 .. RxDepth
    <2>1. slots \in [Threads -> [Conns -> D]] /\ v \in D /\ slots' = Set(slots, t, z, v)
      BY <1>1, <1>10, <1>12 DEF TypeOK
    <2> HIDE DEF D, v
    <2>2. /\ slots' \in [Threads -> [Conns -> D]] /\ slots'[t][z] = v
          /\ \A u \in Threads, w \in Conns : ~(u = t /\ w = z) => slots'[u][w] = slots[u][w]
      BY <2>1 DEF Set
    <2> QED
      BY <2>2 DEF D, v
  <1>17. /\ bufSend' \in [Threads -> [Conns -> [Bufs -> Tokens \cup {NoToken}]]]
         /\ bufSend'[t][z][b] = k /\ \A x \in Bufs : x # b => bufSend'[t][z][x] = bufSend[t][z][x]
         /\ \A u \in Threads, w \in Conns : ~(u = t /\ w = z) => bufSend'[u][w] = bufSend[u][w]
    <2>1. bufSend \in [Threads -> [Conns -> [Bufs -> Tokens \cup {NoToken}]]]
      BY <1>1 DEF TypeOK
    <2> HIDE DEF k
    <2> QED
      BY <1>7, <1>12, <2>1
  <1> HIDE DEF k, q, s
  <1>18. TypeOK' /\ Dests'
    <2>1. wc' \in [Threads -> Seq(Entries)] /\ turn' \in [Threads -> Conns]
          /\ pc' \in [Threads -> Locations]
      BY <1>1, <1>5, <1>12, Onward
    <2>2. TypeOK'
      BY <1>1, <1>12, <1>15, <1>16, <1>17, <2>1 DEF TypeOK, Entries, Locations, SendEntries
    <2>3. Dests'
      <3> SUFFICES ASSUME NEW u \in Threads, NEW i \in DOMAIN sq'[u][1]
                   PROVE  sq'[u][1][i].dest \in 0 .. ServerCores - 1
        BY DEF Dests
      <3>1. CASE u = t /\ z = 1 /\ i = Len(s) + 1
        <4>1. y = 0
          BY <1>6, <3>1 DEF Conns
        <4> QED
          BY <1>13, <1>14, <1>15, <3>1, <4>1
      <3>2. CASE u = t /\ z = 1 /\ i # Len(s) + 1
        BY <1>14, <1>15, <3>2 DEF PayloadInv, Dests, s
      <3>3. CASE ~(u = t /\ z = 1)
        BY <1>15, <3>3, TwoConns DEF PayloadInv, Dests
      <3> QED
        BY <3>1, <3>2, <3>3
    <2> QED
      BY <2>2, <2>3
  <1>19. OthersUntouched(t)
    <2> SUFFICES ASSUME NEW u \in Threads, u # t
                 PROVE  /\ SameThread(u) /\ sq'[u] = sq[u] /\ cq'[u] = cq[u]
                        /\ \A w \in Conns : SameQueues(u, w)
      BY DEF OthersUntouched
    <2>1. SameThread(u)
      BY <1>1, <1>5, <1>12, Onward
    <2>2. \A w \in Conns : bufSend'[u][Other(w)] = bufSend[u][Other(w)]
      BY <1>17, TwoConns
    <2> QED
      BY <1>12, <1>15, <2>1, <2>2 DEF SameQueues
  <1>20. /\ \A w \in Conns : ~Lent(t, w)' /\ Connected(t, w)'
         /\ Polling(t, y)' = RecvBufs(q) /\ Polling(t, z)' = {} /\ wc'[t] = q
    BY <1>1, <1>2, <1>5, <1>6, <1>12, Onward
  <1>21. Received(t, y)' = Received(t, y) \ {b}
    <2>1. Polling(t, y) = RecvBufs(wc[t]) /\ Polling(t, y) \cap RecvBufs(cq[t][y]) = {}
      BY <1>2, <1>6 DEF Polling, Apart
    <2> QED
      BY <1>5, <1>12, <1>20, <2>1 DEF Received
  <1>22. SendBufs(s) \cap Received(t, y) = {}
    BY <1>1, <1>4, <1>6, SendsApart DEF s
  <1>23. SameContents(t, y)
    <2>1. Busy(t, y) = Received(t, y) \cup SendBufs(s)
      BY <1>4 DEF Busy, s
    <2>2. Busy(t, y)' = Received(t, y)' \cup SendBufs(a)
      BY <1>4, <1>15 DEF Busy
    <2>3. Busy(t, y)' = Busy(t, y)
      BY <1>5, <1>14, <1>21, <2>1, <2>2
    <2>4. ASSUME NEW x \in Busy(t, y)
          PROVE  Held(t, y, x)' = Held(t, y, x)
      <3>1. CASE x = b
        BY <1>4, <1>7, <1>17, <1>21, <3>1 DEF Held
      <3>2. CASE x # b /\ x \in Received(t, y)
        BY <1>12, <1>21, <3>2 DEF Held
      <3>3. CASE x # b /\ x \notin Received(t, y)
        <4>1. x \in Bufs
          BY <1>1, BusyType
        <4> QED
          BY <1>4, <1>17, <1>21, <3>3, <4>1 DEF Held
      <3> QED
        BY <3>1, <3>2, <3>3
    <2> QED
      BY <2>3, <2>4 DEF SameContents
  <1>24. Apart(t, y)'
    <2> DEFINE r == rq[t][y]
    <2>1. /\ \A i, j \in DOMAIN r : r[i] = r[j] => i = j
          /\ \A i \in DOMAIN r : r[i] \in Received(t, y) => i = Len(r)
          /\ \A x \in Bufs : x \in Received(t, y) \/ \E i \in DOMAIN r : r[i] = x
          /\ r # <<>> /\ r[Len(r)] = b /\ r \in Seq(Bufs)
      BY <1>1, <1>3, <1>6, LineTypes DEF Apart, Following
    <2> HIDE DEF r
    <2>2. Len(r) \in DOMAIN r
      BY <2>1
    <2>3. /\ \A i \in DOMAIN r : r[i] \notin Received(t, y)'
          /\ \A x \in Bufs : x \in Received(t, y)' \/ \E i \in DOMAIN r : r[i] = x
      BY <1>21, <2>1, <2>2
    <2>4. rq'[t][y] = r
      BY <1>12 DEF r
    <2>5. NamedOnce(cq'[t][y]) /\ NamedOnce(wc'[t]) /\ Polling(t, y)' \cap RecvBufs(cq'[t][y]) = {}
      BY <1>2, <1>5, <1>6, <1>12, <1>20 DEF Apart, Polling
    <2> QED
      BY <2>1, <2>3, <2>4, <2>5 DEF Apart
  <1>25. Following(t, y)'
    <2> DEFINE r == rq[t][y]
    <2>1. /\ Len(s) + 1 <= Len(r) /\ \A i \in DOMAIN s : s[i].buf = r[Len(r) - 1 - Len(s) + i]
          /\ r[Len(r)] = b /\ r \in Seq(Bufs)
      <3>1. LentOf(t, y) = 1
        BY <1>6 DEF LentOf
      <3> QED
        BY <1>1, <1>3, <1>4, <1>6, <3>1, LineTypes DEF Following, s
    <2>2. LentOf(t, y)' = 0
      BY <1>20 DEF LentOf
    <2> HIDE DEF r
    <2>3. Len(r) \in Nat
      BY <2>1
    <2>4. Len(a) + 0 <= Len(r)
      BY <1>9, <1>14, <2>1, <2>3
    <2>5. ASSUME NEW i \in DOMAIN a
          PROVE  a[i].buf = r[Len(r) - 0 - Len(a) + i]
      <3>1. CASE i = Len(s) + 1
        <4>1. Len(r) - 0 - Len(a) + i = Len(r)
          BY <1>9, <1>14, <2>3, <3>1
        <4> QED
          BY <1>13, <1>14, <2>1, <3>1, <4>1
      <3>2. CASE i \in DOMAIN s
        <4>1. i \in Nat
          BY <1>14, <3>2
        <4>2. Len(r) - 0 - Len(a) + i = Len(r) - 1 - Len(s) + i
          BY <1>9, <1>14, <2>3, <4>1
        <4> QED
          BY <1>14, <2>1, <3>2, <4>2
      <3> QED
        BY <1>14, <3>1, <3>2
    <2>6. rq'[t][y] = r /\ sq'[t][Other(y)] = a
      BY <1>4, <1>12, <1>15 DEF r
    <2> QED
      BY <1>20, <2>2, <2>4, <2>5, <2>6 DEF Following
  <1>26. LineOK(t, z)' /\ SameContents(t, z)
    <2>1. Apart(t, z) /\ Connected(t, z) /\ LineOK(t, z)
      BY <1>1, AtThread
    <2>2. ~Lent(t, z) /\ ~Lent(t, z)' /\ Polling(t, z) = {}
      BY <1>2, <1>6, <1>20 DEF Lent, Polling
    <2>3. SameQueues(t, z)
      BY <1>6, <1>12, <1>15, <1>17 DEF SameQueues
    <2>4. Received(t, z)' = Received(t, z)
      BY <1>12, <1>20, <2>2 DEF Received
    <2>5. NamedOnce(cq'[t][z]) /\ NamedOnce(wc'[t]) /\ Polling(t, z)' \cap RecvBufs(cq'[t][z]) = {}
      BY <1>5, <1>12, <1>20, <2>1 DEF Apart
    <2> QED
      BY <2>1, <2>2, <2>3, <2>4, <2>5, LineKept
  <1>27. \A w \in Conns : LineOK(t, w)' /\ SameContents(t, w)
    <2> TAKE w \in Conns
    <2>1. w = y \/ w = z
      BY <1>4, TwoConns
    <2>2. CASE w = y
      BY <1>23, <1>24, <1>25, <2>2 DEF LineOK
    <2>3. CASE w = z
      BY <1>26, <2>3
    <2> QED
      BY <2>1, <2>2, <2>3
  <1>28. \A u \in Threads, w \in Conns : slots'[u][w] = Len(sq'[u][w]) + SendsIn(cq'[u][w])
    <2> TAKE u \in Threads, w \in Conns
    <2>1. CASE u = t /\ w = z
      <3>1. \A i, j, l, m \in Int : m = i + j /\ l = i + 1 => m + 1 = l + j
        OBVIOUS
      <3>2. slots'[t][z] = Len(a) + SendsIn(cq[t][z])
        BY <1>8, <1>9, <1>14, <1>16, <3>1
      <3> QED
        BY <1>12, <1>15, <2>1, <3>2
    <2>2. CASE ~(u = t /\ w = z)
      BY ZenonT(60), <1>12, <1>15, <1>16, <2>2 DEF PayloadInv, Slots
    <2> QED
      BY <2>1, <2>2
  <1>29. Located(t)'
    BY <1>1, <1>5, <1>12, Onward
  <1> QED
    BY <1>12, <1>18, <1>19, <1>27, <1>28, <1>29, QuietStep


-----------------------------------------------------------------------------
(* Start-up. *)

\* A thread that is not in the loop and does not get there carries nothing.
LEMMA SetupKeeps ==
  ASSUME PayloadInv, NEW t \in Threads, UNCHANGED <<queueVars, loopVars, clientVars>>,
         ~InLoop(t), pc' \in [Threads -> Locations], \A u \in Threads : u # t => pc'[u] = pc[u],
         pc'[t] \notin {"connect1", "poll", "handle", "forward"},
         nextQp' \in Nat, qpn' \in [Threads -> [Conns -> Nat]], early' \in BOOLEAN,
         remDest' \in {"null", "raw", "ready"},
         ah' \in [Threads -> [Conns -> {"none", "wild", "peer"}]]
  PROVE  PayloadInv'
  <1>1. /\ UNCHANGED <<rq, cq, sq, slots, bufRecv, bufSend, turn, wc>>
        /\ UNCHANGED <<atServer, client, owner>>
    BY DEF queueVars, loopVars, clientVars
  <1>2. TypeOK /\ Located(t) /\ ~InLoop(t)' /\ \A w \in Conns : ~Connected(t, w)'
    BY AtThread DEF InLoop, Connected
  <1>3. TypeOK'
    BY <1>1, <1>2 DEF TypeOK, Locations
  <1>4. Dests'
    BY <1>1 DEF PayloadInv, Dests
  <1>5. Located(t)'
    BY <1>1, <1>2 DEF Located, InLoop
  <1>6. \A w \in Conns : LineOK(t, w)' /\ SameContents(t, w)
    BY <1>1, <1>2 DEF LineOK, SameContents, Busy, Held, Received, Polling
  <1>7. OthersUntouched(t)
    BY <1>1 DEF OthersUntouched, SameThread, SameQueues
  <1>8. \A u \in Threads, w \in Conns : slots'[u][w] = Len(sq'[u][w]) + SendsIn(cq'[u][w])
    BY <1>1 DEF PayloadInv, Slots
  <1> QED
    BY <1>1, <1>3, <1>4, <1>5, <1>6, <1>7, <1>8, QuietStep

LEMMA InitialLine ==
  /\ InitialRecvs \in Seq(Bufs) /\ Len(InitialRecvs) = NumBufs
  /\ DOMAIN InitialRecvs = 1 .. NumBufs
  /\ \A i, j \in DOMAIN InitialRecvs : InitialRecvs[i] = InitialRecvs[j] => i = j
  /\ \A b \in Bufs : \E i \in DOMAIN InitialRecvs : InitialRecvs[i] = b
  <1>1. NumBufs \in Nat \ {0}
    BY RelaySizes
  <1>2. InitialRecvs \in Seq(Bufs) /\ Len(InitialRecvs) = NumBufs
    BY <1>1 DEF InitialRecvs, Bufs
  <1>3. DOMAIN InitialRecvs = 1 .. NumBufs /\ \A i \in 1 .. NumBufs : InitialRecvs[i] = i - 1
    BY DEF InitialRecvs
  <1>4. \A i, j \in 1 .. NumBufs : InitialRecvs[i] = InitialRecvs[j] => i = j
    BY <1>1, <1>3
  <1>5. ASSUME NEW b \in Bufs
        PROVE  \E i \in 1 .. NumBufs : InitialRecvs[i] = b
    <2>1. b + 1 \in 1 .. NumBufs /\ (b + 1) - 1 = b
      BY <1>1 DEF Bufs
    <2> QED
      BY <1>3, <2>1
  <1> QED
    BY <1>2, <1>3, <1>4, <1>5

\* The receives of a connection have just been posted.
LEMMA FirstLine ==
  ASSUME NEW t \in Threads, NEW y \in Conns, Located(t), ~InLoop(t),
         rq'[t][y] = InitialRecvs, wc'[t] = wc[t], cq'[t] = cq[t], sq'[t] = sq[t],
         pc'[t] # "forward"
  PROVE  Apart(t, y)' /\ Following(t, y)'
  <1>1. wc'[t] = <<>> /\ cq'[t][y] = <<>> /\ sq'[t][Other(y)] = <<>>
    BY TwoConns DEF Located
  <1>2. Polling(t, y)' = {} /\ Received(t, y)' = {} /\ ~Lent(t, y)' /\ LentOf(t, y)' = 0
    BY <1>1, NoRecvs DEF Polling, Received, Lent, LentOf
  <1>3. Apart(t, y)'
    BY <1>1, <1>2, NoRecvs, InitialLine DEF Apart
  <1>4. Following(t, y)'
    <2>1. Len(sq'[t][Other(y)]) + 0 <= Len(rq'[t][y]) /\ DOMAIN sq'[t][Other(y)] = {}
      BY <1>1, InitialLine, RelaySizes
    <2> QED
      BY <1>2, <2>1 DEF Following
  <1> QED
    BY <1>3, <1>4

LEMMA ConnectKeeps ==
  ASSUME PayloadInv, NEW t \in Threads, NEW y \in Conns, Connect(t, y)
  PROVE  PayloadInv'
  <1>1. TypeOK /\ Located(t) /\ ~InLoop(t) /\ pc[t] = (IF y = 0 THEN "connect0" ELSE "connect1")
    BY AtThread DEF Connect, InLoop
  <1>2. UNCHANGED <<nextQp, qpn, early, cq, sq, slots, bufRecv, bufSend, turn, wc,
                    atServer, client, owner>>
    BY DEF Connect, loopVars, clientVars
  <1>3. CASE ConnectCrashes(t, y)
    <2>1. pc' = [pc EXCEPT ![t] = "crashed"] /\ UNCHANGED <<remDest, ah, rq>>
      BY <1>3 DEF ConnectCrashes, Goto
    <2>2. /\ pc' \in [Threads -> Locations] /\ pc'[t] = "crashed"
          /\ \A u \in Threads : u # t => pc'[u] = pc[u]
      BY <1>1, <2>1 DEF TypeOK, Locations
    <2>3. /\ nextQp' \in Nat /\ qpn' \in [Threads -> [Conns -> Nat]] /\ early' \in BOOLEAN
          /\ remDest' \in {"null", "raw", "ready"}
          /\ ah' \in [Threads -> [Conns -> {"none", "wild", "peer"}]]
      BY <1>1, <1>2, <2>1 DEF TypeOK
    <2>4. UNCHANGED <<queueVars, loopVars, clientVars>>
      BY <1>2, <2>1 DEF queueVars, loopVars, clientVars
    <2> QED
      BY <1>1, <2>2, <2>3, <2>4, SetupKeeps
  <1>4. CASE ConnectGoesOn(t, y)
    <2> DEFINE l == IF y = 0 THEN "connect1" ELSE "poll"
    <2>1. /\ \/ ah' = Set(ah, t, y, "peer") \/ ah' = Set(ah, t, y, "wild") \/ ah' = ah
          /\ remDest' = remDest \/ remDest' = "null"
          /\ rq' = Set(rq, t, y, InitialRecvs)
          /\ pc' = [pc EXCEPT ![t] = l]
      BY <1>4 DEF ConnectGoesOn, Goto
    <2>2. /\ pc' \in [Threads -> Locations] /\ pc'[t] = l
          /\ \A u \in Threads : u # t => pc'[u] = pc[u]
      BY <1>1, <2>1 DEF TypeOK, Locations
    <2>3. /\ ah' \in [Threads -> [Conns -> {"none", "wild", "peer"}]]
          /\ remDest' \in {"null", "raw", "ready"}
      <3>1. ah \in [Threads -> [Conns -> {"none", "wild", "peer"}]]
        BY <1>1 DEF TypeOK
      <3>2. ASSUME NEW v \in {"none", "wild", "peer"}
            PROVE  Set(ah, t, y, v) \in [Threads -> [Conns -> {"none", "wild", "peer"}]]
        BY <3>1 DEF Set
      <3>3. remDest' \in {"null", "raw", "ready"}
        BY <1>1, <2>1 DEF TypeOK
      <3> QED
        BY <2>1, <3>1, <3>2, <3>3
    <2>4. /\ rq' \in [Threads -> [Conns -> Seq(Bufs)]] /\ rq'[t][y] = InitialRecvs
          /\ \A u \in Threads, w \in Conns : ~(u = t /\ w = y) => rq'[u][w] = rq[u][w]
      <3> DEFINE D == Seq(Bufs)
      <3>1. rq \in [Threads -> [Conns -> D]] /\ InitialRecvs \in D
        BY <1>1, InitialLine DEF TypeOK
      <3> HIDE DEF D
      <3>2. /\ rq' \in [Threads -> [Conns -> D]] /\ rq'[t][y] = InitialRecvs
            /\ \A u \in Threads, w \in Conns : ~(u = t /\ w = y) => rq'[u][w] = rq[u][w]
        BY <2>1, <3>1 DEF Set
      <3> QED
        BY <3>2 DEF D
    <2>5. TypeOK'
      BY <1>1, <1>2, <2>2, <2>3, <2>4 DEF TypeOK, Locations
    <2>6. Dests'
      BY <1>2 DEF PayloadInv, Dests
    <2>7. wc[t] = <<>> /\ wc'[t] = <<>> /\ pc'[t] # "forward" /\ pc[t] # "forward"
      BY <1>1, <1>2, <2>2 DEF Located
    <2>8. Located(t)'
      BY <1>1, <1>2, <2>2, <2>7 DEF Located, InLoop
    <2>9. OthersUntouched(t)
      BY <1>2, <2>2, <2>4 DEF OthersUntouched, SameThread, SameQueues
    <2>10. \A w \in Conns : SameContents(t, w)
      BY <1>2 DEF SameContents, Busy, Held, Received, Polling
    <2>11. \A w \in Conns : LineOK(t, w)'
      <3> TAKE w \in Conns
      <3>1. CASE w = y
        BY <1>1, <1>2, <2>4, <2>7, <3>1, FirstLine DEF LineOK
      <3>2. CASE w # y /\ y = 0
        <4>1. ~Connected(t, w)'
          BY <2>2, <3>2 DEF Connected, InLoop
        <4> QED
          BY <4>1 DEF LineOK
      <3>3. CASE w # y /\ y # 0
        <4>1. w = 0 /\ Connected(t, w)
          BY <1>1, <3>3 DEF Connected, Conns
        <4>2. SameQueues(t, w) /\ cq'[t][w] = cq[t][w] /\ wc'[t] = wc[t]
          BY <1>2, <2>4, <3>3 DEF SameQueues
        <4>3. Received(t, w)' = Received(t, w) /\ Polling(t, w)' = Polling(t, w)
          BY <1>2 DEF Received, Polling
        <4>4. ~Lent(t, w) /\ ~Lent(t, w)'
          BY <2>7 DEF Lent
        <4>5. LineOK(t, w)
          BY AtThread
        <4>6. NamedOnce(cq'[t][w]) /\ NamedOnce(wc'[t]) /\ Polling(t, w)' \cap RecvBufs(cq'[t][w]) = {}
          BY <4>1, <4>2, <4>3, <4>5 DEF LineOK, Apart
        <4> QED
          BY <4>1, <4>2, <4>3, <4>4, <4>5, <4>6, LineKept
      <3> QED
        BY <3>1, <3>2, <3>3
    <2>12. \A u \in Threads, w \in Conns : slots'[u][w] = Len(sq'[u][w]) + SendsIn(cq'[u][w])
      BY <1>2 DEF PayloadInv, Slots
    <2> QED
      BY <1>2, <2>5, <2>6, <2>8, <2>9, <2>10, <2>11, <2>12, QuietStep
  <1> QED
    BY <1>3, <1>4 DEF Connect

LEMMA StartUpKeeps ==
  ASSUME PayloadInv, NEW t \in Threads,
         \/ Start(t) \/ CreateIngress(t) \/ CreateEgress(t) \/ LeaveBarrier(t)
         \/ (t = 0 /\ (Resolve \/ Fill))
  PROVE  PayloadInv'
  <1>1. TypeOK
    BY DEF PayloadInv
  <1> DEFINE Off == {"off", "ingress", "barrier1", "barrier2", "resolve", "fill", "connect0",
                    "crashed"}
  <1>2. PICK l \in Off : /\ pc' = [pc EXCEPT ![t] = l] \/ (pc' = pc /\ pc[t] = l)
                         /\ pc[t] \in Off
    BY DEF Start, CreateIngress, CreateEgress, LeaveBarrier, Resolve, Fill, Goto
  <1>3. UNCHANGED <<queueVars, loopVars, clientVars>>
    BY DEF Start, CreateIngress, CreateEgress, LeaveBarrier, Resolve, Fill
  <1>4. /\ pc' \in [Threads -> Locations] /\ pc'[t] = l
        /\ \A u \in Threads : u # t => pc'[u] = pc[u]
    BY <1>1, <1>2 DEF TypeOK, Locations
  <1>5. nextQp' \in Nat /\ early' \in BOOLEAN /\ qpn' \in [Threads -> [Conns -> Nat]]
    <2>1. nextQp \in Nat /\ early \in BOOLEAN /\ qpn \in [Threads -> [Conns -> Nat]]
      BY <1>1 DEF TypeOK
    <2>2. CASE CreateIngress(t)
      <3>1. nextQp' = nextQp + 1 /\ early' = (early \/ (t # 0 /\ qpn[0][0] = 0))
        BY <2>2 DEF CreateIngress
      <3>2. qpn' = Set(qpn, t, 0, nextQp) \/ qpn' = qpn
        BY <2>2 DEF CreateIngress
      <3>3. qpn' \in [Threads -> [Conns -> Nat]]
        BY <2>1, <3>2, TwoConns DEF Set
      <3>4. early' \in BOOLEAN
        BY <3>1
      <3> QED
        BY <2>1, <3>1, <3>3, <3>4
    <2>3. CASE CreateEgress(t)
      <3>1. nextQp' = nextQp + 1 /\ early' = early /\ qpn' = Set(qpn, t, 1, nextQp)
        BY <2>3 DEF CreateEgress
      <3>2. qpn' \in [Threads -> [Conns -> Nat]]
        BY <2>1, <3>1, TwoConns DEF Set
      <3> QED
        BY <2>1, <3>1, <3>2
    <2>4. CASE Start(t) \/ LeaveBarrier(t) \/ (t = 0 /\ (Resolve \/ Fill))
      BY <2>1, <2>4 DEF Start, LeaveBarrier, Resolve, Fill, setupVars
    <2> QED
      BY <2>2, <2>3, <2>4
  <1>7. /\ remDest' \in {"null", "raw", "ready"}
        /\ ah' \in [Threads -> [Conns -> {"none", "wild", "peer"}]]
    BY <1>1 DEF TypeOK, Start, CreateIngress, CreateEgress, LeaveBarrier, Resolve, Fill,
               setupVars
  <1>8. ~InLoop(t)
    BY <1>2 DEF InLoop
  <1> QED
    BY <1>3, <1>4, <1>5, <1>7, <1>8, SetupKeeps


-----------------------------------------------------------------------------
(* The device: a request comes in or goes out. *)

\* The line after its oldest receive was taken.
LEMMA TakenLine ==
  ASSUME NEW r \in Seq(Bufs), NEW s \in Seq(SendEntries), NEW l \in {0, 1},
         Len(s) + l < Len(r), \A i \in DOMAIN s : s[i].buf = r[Len(r) - l - Len(s) + i]
  PROVE  /\ Len(s) + l <= Len(Tail(r))
         /\ \A i \in DOMAIN s : s[i].buf = Tail(r)[Len(Tail(r)) - l - Len(s) + i]
         /\ l = 1 => Tail(r) # <<>> /\ Tail(r)[Len(Tail(r))] = r[Len(r)]
  <1> DEFINE q == Tail(r)
  <1>1. /\ Len(r) \in Nat /\ Len(s) \in Nat /\ DOMAIN s = 1 .. Len(s)
        /\ r # <<>>
    OBVIOUS
  <1>2. q \in Seq(Bufs) /\ Len(q) = Len(r) - 1 /\ \A i \in 1 .. Len(r) - 1 : q[i] = r[i + 1]
    BY <1>1
  <1> HIDE DEF q
  <1>3. Len(s) + l <= Len(q)
    BY <1>1, <1>2
  <1>4. ASSUME NEW i \in DOMAIN s
        PROVE  s[i].buf = q[Len(q) - l - Len(s) + i]
    <2> DEFINE m == Len(q) - l - Len(s) + i
    <2>1. m \in 1 .. Len(r) - 1 /\ m + 1 = Len(r) - l - Len(s) + i
      BY <1>1, <1>2
    <2> QED
      BY <1>2, <2>1
  <1>5. l = 1 => q # <<>> /\ q[Len(q)] = r[Len(r)]
    <2> SUFFICES ASSUME l = 1
                 PROVE  q # <<>> /\ q[Len(q)] = r[Len(r)]
      OBVIOUS
    <2>1. Len(q) \in 1 .. Len(r) - 1 /\ Len(q) + 1 = Len(r)
      BY <1>1, <1>2
    <2>2. q # <<>>
      BY <1>2, <2>1
    <2> QED
      BY <1>2, <2>1, <2>2
  <1> QED
    BY <1>3, <1>4, <1>5 DEF q

\* The line after its oldest send was transmitted.
LEMMA SentLine ==
  ASSUME NEW r \in Seq(Bufs), NEW s \in Seq(SendEntries), NEW l \in {0, 1}, s # <<>>,
         Len(s) + l <= Len(r), \A i \in DOMAIN s : s[i].buf = r[Len(r) - l - Len(s) + i]
  PROVE  /\ Len(Tail(s)) + l <= Len(r)
         /\ \A i \in DOMAIN Tail(s) : Tail(s)[i].buf = r[Len(r) - l - Len(Tail(s)) + i]
  <1> DEFINE q == Tail(s)
  <1>1. Len(r) \in Nat /\ Len(s) \in Nat /\ DOMAIN s = 1 .. Len(s) /\ Len(s) > 0
    OBVIOUS
  <1>2. /\ Len(q) = Len(s) - 1 /\ DOMAIN q = 1 .. Len(s) - 1
        /\ \A i \in 1 .. Len(s) - 1 : q[i] = s[i + 1]
    BY <1>1
  <1> HIDE DEF q
  <1>3. Len(q) + l <= Len(r)
    BY <1>1, <1>2
  <1>4. ASSUME NEW i \in DOMAIN q
        PROVE  q[i].buf = r[Len(r) - l - Len(q) + i]
    <2>1. i \in Nat /\ i + 1 \in DOMAIN s /\ q[i] = s[i + 1]
      BY <1>1, <1>2
    <2>2. Len(r) - l - Len(s) + (i + 1) = Len(r) - l - Len(q) + i
      <3>1. \A m, n, j, p \in Int : p = n - 1 => m - l - n + (j + 1) = m - l - p + j
        OBVIOUS
      <3> QED
        BY <1>1, <1>2, <2>1, <3>1
    <2>3. s[i + 1].buf = r[Len(r) - l - Len(s) + (i + 1)]
      BY <2>1
    <2> QED
      BY <2>1, <2>2, <2>3
  <1> QED
    BY <1>3, <1>4 DEF q

\* A payload arrives: from a client that was idle or from the server.
LEMMA ArrivalKeeps ==
  ASSUME PayloadInv, NEW t \in Threads, NEW y \in Conns, NEW k \in Tokens, InLoop(t),
         Arrive(t, y, k, "out"),
         UNCHANGED <<pc, setupVars, sq, slots, bufSend, loopVars, owner>>,
         \/ y = 0 /\ client[k] = "idle" /\ atServer' = atServer
         \/ y = 1 /\ \E x \in atServer : x[1] = t /\ x[3] = k /\ atServer' = atServer \ {x}
  PROVE  PayloadInv'
  <1>1. /\ TypeOK /\ Unique /\ Accounted /\ Located(t) /\ Apart(t, y) /\ Following(t, y)
        /\ Connected(t, y)
    BY AtThread DEF PayloadInv
  <1>2. k \notin Carried(t, y)
    BY <1>1 DEF Unique, Accounted, Carried
  <1>3. /\ rq[t][y] # <<>> /\ Head(rq[t][y]) \in Bufs /\ Head(rq[t][y]) \notin Busy(t, y)
        /\ Len(sq[t][Other(y)]) + LentOf(t, y) < Len(rq[t][y])
    BY <1>1, <1>2, ReceiveFree
  <1>4. PICK b \in Bufs : b = Head(rq[t][y])
    BY <1>3
  <1> DEFINE r == rq[t][y]
             c == cq[t][y]
             a == Append(c, Recv(b))
  <1>5. /\ rq' = Set(rq, t, y, Tail(r))
        /\ bufRecv' = [bufRecv EXCEPT ![t][y][b] = k]
        /\ cq' = Set(cq, t, y, a)
        /\ client' = [client EXCEPT ![k] = "out"]
        /\ UNCHANGED <<pc, nextQp, qpn, early, remDest, ah, sq, slots, bufSend, turn, wc, owner>>
    BY <1>3, <1>4 DEF Arrive, Deliver, setupVars, loopVars
  <1>6. ComesIn(t, y, k)
    BY <1>5 DEF ComesIn
  <1>7. b \notin Busy(t, y) /\ b \notin Received(t, y) /\ b \notin RecvBufs(c) /\ b \notin Polling(t, y)
    BY <1>3, <1>4 DEF Busy, Received
  <1>8. Recv(b) \in Entries /\ Recv(b).kind = "recv" /\ Recv(b).buf = b
    BY DEF Recv, Entries
  <1>9. c \in Seq(Entries) /\ r \in Seq(Bufs)
    BY <1>1, LineTypes
  <1>10. /\ a \in Seq(Entries) /\ RecvBufs(a) = RecvBufs(c) \cup {b} /\ NamedOnce(a)
         /\ SendsIn(a) = SendsIn(c)
    <2>1. NamedOnce(c)
      BY <1>1 DEF Apart
    <2>2. SendsIn(c) \in Nat
      BY <1>9, SendsFinite
    <2> HIDE DEF c
    <2>3. /\ RecvBufs(a) = RecvBufs(c) \cup {b} /\ NamedOnce(a) /\ SendsIn(a) = SendsIn(c) + 0
      BY <1>7, <1>8, <1>9, <2>1, Completing
    <2>4. a \in Seq(Entries)
      BY <1>8, <1>9
    <2> QED
      BY <2>2, <2>3, <2>4
  <1>11. Tail(r) \in Seq(Bufs)
    BY <1>3, <1>9
  <1> HIDE DEF a
  <1>12. /\ rq' \in [Threads -> [Conns -> Seq(Bufs)]] /\ rq'[t][y] = Tail(r)
         /\ \A u \in Threads, w \in Conns : ~(u = t /\ w = y) => rq'[u][w] = rq[u][w]
    <2> DEFINE D == Seq(Bufs)
               v == Tail(r)
    <2>1. rq \in [Threads -> [Conns -> D]] /\ v \in D /\ rq' = Set(rq, t, y, v)
      BY <1>1, <1>5, <1>11 DEF TypeOK
    <2> HIDE DEF D, v
    <2>2. /\ rq' \in [Threads -> [Conns -> D]] /\ rq'[t][y] = v
          /\ \A u \in Threads, w \in Conns : ~(u = t /\ w = y) => rq'[u][w] = rq[u][w]
      BY <2>1 DEF Set
    <2> QED
      BY <2>2 DEF D, v
  <1>13. /\ cq' \in [Threads -> [Conns -> Seq(Entries)]] /\ cq'[t][y] = a
         /\ \A u \in Threads, w \in Conns : ~(u = t /\ w = y) => cq'[u][w] = cq[u][w]
    <2> DEFINE D == Seq(Entries)
    <2>1. cq \in [Threads -> [Conns -> D]] /\ a \in D /\ cq' = Set(cq, t, y, a)
      BY <1>1, <1>5, <1>10 DEF TypeOK, Entries
    <2> HIDE DEF D
    <2>2. /\ cq' \in [Threads -> [Conns -> D]] /\ cq'[t][y] = a
          /\ \A u \in Threads, w \in Conns : ~(u = t /\ w = y) => cq'[u][w] = cq[u][w]
      BY <2>1 DEF Set
    <2> QED
      BY <2>2 DEF D
  <1>14. /\ bufRecv' \in [Threads -> [Conns -> [Bufs -> Tokens \cup {NoToken}]]]
         /\ bufRecv'[t][y][b] = k /\ \A d \in Bufs : d # b => bufRecv'[t][y][d] = bufRecv[t][y][d]
         /\ \A u \in Threads, w \in Conns : ~(u = t /\ w = y) => bufRecv'[u][w] = bufRecv[u][w]
    <2>1. bufRecv \in [Threads -> [Conns -> [Bufs -> Tokens \cup {NoToken}]]]
      BY <1>1 DEF TypeOK
    <2> QED
      BY <1>5, <2>1
  <1>15. atServer' \subseteq atServer /\ client' \in [Tokens -> {"idle", "out", "lost", "dropped"}]
    <2>1. client \in [Tokens -> {"idle", "out", "lost", "dropped"}]
      BY <1>1 DEF TypeOK
    <2> QED
      BY <1>5, <2>1
  <1>16. TypeOK'
    BY ZenonT(60), <1>1, <1>5, <1>12, <1>13, <1>14, <1>15 DEF TypeOK, Entries
  <1>17. Dests'
    BY <1>5 DEF PayloadInv, Dests
  <1>18. \A u \in Threads : Located(u)'
    <2> TAKE u \in Threads
    <2>1. Located(u)
      BY DEF PayloadInv
    <2>2. InLoop(u)' <=> InLoop(u)
      BY <1>5 DEF InLoop
    <2>3. CASE u = t
      BY <1>5, <2>1, <2>2, <2>3 DEF Located
    <2>4. CASE u # t
      BY <1>5, <1>13, <1>15, <2>1, <2>2, <2>4 DEF Located
    <2> QED
      BY <2>3, <2>4
  <1>19. /\ \A u \in Threads, w \in Conns : Polling(u, w)' = Polling(u, w) /\ (Lent(u, w)' <=> Lent(u, w))
         /\ \A u \in Threads, w \in Conns : LentOf(u, w)' = LentOf(u, w)
    BY <1>5 DEF Polling, Lent, LentOf
  <1>20. Received(t, y)' = Received(t, y) \cup {b}
    BY <1>10, <1>13, <1>19 DEF Received
  <1>21. \A u \in Threads, w \in Conns : ~(u = t /\ w = y) => LineOK(u, w)' /\ SameContents(u, w)
    <2> SUFFICES ASSUME NEW u \in Threads, NEW w \in Conns, ~(u = t /\ w = y)
                 PROVE  LineOK(u, w)' /\ SameContents(u, w)
      OBVIOUS
    <2>1. SameQueues(u, w) /\ SameThread(u) /\ cq'[u][w] = cq[u][w]
      BY <1>5, <1>12, <1>13, <1>14 DEF SameQueues, SameThread
    <2>2. LineOK(u, w)
      BY AtThread
    <2> QED
      BY <2>1, <2>2, LineUntouched
  <1>22. Joins(t, y, b, k)
    <2>1. OtherLinesStay(t, y)
      BY <1>21 DEF OtherLinesStay, SameContents
    <2>2. Busy(t, y)' = Busy(t, y) \cup {b}
      BY <1>5, <1>20 DEF Busy
    <2>3. Held(t, y, b)' = k
      BY <1>14, <1>20 DEF Held
    <2>4. ASSUME NEW d \in Busy(t, y)
          PROVE  Held(t, y, d)' = Held(t, y, d)
      <3>1. d \in Bufs /\ d # b
        BY <1>1, <1>7, BusyType
      <3> QED
        BY <1>5, <1>14, <1>20, <3>1 DEF Held
    <2> QED
      BY <1>7, <2>1, <2>2, <2>3, <2>4 DEF Joins
  <1>23. Unique' /\ Accounted'
    BY <1>1, <1>6, <1>22, PlacesJoin
  <1>24. Apart(t, y)'
    <2>1. /\ \A i, j \in DOMAIN r : r[i] = r[j] => i = j
          /\ \A i \in DOMAIN r : r[i] \in Received(t, y) => Lent(t, y) /\ i = Len(r)
          /\ \A d \in Bufs : d \in Received(t, y) \/ \E i \in DOMAIN r : r[i] = d
          /\ Polling(t, y) \cap RecvBufs(c) = {} /\ NamedOnce(wc[t])
      BY <1>1 DEF Apart
    <2>2. r # <<>> /\ b = Head(r)
      BY <1>3, <1>4
    <2> DEFINE q == Tail(r)
    <2> HIDE DEF r
    <2>3. /\ b = r[1] /\ 1 \in DOMAIN r /\ Len(r) \in Nat
          /\ \A i \in DOMAIN q : q[i] = r[i + 1] /\ i + 1 \in DOMAIN r /\ i + 1 # 1
          /\ \A i \in DOMAIN q : i + 1 = Len(r) => i = Len(q)
          /\ \A i, j \in DOMAIN q : i + 1 = j + 1 => i = j
          /\ \A i \in DOMAIN r : i = 1 \/ (i - 1 \in DOMAIN q /\ q[i - 1] = r[i])
      <3>1. r \in Seq(Bufs)
        BY <1>9
      <3> HIDE DEF q
      <3>2. /\ Len(r) \in Nat /\ Len(r) > 0 /\ DOMAIN r = 1..Len(r) /\ b = r[1]
        BY <2>2, <3>1
      <3>3. /\ Len(q) = Len(r) - 1 /\ DOMAIN q = 1..(Len(r) - 1)
            /\ \A i \in 1..(Len(r) - 1) : q[i] = r[i + 1]
        BY <2>2, <3>1 DEF q
      <3> QED
        BY <3>2, <3>3
    <2> HIDE DEF q
    <2>4. \A i, j \in DOMAIN q : q[i] = q[j] => i = j
      BY <2>1, <2>3
    <2>5. \A i \in DOMAIN q : q[i] \in Received(t, y)' => Lent(t, y) /\ i = Len(q)
      BY <1>20, <2>1, <2>3
    <2>6. \A d \in Bufs : d \in Received(t, y)' \/ \E i \in DOMAIN q : q[i] = d
      BY <1>20, <2>1, <2>3
    <2>7. NamedOnce(cq'[t][y]) /\ NamedOnce(wc'[t]) /\ Polling(t, y)' \cap RecvBufs(cq'[t][y]) = {}
      BY <1>5, <1>7, <1>10, <1>13, <1>19, <2>1
    <2>8. rq'[t][y] = q
      BY <1>12 DEF q
    <2> QED
      BY <1>19, <2>4, <2>5, <2>6, <2>7, <2>8 DEF Apart
  <1>25. Following(t, y)'
    <2> DEFINE s == sq[t][Other(y)]
               l == LentOf(t, y)
    <2>1. /\ s \in Seq(SendEntries) /\ l \in {0, 1} /\ (l = 1 <=> Lent(t, y))
          /\ Len(s) + l < Len(r) /\ \A i \in DOMAIN s : s[i].buf = r[Len(r) - l - Len(s) + i]
          /\ Lent(t, y) => r[Len(r)] = Head(wc[t]).buf
      BY <1>1, <1>3, LineTypes, TwoConns DEF LentOf, Following
    <2> HIDE DEF s, r, l
    <2>2. /\ Len(s) + l <= Len(Tail(r))
          /\ \A i \in DOMAIN s : s[i].buf = Tail(r)[Len(Tail(r)) - l - Len(s) + i]
          /\ l = 1 => Tail(r) # <<>> /\ Tail(r)[Len(Tail(r))] = r[Len(r)]
      BY <1>9, <2>1, TakenLine
    <2>3. rq'[t][y] = Tail(r) /\ sq'[t][Other(y)] = s /\ LentOf(t, y)' = l /\ wc'[t] = wc[t]
      BY <1>5, <1>12, <1>19 DEF s, l
    <2> QED
      BY <1>19, <2>1, <2>2, <2>3 DEF Following
  <1>26. Lines'
    <2> SUFFICES ASSUME NEW u \in Threads, NEW w \in Conns, Connected(u, w)'
                 PROVE  Apart(u, w)' /\ Following(u, w)'
      BY DEF Lines
    <2> QED
      BY <1>21, <1>24, <1>25 DEF LineOK
  <1>27. \A u \in Threads, w \in Conns : SendsIn(cq'[u][w]) = SendsIn(cq[u][w])
    BY <1>10, <1>13
  <1>28. /\ \A u \in Threads, w \in Conns : ~(u = t /\ w = y) => Waiting(u, w)' = Waiting(u, w)
         /\ Waiting(t, y)' = Waiting(t, y) \cup {k}
    <2>1. RecvBufs(c) \subseteq Bufs
      BY <1>9, RecvBufsType
    <2>2. \A d \in RecvBufs(c) : bufRecv'[t][y][d] = bufRecv[t][y][d]
      BY <1>7, <1>14, <2>1
    <2>3. RecvBufs(cq'[t][y]) = RecvBufs(c) \cup {b}
      BY <1>10, <1>13
    <2>4. Waiting(t, y)' = Waiting(t, y) \cup {k}
      <3>1. Waiting(t, y)' = {bufRecv'[t][y][d] : d \in RecvBufs(c) \cup {b}}
        BY <2>3 DEF Waiting
      <3>2. Waiting(t, y) = {bufRecv[t][y][d] : d \in RecvBufs(c)}
        BY DEF Waiting
      <3>3. bufRecv'[t][y][b] = k
        BY <1>14
      <3> HIDE DEF c
      <3> QED
        BY <2>2, <3>1, <3>2, <3>3
    <2>5. ASSUME NEW u \in Threads, NEW w \in Conns, ~(u = t /\ w = y)
          PROVE  Waiting(u, w)' = Waiting(u, w)
      <3>1. cq'[u][w] = cq[u][w] /\ bufRecv'[u][w] = bufRecv[u][w]
        BY <1>13, <1>14, <2>5
      <3> QED
        BY <3>1 DEF Waiting
    <2> QED
      BY <2>4, <2>5
  <1>29. Slots'
    <2>1. \A u \in Threads : RoomAt(u)'
      BY <1>1, <1>6, <1>22, <1>27, <1>28, AtThread, RoomJoin
    <2>2. \A u \in Threads, w \in Conns : slots'[u][w] = Len(sq'[u][w]) + SendsIn(cq'[u][w])
      BY <1>5, <1>27 DEF PayloadInv, Slots
    <2> QED
      BY <2>1, <2>2 DEF Slots
  <1> QED
    BY <1>16, <1>17, <1>18, <1>23, <1>26, <1>29 DEF PayloadInv


\* The device transmits: what it sends was in the line of the other connection.
LEMMA NicSendKeeps ==
  ASSUME PayloadInv, NEW t \in Threads, NEW z \in Conns, NicSend(t, z)
  PROVE  PayloadInv'
  <1>1. /\ TypeOK /\ Unique /\ Accounted /\ Located(t) /\ sq[t][z] # <<>> /\ InLoop(t)
    BY DEF PayloadInv, NicSend, Located
  <1>2. PICK y \in Conns : y = Other(z) /\ Other(y) = z /\ y # z
    BY TwoConns
  <1>3. Apart(t, y) /\ Following(t, y) /\ Connected(t, y)
    BY <1>1, AtThread
  <1> DEFINE s == sq[t][z]
             c == cq[t][z]
  <1>4. s \in Seq(SendEntries) /\ c \in Seq(Entries) /\ s # <<>>
    BY <1>1, LineTypes
  <1>5. /\ \A i, j \in DOMAIN s : s[i].buf = s[j].buf => i = j
        /\ SendBufs(s) \cap Received(t, y) = {}
    BY <1>1, <1>2, <1>3, SendsApart
  <1>6. PICK b : b = Head(s).buf
    OBVIOUS
  <1>7. /\ b \in SendBufs(s) /\ SendBufs(Tail(s)) = SendBufs(s) \ {b}
        /\ Tail(s) \in Seq(SendEntries) /\ Head(s) \in SendEntries /\ Head(s) = s[1] /\ 1 \in DOMAIN s
        /\ Len(Tail(s)) = Len(s) - 1 /\ Len(s) \in Nat
    <2> HIDE DEF s
    <2>1. b \in SendBufs(s) /\ SendBufs(Tail(s)) = SendBufs(s) \ {b}
      BY <1>4, <1>5, <1>6, SendsChange
    <2> QED
      BY <1>4, <2>1, Ends
  <1>8. b \in Busy(t, y) /\ b \notin Received(t, y) /\ b \in Bufs
    <2>1. b \in Busy(t, y) /\ b \notin Received(t, y)
      BY <1>2, <1>5, <1>7 DEF Busy
    <2> QED
      BY <1>1, <2>1, BusyType
  <1>9. PICK k : k = Held(t, y, b)
    OBVIOUS
  <1>10. k = bufSend[t][z][b] /\ k \in Tokens
    BY <1>1, <1>2, <1>8, <1>9 DEF Held, Accounted
  <1> DEFINE a == Append(c, Send(b))
  <1>11. /\ sq' = Set(sq, t, z, Tail(s))
         /\ cq' = Set(cq, t, z, a)
         /\ UNCHANGED <<pc, nextQp, qpn, early, remDest, ah, rq, slots, bufRecv, bufSend, turn, wc, owner>>
    BY <1>6 DEF NicSend, setupVars, loopVars
  <1>12. \/ z = 0 /\ client' = [client EXCEPT ![k] = "idle"] /\ atServer' = atServer
         \/ client' = [client EXCEPT ![k] = "lost"] /\ atServer' = atServer
         \/ z = 1 /\ client' = client /\ atServer' = atServer \cup {<<t, Head(s).dest, k>>}
    <2> DEFINE reaches == ah[t][z] = "peer" /\ (z = 0 => Head(s).dest = owner[k].qpn)
    <2>1. /\ atServer' = IF reaches /\ z = 1 THEN atServer \cup {<<t, Head(s).dest, k>>}
                                             ELSE atServer
          /\ client' = [client EXCEPT ![k] =
                          IF ~reaches THEN "lost" ELSE IF z = 0 THEN "idle" ELSE client[k]]
      BY <1>6, <1>10 DEF NicSend
    <2>2. client \in [Tokens -> {"idle", "out", "lost", "dropped"}]
      BY <1>1 DEF TypeOK
    <2> HIDE DEF reaches
    <2>3. CASE ~reaches
      BY <2>1, <2>3
    <2>4. CASE reaches /\ z = 0
      BY <2>1, <2>4
    <2>5. CASE reaches /\ z = 1
      <3>1. client' = [client EXCEPT ![k] = client[k]]
        BY <2>1, <2>5
      <3>2. client' = client
        BY <1>10, <2>2, <3>1
      <3> QED
        BY <2>1, <2>5, <3>2
    <2> QED
      BY <2>3, <2>4, <2>5 DEF Conns
  <1>13. GoesOut(t, y, k)
    <2>1. (z = 0 => y = 1) /\ (z = 1 => y = 0)
      BY <1>2 DEF Conns
    <2>2. \A d : <<t, d, k>>[1] = t /\ <<t, d, k>>[3] = k
      OBVIOUS
    <2> QED
      BY <1>12, <2>1, <2>2 DEF GoesOut
  <1>14. Send(b) \in Entries /\ Send(b).kind = "send"
    BY <1>8 DEF Send, Entries
  <1>15. /\ a \in Seq(Entries) /\ RecvBufs(a) = RecvBufs(c) /\ (NamedOnce(c) => NamedOnce(a))
         /\ SendsIn(a) = SendsIn(c) + 1 /\ SendsIn(c) \in Nat
    <2> HIDE DEF c
    <2>1. RecvBufs(a) = RecvBufs(c) \cup {} /\ (NamedOnce(c) => NamedOnce(a)) /\ SendsIn(a) = SendsIn(c) + 1
      BY <1>4, <1>14, Completing
    <2>2. SendsIn(c) \in Nat
      BY <1>4, SendsFinite
    <2>3. a \in Seq(Entries)
      BY <1>4, <1>14
    <2> QED
      BY <2>1, <2>2, <2>3
  <1> HIDE DEF a
  <1>16. /\ sq' \in [Threads -> [Conns -> Seq(SendEntries)]] /\ sq'[t][z] = Tail(s)
         /\ \A u \in Threads, w \in Conns : ~(u = t /\ w = z) => sq'[u][w] = sq[u][w]
    <2> DEFINE D == Seq(SendEntries)
               v == Tail(s)
    <2>1. sq \in [Threads -> [Conns -> D]] /\ v \in D /\ sq' = Set(sq, t, z, v)
      BY <1>1, <1>7, <1>11 DEF TypeOK, SendEntries
    <2> HIDE DEF D, v
    <2>2. /\ sq' \in [Threads -> [Conns -> D]] /\ sq'[t][z] = v
          /\ \A u \in Threads, w \in Conns : ~(u = t /\ w = z) => sq'[u][w] = sq[u][w]
      BY <2>1 DEF Set
    <2> QED
      BY <2>2 DEF D, v
  <1>17. /\ cq' \in [Threads -> [Conns -> Seq(Entries)]] /\ cq'[t][z] = a
         /\ \A u \in Threads, w \in Conns : ~(u = t /\ w = z) => cq'[u][w] = cq[u][w]
    <2> DEFINE D == Seq(Entries)
    <2>1. cq \in [Threads -> [Conns -> D]] /\ a \in D /\ cq' = Set(cq, t, z, a)
      BY <1>1, <1>11, <1>15 DEF TypeOK, Entries
    <2> HIDE DEF D
    <2>2. /\ cq' \in [Threads -> [Conns -> D]] /\ cq'[t][z] = a
          /\ \A u \in Threads, w \in Conns : ~(u = t /\ w = z) => cq'[u][w] = cq[u][w]
      BY <2>1 DEF Set
    <2> QED
      BY <2>2 DEF D
  <1>18. /\ client' \in [Tokens -> {"idle", "out", "lost", "dropped"}]
         /\ atServer' \subseteq Threads \X (0 .. ServerCores - 1) \X Tokens
         /\ \A x \in atServer' : x \in atServer \/ x[1] = t
    <2>1. /\ client \in [Tokens -> {"idle", "out", "lost", "dropped"}]
          /\ atServer \subseteq Threads \X (0 .. ServerCores - 1) \X Tokens
      BY <1>1 DEF TypeOK
    <2>2. z = 1 => Head(s).dest \in 0 .. ServerCores - 1
      BY <1>7 DEF PayloadInv, Dests
    <2>3. z = 1 => <<t, Head(s).dest, k>> \in Threads \X (0 .. ServerCores - 1) \X Tokens
      BY <1>10, <2>2
    <2>4. <<t, Head(s).dest, k>>[1] = t
      OBVIOUS
    <2> QED
      BY <1>12, <2>1, <2>3, <2>4
  <1>19. TypeOK'
    BY <1>1, <1>11, <1>16, <1>17, <1>18 DEF TypeOK, Entries, SendEntries
  <1>20. Dests'
    <2> SUFFICES ASSUME NEW u \in Threads, NEW i \in DOMAIN sq'[u][1]
                 PROVE  sq'[u][1][i].dest \in 0 .. ServerCores - 1
      BY DEF Dests
    <2>1. CASE u = t /\ z = 1
      <3> HIDE DEF s
      <3>1. i \in DOMAIN Tail(s)
        BY <1>16, <2>1
      <3>2. i + 1 \in DOMAIN s /\ Tail(s)[i] = s[i + 1]
        BY <1>4, <3>1, Ends
      <3>3. s[i + 1].dest \in 0 .. ServerCores - 1
        BY <2>1, <3>2 DEF PayloadInv, Dests, s
      <3> QED
        BY <1>16, <2>1, <3>2, <3>3
    <2>2. CASE ~(u = t /\ z = 1)
      <3>1. \A w \in Threads : \A j \in DOMAIN sq[w][1] : sq[w][1][j].dest \in 0 .. ServerCores - 1
        BY DEF PayloadInv, Dests
      <3>2. sq'[u][1] = sq[u][1]
        BY <1>16, <2>2, TwoConns
      <3> QED
        BY <3>1, <3>2
    <2> QED
      BY <2>1, <2>2
  <1>21. \A u \in Threads : Located(u)'
    <2> TAKE u \in Threads
    <2>1. Located(u)
      BY DEF PayloadInv
    <2>2. InLoop(u)' <=> InLoop(u)
      BY <1>11 DEF InLoop
    <2>3. CASE u = t
      BY <1>1, <1>11, <2>1, <2>2, <2>3 DEF Located
    <2>4. CASE u # t
      BY <1>11, <1>16, <1>17, <1>18, <2>1, <2>2, <2>4 DEF Located
    <2> QED
      BY <2>3, <2>4
  <1>22. \A u \in Threads, w \in Conns :
            RecvBufs(cq'[u][w]) = RecvBufs(cq[u][w]) /\ (NamedOnce(cq[u][w]) => NamedOnce(cq'[u][w]))
    BY <1>15, <1>17
  <1>23. /\ \A u \in Threads, w \in Conns : Polling(u, w)' = Polling(u, w) /\ (Lent(u, w)' <=> Lent(u, w))
         /\ \A u \in Threads, w \in Conns : LentOf(u, w)' = LentOf(u, w)
         /\ \A u \in Threads, w \in Conns : Connected(u, w)' <=> Connected(u, w)
    BY <1>11 DEF Polling, Lent, LentOf, Connected, InLoop
  <1>24. \A u \in Threads, w \in Conns : Received(u, w)' = Received(u, w)
    BY <1>22, <1>23 DEF Received
  <1>25. \A u \in Threads, w \in Conns : ~(u = t /\ w = y) => sq'[u][Other(w)] = sq[u][Other(w)]
    BY <1>2, <1>16, TwoConns
  <1>26. Leaves(t, y, b)
    <2>1. \A u \in Threads, w \in Conns : \A d : Held(u, w, d)' = Held(u, w, d)
      BY <1>11, <1>24 DEF Held
    <2>2. \A u \in Threads, w \in Conns : ~(u = t /\ w = y) => Busy(u, w)' = Busy(u, w)
      BY <1>24, <1>25 DEF Busy
    <2>3. Busy(t, y)' = Received(t, y) \cup (SendBufs(s) \ {b})
      BY <1>2, <1>7, <1>16, <1>24 DEF Busy
    <2>4. Busy(t, y) = Received(t, y) \cup SendBufs(s)
      BY <1>2 DEF Busy
    <2>5. Busy(t, y)' = Busy(t, y) \ {b}
      BY <1>8, <2>3, <2>4
    <2> QED
      BY <1>8, <2>1, <2>2, <2>5 DEF Leaves, OtherLinesStay
  <1>27. Unique' /\ Accounted'
    BY <1>1, <1>9, <1>13, <1>26, PlacesLeave
  <1>28. Lines'
    <2> SUFFICES ASSUME NEW u \in Threads, NEW w \in Conns, Connected(u, w)'
                 PROVE  Apart(u, w)' /\ Following(u, w)'
      BY DEF Lines
    <2>1. Apart(u, w) /\ Following(u, w)
      BY <1>23 DEF PayloadInv, Lines
    <2>2. Apart(u, w)'
      BY <1>11, <1>22, <1>23, <1>24, <2>1 DEF Apart
    <2>3. CASE ~(u = t /\ w = y)
      <3>1. Following(u, w)'
        BY <1>11, <1>23, <1>25, <2>1, <2>3 DEF Following
      <3> QED
        BY <2>2, <3>1
    <2>4. CASE u = t /\ w = y
      <3> DEFINE r == rq[t][y]
                 l == LentOf(t, y)
      <3>1. /\ r \in Seq(Bufs) /\ l \in {0, 1}
            /\ Len(s) + l <= Len(r) /\ \A i \in DOMAIN s : s[i].buf = r[Len(r) - l - Len(s) + i]
            /\ Lent(t, y) => r # <<>> /\ r[Len(r)] = Head(wc[t]).buf
        BY <1>1, <1>2, <1>3, LineTypes DEF LentOf, Following
      <3> HIDE DEF s, r, l
      <3>2. /\ Len(Tail(s)) + l <= Len(r)
            /\ \A i \in DOMAIN Tail(s) : Tail(s)[i].buf = r[Len(r) - l - Len(Tail(s)) + i]
        BY <1>4, <3>1, SentLine
      <3>3. rq'[t][y] = r /\ sq'[t][Other(y)] = Tail(s) /\ LentOf(t, y)' = l /\ wc'[t] = wc[t]
        BY <1>2, <1>11, <1>16, <1>23 DEF r, l
      <3>4. Following(t, y)'
        BY <1>23, <3>1, <3>2, <3>3 DEF Following
      <3> QED
        BY <2>2, <2>4, <3>4
    <2> QED
      BY <2>3, <2>4
  <1>29. \A u \in Threads, w \in Conns : SendsIn(cq'[u][w]) =
           SendsIn(cq[u][w]) + (IF u = t /\ w = Other(y) THEN 1 ELSE 0)
    <2> TAKE u \in Threads, w \in Conns
    <2>1. SendsIn(cq[u][w]) \in Nat
      <3>1. cq[u][w] \in Seq(Entries)
        BY <1>1, LineTypes
      <3>2. \A q \in Seq(Entries) : SendsIn(q) \in Nat
        BY SendsFinite
      <3> QED
        BY <3>1, <3>2
    <2>2. CASE u = t /\ w = z
      BY <1>2, <1>15, <1>17, <2>2
    <2>3. CASE ~(u = t /\ w = z)
      BY <1>2, <1>17, <2>1, <2>3
    <2> QED
      BY <2>2, <2>3
  <1>30. \A u \in Threads, w \in Conns : Waiting(u, w)' = Waiting(u, w)
    BY <1>11, <1>22 DEF Waiting
  <1>31. Held(t, y, b) \notin Waiting(t, y)
    <2> SUFFICES ASSUME NEW d \in RecvBufs(cq[t][y]), Held(t, y, b) = bufRecv[t][y][d]
                 PROVE  FALSE
      BY DEF Waiting
    <2>1. d \in Received(t, y) /\ d \in Busy(t, y)
      BY DEF Received, Busy
    <2>2. Held(t, y, d) = bufRecv[t][y][d]
      BY <2>1 DEF Held
    <2>3. d = b
      BY <1>1, <1>8, <2>1, <2>2 DEF Unique
    <2> QED
      BY <1>8, <2>1, <2>3
  <1>32. Slots'
    <2>1. \A u \in Threads : RoomAt(u)'
      BY <1>1, <1>9, <1>13, <1>26, <1>29, <1>30, <1>31, AtThread, RoomLeave
    <2>2. \A u \in Threads, w \in Conns : slots'[u][w] = Len(sq'[u][w]) + SendsIn(cq'[u][w])
      <3> TAKE u \in Threads, w \in Conns
      <3>1. slots[u][w] = Len(sq[u][w]) + SendsIn(cq[u][w])
        BY DEF PayloadInv, Slots
      <3>2. CASE u = t /\ w = z
        <4>1. \A i, j, l, m, n \in Int : n = i + j /\ l = i - 1 /\ m = j + 1 => n = l + m
          OBVIOUS
        <4>2. slots[t][z] = Len(s) + SendsIn(c)
          BY <3>1, <3>2
        <4>3. slots[t][z] = Len(Tail(s)) + SendsIn(a)
          <5> HIDE DEF s, c
          <5> QED
            BY <1>7, <1>15, <4>1, <4>2
        <4> QED
          BY <1>11, <1>16, <1>17, <3>2, <4>3
      <3>3. CASE ~(u = t /\ w = z)
        BY <1>11, <1>16, <1>17, <3>1, <3>3
      <3> QED
        BY <3>2, <3>3
    <2> QED
      BY <2>1, <2>2 DEF Slots
  <1> QED
    BY <1>19, <1>20, <1>21, <1>27, <1>28, <1>32 DEF PayloadInv


-----------------------------------------------------------------------------
(* The invariant. *)

\* Nothing is on its way at first.
LEMMA PayloadInit == Init => PayloadInv
  <1> SUFFICES ASSUME Init
               PROVE  PayloadInv
    OBVIOUS
  <1>1. /\ pc = [t \in Threads |-> "off"] /\ nextQp = FirstQp /\ qpn = PerConn(0)
        /\ early = FALSE /\ remDest = "null" /\ ah = PerConn("none")
        /\ rq = PerConn(<<>>) /\ cq = PerConn(<<>>) /\ sq = PerConn(<<>>) /\ slots = PerConn(0)
        /\ turn = [t \in Threads |-> 0] /\ wc = [t \in Threads |-> <<>>]
        /\ atServer = {} /\ client = [k \in Tokens |-> "idle"] /\ owner \in [Tokens -> ClientKinds]
        /\ bufRecv = PerConn([b \in Bufs |-> NoToken])
        /\ bufSend = PerConn([b \in Bufs |-> NoToken])
    BY DEF Init
  <1>2. FirstQp \in Nat /\ 0 \in 0 .. RxDepth /\ 0 \in Conns
    BY Sizes, RelaySizes, TwoConns
  <1>3. /\ \A S : <<>> \in Seq(S)
        /\ [b \in Bufs |-> NoToken] \in [Bufs -> Tokens \cup {NoToken}]
        /\ {} \subseteq Threads \X (0 .. ServerCores - 1) \X Tokens
    OBVIOUS
  <1>4. TypeOK
    BY <1>1, <1>2, <1>3 DEF TypeOK, PerConn
  <1>5. /\ \A t \in Threads : pc[t] = "off" /\ wc[t] = <<>>
        /\ \A t \in Threads, y \in Conns : cq[t][y] = <<>> /\ sq[t][y] = <<>> /\ slots[t][y] = 0
    BY <1>1 DEF PerConn
  <1>6. \A t \in Threads : Located(t) /\ ~InLoop(t) /\ \A y \in Conns : ~Connected(t, y)
    BY <1>1, <1>5 DEF Located, InLoop, Connected
  <1>7. Dests
    <2>1. \A t \in Threads : DOMAIN sq[t][1] = {}
      BY <1>5, TwoConns
    <2> QED
      BY <2>1 DEF Dests
  <1>8. Lines
    BY <1>6 DEF Lines
  <1>9. \A t \in Threads, y \in Conns : Busy(t, y) = {}
    BY <1>6, NothingYet
  <1>10. Unique
    BY <1>1, <1>9 DEF Unique
  <1>11. Accounted
    BY <1>1, <1>9 DEF Accounted
  <1>12. Slots
    <2>1. \A t \in Threads, y \in Conns : slots[t][y] = Len(sq[t][y]) + SendsIn(cq[t][y])
      BY <1>5, NoRecvs
    <2>2. ASSUME NEW t \in Threads
          PROVE  RoomAt(t)
      <3>1. Cardinality(Away(t)) \in Nat /\ Cardinality(Beyond(t)) \in Nat
        BY AwaySubset, RelaySizes, FS_Subset, FS_CardinalityType
      <3>2. SendsIn(cq[t][0]) = 0 /\ SendsIn(cq[t][1]) = 0
        BY <1>5, NoRecvs, TwoConns
      <3> QED
        BY <3>1, <3>2 DEF RoomAt
    <2> QED
      BY <2>1, <2>2 DEF Slots
  <1> QED
    BY <1>4, <1>6, <1>7, <1>8, <1>10, <1>11, <1>12 DEF PayloadInv

LEMMA PayloadStutters ==
  ASSUME PayloadInv, UNCHANGED vars
  PROVE  PayloadInv'
  <1>1. UNCHANGED <<pc, nextQp, qpn, early, remDest, ah, rq, cq, sq, slots, bufRecv, bufSend,
                    turn, wc, atServer, client, owner>>
    BY DEF vars, setupVars, queueVars, loopVars, clientVars
  <1>2. TypeOK' /\ Dests'
    BY <1>1 DEF PayloadInv, TypeOK, Dests
  <1>3. \A t \in Threads, y \in Conns :
          /\ Received(t, y)' = Received(t, y) /\ Polling(t, y)' = Polling(t, y)
          /\ Lent(t, y)' = Lent(t, y) /\ LentOf(t, y)' = LentOf(t, y)
          /\ Connected(t, y)' = Connected(t, y) /\ Waiting(t, y)' = Waiting(t, y)
    BY <1>1 DEF Received, Polling, Lent, LentOf, Connected, InLoop, Waiting
  <1>4. LinesStay
    BY <1>1, <1>3 DEF LinesStay, Busy, Held
  <1>5. Unique' /\ Accounted'
    BY <1>1, <1>4, PlacesStay DEF PayloadInv
  <1>6. \A t \in Threads : Located(t)'
    BY <1>1 DEF PayloadInv, Located, InLoop
  <1>7. Lines'
    <2> SUFFICES ASSUME NEW t \in Threads, NEW y \in Conns, Connected(t, y)'
                 PROVE  Apart(t, y)' /\ Following(t, y)'
      BY DEF Lines
    <2>1. Apart(t, y) /\ Following(t, y)
      BY <1>3 DEF PayloadInv, Lines
    <2> QED
      BY <1>1, <1>3, <2>1 DEF Apart, Following
  <1>8. Slots'
    <2>1. ASSUME NEW t \in Threads
          PROVE  RoomAt(t)'
      <3>1. \A w \in Conns : Carried(t, w)' = Carried(t, w)
        BY <1>4 DEF LinesStay, Carried
      <3> QED
        BY <1>1, <1>3, <3>1, AtThread, RoomStays
    <2>2. \A u \in Threads, w \in Conns : slots'[u][w] = Len(sq'[u][w]) + SendsIn(cq'[u][w])
      BY <1>1 DEF PayloadInv, Slots
    <2> QED
      BY <2>1, <2>2 DEF Slots
  <1> QED
    BY <1>2, <1>5, <1>6, <1>7, <1>8 DEF PayloadInv

\* As long as no thread reads a null handle.
LEMMA PayloadNext ==
  ASSUME PayloadInv, [Next]_vars, \A t \in Threads : ~ForwardCrashes(t)
  PROVE  PayloadInv'
  <1>1. ASSUME NEW t \in Threads, Thread(t)
        PROVE  PayloadInv'
    <2>1. CASE \/ Start(t) \/ CreateIngress(t) \/ CreateEgress(t) \/ LeaveBarrier(t)
               \/ (t = 0 /\ (Resolve \/ Fill))
      BY <2>1, StartUpKeeps
    <2>2. ASSUME NEW y \in Conns, Connect(t, y)
          PROVE  PayloadInv'
      BY <2>2, ConnectKeeps
    <2>3. CASE Poll(t)
      BY <2>3, PollKeeps
    <2>4. CASE HandleSend(t)
      BY <2>4, HandleSendKeeps
    <2>5. CASE PostRecv(t)
      BY <2>5, PostRecvKeeps
    <2>6. CASE Forward(t)
      BY <2>6, ForwardKeeps
    <2> QED
      BY <1>1, <2>1, <2>2, <2>3, <2>4, <2>5, <2>6 DEF Thread
  <1>2. ASSUME NEW t \in Threads, NEW y \in Conns, NicSend(t, y)
        PROVE  PayloadInv'
    BY <1>2, NicSendKeeps
  <1>3. ASSUME NEW k \in Tokens, Server(k)
        PROVE  PayloadInv'
    <2>1. PICK x \in atServer : x[3] = k /\ ServerReply(x)
      BY <1>3 DEF Server
    <2>2. x[1] \in Threads
      <3>1. x \in Threads \X (0 .. ServerCores - 1) \X Tokens
        BY DEF PayloadInv, TypeOK
      <3> QED
        BY <3>1
    <2>3. PICK t \in Threads : t = x[1]
      BY <2>2
    <2>4. InLoop(t)
      BY <2>3 DEF PayloadInv, Located
    <2>5. /\ Arrive(t, 1, k, "out") /\ atServer' = atServer \ {x}
          /\ UNCHANGED <<pc, setupVars, sq, slots, bufSend, loopVars, owner>>
      BY <2>1, <2>3 DEF ServerReply
    <2> QED
      BY <2>1, <2>3, <2>4, <2>5, ArrivalKeeps, TwoConns
  <1>4. ASSUME NEW t \in Addressed, NEW k \in Tokens, ClientSend(t, k)
        PROVE  PayloadInv'
    <2>1. t \in Threads
      BY RelayAssumption DEF Threads
    <2>2. /\ InLoop(t) /\ Arrive(t, 0, k, "out") /\ client[k] = "idle" /\ atServer' = atServer
          /\ UNCHANGED <<pc, setupVars, sq, slots, bufSend, loopVars, owner>>
      BY <1>4 DEF ClientSend
    <2> QED
      BY <2>1, <2>2, ArrivalKeeps, TwoConns
  <1>5. CASE UNCHANGED vars
    BY <1>5, PayloadStutters
  <1> QED
    BY <1>1, <1>2, <1>3, <1>4, <1>5 DEF Next, Device

-----------------------------------------------------------------------------
(* The places of a request, line by line. *)

InCq(k, p, t, y) ==
  \E i \in DOMAIN cq[t][y] : /\ cq[t][y][i].kind = "recv" /\ bufRecv[t][y][cq[t][y][i].buf] = k
                             /\ p = <<"cq", t, y, i>>
InSq(k, p, t, z) ==
  \E i \in DOMAIN sq[t][z] : bufSend[t][z][sq[t][z][i].buf] = k /\ p = <<"sq", t, z, i>>
InWc(k, p, t) ==
  \E i \in DOMAIN wc[t] : /\ wc[t][i].kind = "recv" /\ bufRecv[t][turn[t]][wc[t][i].buf] = k
                          /\ p = <<"wc", t, i>>

LEMMA PlacesKinds ==
  ASSUME NEW k, NEW p
  PROVE  p \in Places(k) <=>
           \/ \E t \in Threads, y \in Conns : InCq(k, p, t, y) \/ InSq(k, p, t, y)
           \/ \E t \in Threads : InWc(k, p, t)
           \/ \E x \in atServer : x[3] = k /\ p = <<"server", x>>
  <1> DEFINE L(t, y) ==
               {<<"cq", t, y, i>> : i \in {j \in DOMAIN cq[t][y] :
                  cq[t][y][j].kind = "recv" /\ bufRecv[t][y][cq[t][y][j].buf] = k}}
               \cup {<<"sq", t, y, i>> : i \in {j \in DOMAIN sq[t][y] :
                       bufSend[t][y][sq[t][y][j].buf] = k}}
             W(t) ==
               {<<"wc", t, i>> : i \in {j \in DOMAIN wc[t] :
                  wc[t][j].kind = "recv" /\ bufRecv[t][turn[t]][wc[t][j].buf] = k}}
             V == {<<"server", x>> : x \in {z \in atServer : z[3] = k}}
  <1> DEFINE A == UNION {L(t, y) : t \in Threads, y \in Conns}
             B == UNION {W(t) : t \in Threads}
  <1>1. Places(k) = A \cup B \cup V
    BY DEF Places
  <1>2. \A t, y : p \in L(t, y) <=> InCq(k, p, t, y) \/ InSq(k, p, t, y)
    BY DEF InCq, InSq
  <1>3. \A t : p \in W(t) <=> InWc(k, p, t)
    BY DEF InWc
  <1>4. p \in V <=> \E x \in atServer : x[3] = k /\ p = <<"server", x>>
    OBVIOUS
  <1> HIDE DEF L, W, V
  <1>5. p \in A <=> \E t \in Threads, y \in Conns : p \in L(t, y)
    OBVIOUS
  <1>6. p \in B <=> \E t \in Threads : p \in W(t)
    OBVIOUS
  <1> HIDE DEF A, B
  <1>7. p \in Places(k) <=> p \in A \/ p \in B \/ p \in V
    BY <1>1
  <1>8. p \in A <=> \E t \in Threads, y \in Conns : InCq(k, p, t, y) \/ InSq(k, p, t, y)
    BY <1>2, <1>5
  <1>9. p \in B <=> \E t \in Threads : InWc(k, p, t)
    BY <1>3, <1>6
  <1> QED
    BY <1>4, <1>7, <1>8, <1>9

\* Place p of the request in buffer b of a line.
PlaceOf(p, t, y, b) ==
  \/ \E i \in DOMAIN cq[t][y] :
       cq[t][y][i].kind = "recv" /\ cq[t][y][i].buf = b /\ p = <<"cq", t, y, i>>
  \/ \E i \in DOMAIN sq[t][Other(y)] : sq[t][Other(y)][i].buf = b /\ p = <<"sq", t, Other(y), i>>
  \/ turn[t] = y /\ \E i \in DOMAIN wc[t] :
                      wc[t][i].kind = "recv" /\ wc[t][i].buf = b /\ p = <<"wc", t, i>>

\* Only a thread in the loop has a busy buffer.
LEMMA BusyLine ==
  ASSUME PayloadInv, NEW t \in Threads, NEW y \in Conns,
         wc[t] # <<>> \/ cq[t][y] # <<>> \/ sq[t][Other(y)] # <<>>
  PROVE  /\ Apart(t, y) /\ Following(t, y)
         /\ \A i, j \in DOMAIN sq[t][Other(y)] :
              sq[t][Other(y)][i].buf = sq[t][Other(y)][j].buf => i = j
         /\ SendBufs(sq[t][Other(y)]) \cap Received(t, y) = {}
  <1>1. TypeOK /\ Located(t)
    BY DEF PayloadInv
  <1>2. InLoop(t)
    BY <1>1, TwoConns DEF Located
  <1>3. Apart(t, y) /\ Following(t, y)
    BY <1>2, AtThread
  <1> QED
    BY <1>1, <1>3, SendsApart

LEMMA OnePlace ==
  ASSUME PayloadInv, NEW t \in Threads, NEW y \in Conns, NEW b,
         NEW p, NEW q, PlaceOf(p, t, y, b), PlaceOf(q, t, y, b)
  PROVE  p = q
  <1>1. wc[t] # <<>> \/ cq[t][y] # <<>> \/ sq[t][Other(y)] # <<>>
    <2>1. DOMAIN <<>> = {}
      OBVIOUS
    <2> QED
      BY <2>1 DEF PlaceOf
  <1>2. /\ NamedOnce(cq[t][y]) /\ NamedOnce(wc[t]) /\ Polling(t, y) \cap RecvBufs(cq[t][y]) = {}
        /\ \A i, j \in DOMAIN sq[t][Other(y)] :
             sq[t][Other(y)][i].buf = sq[t][Other(y)][j].buf => i = j
        /\ SendBufs(sq[t][Other(y)]) \cap Received(t, y) = {}
    BY <1>1, BusyLine DEF Apart
  <1> DEFINE C(x) == \E i \in DOMAIN cq[t][y] :
                       cq[t][y][i].kind = "recv" /\ cq[t][y][i].buf = b /\ x = <<"cq", t, y, i>>
             S(x) == \E i \in DOMAIN sq[t][Other(y)] :
                       sq[t][Other(y)][i].buf = b /\ x = <<"sq", t, Other(y), i>>
             W(x) == turn[t] = y /\ \E i \in DOMAIN wc[t] :
                       wc[t][i].kind = "recv" /\ wc[t][i].buf = b /\ x = <<"wc", t, i>>
  <1>3. \A x, z : C(x) /\ C(z) => x = z
    BY <1>2 DEF NamedOnce
  <1>4. \A x, z : S(x) /\ S(z) => x = z
    BY <1>2
  <1>5. \A x, z : W(x) /\ W(z) => x = z
    BY <1>2 DEF NamedOnce
  <1>6. \A x : C(x) => b \in RecvBufs(cq[t][y]) /\ b \in Received(t, y)
    BY DEF RecvBufs, Received
  <1>7. \A x : W(x) => b \in Polling(t, y) /\ b \in Received(t, y)
    BY DEF RecvBufs, Received, Polling
  <1>8. \A x : S(x) => b \in SendBufs(sq[t][Other(y)])
    BY DEF SendBufs
  <1>9. (C(p) \/ S(p) \/ W(p)) /\ (C(q) \/ S(q) \/ W(q))
    BY DEF PlaceOf
  <1> HIDE DEF C, S, W
  <1> QED
    BY <1>2, <1>3, <1>4, <1>5, <1>6, <1>7, <1>8, <1>9

\* Every place but the server belongs to a busy buffer, which holds the request.
LEMMA PlaceLine ==
  ASSUME PayloadInv, NEW k, NEW p \in Places(k)
  PROVE  \/ \E t \in Threads, y \in Conns : \E b \in Busy(t, y) :
              Held(t, y, b) = k /\ PlaceOf(p, t, y, b)
         \/ \E x \in atServer : x[3] = k /\ p = <<"server", x>>
  <1>1. ASSUME NEW t \in Threads, NEW y \in Conns, InCq(k, p, t, y)
        PROVE  \E b \in Busy(t, y) : Held(t, y, b) = k /\ PlaceOf(p, t, y, b)
    <2>1. PICK i \in DOMAIN cq[t][y] : /\ cq[t][y][i].kind = "recv"
                                       /\ bufRecv[t][y][cq[t][y][i].buf] = k
                                       /\ p = <<"cq", t, y, i>>
      BY <1>1 DEF InCq
    <2>2. PICK b : b = cq[t][y][i].buf
      OBVIOUS
    <2>3. b \in Received(t, y) /\ PlaceOf(p, t, y, b)
      BY <2>1, <2>2 DEF Received, RecvBufs, PlaceOf
    <2> QED
      BY <2>1, <2>2, <2>3 DEF Busy, Held
  <1>2. ASSUME NEW t \in Threads, NEW z \in Conns, InSq(k, p, t, z)
        PROVE  \E b \in Busy(t, Other(z)) : Held(t, Other(z), b) = k /\ PlaceOf(p, t, Other(z), b)
    <2>1. PICK i \in DOMAIN sq[t][z] : /\ bufSend[t][z][sq[t][z][i].buf] = k
                                       /\ p = <<"sq", t, z, i>>
      BY <1>2 DEF InSq
    <2>2. PICK b : b = sq[t][z][i].buf
      OBVIOUS
    <2>3. PICK y \in Conns : y = Other(z) /\ Other(y) = z
      BY TwoConns
    <2>4. b \in SendBufs(sq[t][Other(y)]) /\ PlaceOf(p, t, y, b) /\ sq[t][Other(y)] # <<>>
      BY <2>1, <2>2, <2>3 DEF SendBufs, PlaceOf
    <2>5. b \notin Received(t, y)
      BY <2>4, BusyLine
    <2> QED
      BY <2>1, <2>2, <2>3, <2>4, <2>5 DEF Busy, Held
  <1>3. ASSUME NEW t \in Threads, InWc(k, p, t)
        PROVE  \E b \in Busy(t, turn[t]) : Held(t, turn[t], b) = k /\ PlaceOf(p, t, turn[t], b)
    <2>1. PICK i \in DOMAIN wc[t] : /\ wc[t][i].kind = "recv"
                                    /\ bufRecv[t][turn[t]][wc[t][i].buf] = k
                                    /\ p = <<"wc", t, i>>
      BY <1>3 DEF InWc
    <2>2. PICK b : b = wc[t][i].buf
      OBVIOUS
    <2>3. b \in Received(t, turn[t]) /\ PlaceOf(p, t, turn[t], b)
      BY <2>1, <2>2 DEF Received, Polling, RecvBufs, PlaceOf
    <2> QED
      BY <2>1, <2>2, <2>3 DEF Busy, Held
  <1>4. \A t \in Threads : turn[t] \in Conns
    BY LineTypes, TwoConns DEF PayloadInv
  <1>5. \A z \in Conns : Other(z) \in Conns
    BY TwoConns
  <1> QED
    BY <1>1, <1>2, <1>3, <1>4, <1>5, PlacesKinds

\* And every busy buffer gives a place to the request it holds.
LEMMA LinePlace ==
  ASSUME NEW t \in Threads, NEW y \in Conns, NEW b \in Busy(t, y)
  PROVE  \E p : p \in Places(Held(t, y, b))
  <1> DEFINE k == Held(t, y, b)
  <1>1. CASE b \in Polling(t, y)
    <2>1. turn[t] = y /\ b \in RecvBufs(wc[t])
      BY <1>1 DEF Polling
    <2>2. PICK i \in DOMAIN wc[t] : wc[t][i].kind = "recv" /\ wc[t][i].buf = b
      BY <2>1 DEF RecvBufs
    <2>3. bufRecv[t][y][b] = k
      BY <1>1 DEF Held, Received
    <2>4. InWc(k, <<"wc", t, i>>, t)
      BY <2>1, <2>2, <2>3 DEF InWc
    <2> QED
      BY <2>4, PlacesKinds
  <1>2. CASE b \in RecvBufs(cq[t][y])
    <2>1. PICK i \in DOMAIN cq[t][y] : cq[t][y][i].kind = "recv" /\ cq[t][y][i].buf = b
      BY <1>2 DEF RecvBufs
    <2>2. bufRecv[t][y][b] = k
      BY <1>2 DEF Held, Received
    <2>3. InCq(k, <<"cq", t, y, i>>, t, y)
      BY <2>1, <2>2 DEF InCq
    <2> QED
      BY <2>3, PlacesKinds
  <1>3. CASE b \notin Received(t, y)
    <2>1. b \in SendBufs(sq[t][Other(y)])
      BY <1>3 DEF Busy
    <2>2. PICK i \in DOMAIN sq[t][Other(y)] : sq[t][Other(y)][i].buf = b
      BY <2>1 DEF SendBufs
    <2>3. bufSend[t][Other(y)][b] = k
      BY <1>3 DEF Held
    <2>4. InSq(k, <<"sq", t, Other(y), i>>, t, Other(y))
      BY <2>2, <2>3 DEF InSq
    <2> QED
      BY <2>4, PlacesKinds, TwoConns
  <1> QED
    BY <1>1, <1>2, <1>3 DEF Received

LEMMA PayloadsFollow == PayloadInv => PayloadsIntact
  <1> SUFFICES ASSUME PayloadInv, NEW k \in Tokens
               PROVE  /\ client[k] # "dropped"
                      /\ IF client[k] = "out" THEN \E p \in Places(k) : Places(k) = {p}
                                              ELSE Places(k) = {}
    BY DEF PayloadsIntact
  <1>1. Unique /\ Accounted
    BY DEF PayloadInv
  <1>2. ASSUME NEW p \in Places(k), NEW q \in Places(k)
        PROVE  p = q
    <2> DEFINE L(x) == \E t \in Threads, y \in Conns : \E b \in Busy(t, y) :
                         Held(t, y, b) = k /\ PlaceOf(x, t, y, b)
               V(x) == \E z \in atServer : z[3] = k /\ x = <<"server", z>>
    <2>1. (L(p) \/ V(p)) /\ (L(q) \/ V(q))
      BY PlaceLine
    <2>2. CASE L(p) /\ L(q)
      <3>1. PICK t \in Threads, y \in Conns : \E b \in Busy(t, y) :
                   Held(t, y, b) = k /\ PlaceOf(p, t, y, b)
        BY <2>2
      <3>2. PICK b \in Busy(t, y) : Held(t, y, b) = k /\ PlaceOf(p, t, y, b)
        BY <3>1
      <3>3. PICK u \in Threads, w \in Conns : \E d \in Busy(u, w) :
                   Held(u, w, d) = k /\ PlaceOf(q, u, w, d)
        BY <2>2
      <3>4. PICK d \in Busy(u, w) : Held(u, w, d) = k /\ PlaceOf(q, u, w, d)
        BY <3>3
      <3>5. t = u /\ y = w /\ b = d
        BY <1>1, <3>2, <3>4 DEF Unique
      <3> QED
        BY <3>2, <3>4, <3>5, OnePlace
    <2>3. ~(L(p) /\ V(q)) /\ ~(V(p) /\ L(q))
      BY <1>1 DEF Unique
    <2>4. V(p) /\ V(q) => p = q
      BY <1>1 DEF Unique
    <2> HIDE DEF L, V
    <2> QED
      BY <2>1, <2>2, <2>3, <2>4
  <1>3. ASSUME client[k] = "out"
        PROVE  \E p : p \in Places(k)
    <2>1. CASE \E t \in Threads, y \in Conns : \E b \in Busy(t, y) : Held(t, y, b) = k
      BY <2>1, LinePlace
    <2>2. CASE \E x \in atServer : x[3] = k
      <3>1. PICK x \in atServer : x[3] = k
        BY <2>2
      <3>2. <<"server", x>> \in Places(k)
        BY <3>1, PlacesKinds
      <3> QED
        BY <3>2
    <2> QED
      BY <1>1, <1>3, <2>1, <2>2 DEF Accounted
  <1>4. ASSUME NEW p \in Places(k)
        PROVE  client[k] = "out"
    BY <1>1, PlaceLine DEF Accounted
  <1>5. client[k] # "dropped"
    BY <1>1 DEF Accounted
  <1>6. CASE client[k] = "out"
    <2>1. PICK p : p \in Places(k)
      BY <1>3, <1>6
    <2>2. Places(k) = {p}
      BY <1>2, <2>1
    <2> QED
      BY <1>5, <1>6, <2>1, <2>2
  <1>7. CASE client[k] # "out"
    BY <1>4, <1>5, <1>7
  <1> QED
    BY <1>6, <1>7

\* A thread that dies in its loop leaves its queues as they are, and then nothing moves.
RelayInv == TypeOK /\ PayloadsIntact /\ (Running => PayloadInv)

LEMMA RelayInit == Init => RelayInv
  BY PayloadInit, PayloadsFollow DEF RelayInv, PayloadInv

\* The places of a request depend on the queues and buffers only.
LEMMA IntactStays ==
  ASSUME PayloadsIntact, UNCHANGED <<queueVars, loopVars, clientVars>>
  PROVE  PayloadsIntact'
  <1>1. UNCHANGED <<cq, sq, bufRecv, bufSend, turn, wc, atServer, client>>
    BY DEF queueVars, loopVars, clientVars
  <1>2. ASSUME NEW k
        PROVE  Places(k)' = Places(k)
    BY <1>1 DEF Places
  <1>3. ASSUME NEW k \in Tokens
        PROVE  /\ client'[k] # "dropped"
               /\ IF client'[k] = "out" THEN \E p \in Places(k)' : Places(k)' = {p}
                                        ELSE Places(k)' = {}
    <2>1. PICK P : P = Places(k)
      OBVIOUS
    <2>2. Places(k)' = P
      BY <1>2, <2>1
    <2>3. /\ client[k] # "dropped"
          /\ IF client[k] = "out" THEN \E p \in P : P = {p} ELSE P = {}
      BY <2>1 DEF PayloadsIntact
    <2> QED
      BY <1>1, <2>2, <2>3
  <1> QED
    BY <1>3 DEF PayloadsIntact

\* A thread reads a null handle.
LEMMA RelayCrashes ==
  ASSUME TypeOK, PayloadsIntact, NEW t \in Threads, ForwardCrashes(t)
  PROVE  RelayInv'
  <1>1. /\ pc' = [pc EXCEPT ![t] = "crashed"] /\ UNCHANGED <<setupVars, queueVars, loopVars, clientVars>>
    BY DEF ForwardCrashes, Goto
  <1>2. pc' \in [Threads -> Locations] /\ pc'[t] = "crashed"
    BY <1>1 DEF TypeOK, Locations
  <1>3. TypeOK'
    BY <1>1, <1>2 DEF TypeOK, Locations, setupVars, queueVars, loopVars, clientVars
  <1>4. PayloadsIntact'
    BY <1>1, IntactStays
  <1>5. ~Running'
    BY <1>2 DEF Running
  <1> QED
    BY <1>3, <1>4, <1>5 DEF RelayInv

LEMMA RelayNext == RelayInv /\ [Next]_vars => RelayInv'
  <1> SUFFICES ASSUME RelayInv, [Next]_vars
               PROVE  RelayInv'
    OBVIOUS
  <1>1. CASE UNCHANGED vars
    <2>1. UNCHANGED <<pc, setupVars, queueVars, loopVars, clientVars>>
      BY <1>1 DEF vars
    <2>2. TypeOK' /\ PayloadsIntact'
      BY <2>1, IntactStays DEF RelayInv, TypeOK, setupVars, queueVars, loopVars, clientVars
    <2>3. Running' => PayloadInv'
      BY <1>1, <2>1, PayloadStutters DEF RelayInv, Running
    <2> QED
      BY <2>2, <2>3 DEF RelayInv
  <1>2. CASE Running /\ \E t \in Threads : ForwardCrashes(t)
    BY <1>2, RelayCrashes DEF RelayInv
  <1>3. CASE Running /\ ~\E t \in Threads : ForwardCrashes(t)
    <2>1. PayloadInv'
      BY <1>3, PayloadNext DEF RelayInv
    <2>2. PayloadsIntact'
      BY <2>1, PayloadsFollow, PTL
    <2> QED
      BY <2>1, <2>2 DEF RelayInv, PayloadInv
  <1> QED
    BY <1>1, <1>2, <1>3 DEF Next

\* Every variable of the middle host keeps its type; in particular a thread never takes
\* more than rx_depth send slots of a connection and names only buffers it has.
THEOREM RelayTypeCorrect == Spec => []TypeOK
  <1>1. RelayInv => TypeOK
    BY DEF RelayInv
  <1> QED
    BY <1>1, RelayInit, RelayNext, PTL DEF Spec

\* The forwarding loop of the middle host loses no request and lets no payload overwrite
\* another one: a request on its way is in exactly one place, although its receive is
\* posted again before the payload is copied and its send buffer is used again before the
\* send has completed.
THEOREM PayloadsCorrect == Spec => []PayloadsIntact
  <1>1. RelayInv => PayloadsIntact
    BY DEF RelayInv
  <1> QED
    BY <1>1, RelayInit, RelayNext, PTL DEF Spec

=============================================================================
