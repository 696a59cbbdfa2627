---------------------------- MODULE ServerLemmas ----------------------------
(***************************************************************************)
(* Facts about the queues of the servers, about the device and about the    *)
(* verbs calls, for every number of queues, threads, buffers, priorities,   *)
(* clients and packets.  The proofs about each server rest on them.         *)
(***************************************************************************)
EXTENDS ServerThreads, WellFoundedInduction, TLAPS

-----------------------------------------------------------------------------
(* Sequences: what appending, taking the head and splitting do to the set of *)
(* buffers a queue holds.                                                    *)

LEMMA TailProperties ==
  ASSUME NEW S, NEW s \in Seq(S), s # <<>>
  PROVE  /\ Head(s) \in S
         /\ Tail(s) \in Seq(S)
         /\ Len(Tail(s)) = Len(s) - 1
         /\ \A i \in DOMAIN Tail(s) : Tail(s)[i] = s[i + 1] /\ i + 1 \in DOMAIN s
         /\ Head(s) = s[1]
         /\ 1 \in DOMAIN s
  OBVIOUS

LEMMA AppendProperties ==
  ASSUME NEW S, NEW s \in Seq(S), NEW e \in S
  PROVE  /\ Append(s, e) \in Seq(S)
         /\ Len(Append(s, e)) = Len(s) + 1
         /\ DOMAIN Append(s, e) = DOMAIN s \cup {Len(s) + 1}
         /\ \A i \in DOMAIN s : Append(s, e)[i] = s[i]
         /\ Append(s, e)[Len(s) + 1] = e
         /\ Len(s) + 1 \notin DOMAIN s
  OBVIOUS

LEMMA SubSeqProperties ==
  ASSUME NEW S, NEW s \in Seq(S), NEW m \in Nat, NEW n \in Nat, n <= Len(s)
  PROVE  /\ SubSeq(s, m + 1, n) \in Seq(S)
         /\ Len(SubSeq(s, m + 1, n)) = IF m <= n THEN n - m ELSE 0
         /\ \A i \in DOMAIN SubSeq(s, m + 1, n) :
              SubSeq(s, m + 1, n)[i] = s[m + i] /\ m + i \in DOMAIN s
  OBVIOUS

\* Posting a receive.
LEMMA PostedAppend ==
  ASSUME NEW S, NEW s \in Seq(S), NEW e \in S
  PROVE  /\ Range(Append(s, e)) = Range(s) \cup {e}
         /\ IsInjective(s) /\ e \notin Range(s) => IsInjective(Append(s, e))
  <1>1. Range(Append(s, e)) = Range(s) \cup {e}
    BY AppendProperties DEF Range
  <1>2. ASSUME IsInjective(s), e \notin Range(s)
        PROVE  IsInjective(Append(s, e))
    BY <1>2, AppendProperties DEF Range, IsInjective
  <1> QED
    BY <1>1, <1>2

\* The device consuming the oldest receive.
LEMMA PostedTail ==
  ASSUME NEW S, NEW s \in Seq(S), s # <<>>, IsInjective(s)
  PROVE  /\ Head(s) \in Range(s)
         /\ Range(Tail(s)) = Range(s) \ {Head(s)}
         /\ IsInjective(Tail(s))
  <1>1. Head(s) \in Range(s)
    BY TailProperties DEF Range
  <1>2. Range(Tail(s)) \subseteq Range(s) \ {Head(s)}
    BY TailProperties DEF Range, IsInjective
  <1>3. Range(s) \ {Head(s)} \subseteq Range(Tail(s))
    <2> SUFFICES ASSUME NEW i \in DOMAIN s, s[i] # Head(s)
                 PROVE  s[i] \in Range(Tail(s))
      BY DEF Range
    <2>1. i - 1 \in DOMAIN Tail(s) /\ Tail(s)[i - 1] = s[i]
      OBVIOUS
    <2> QED
      BY <2>1 DEF Range
  <1>4. IsInjective(Tail(s))
    BY TailProperties DEF IsInjective
  <1> QED
    BY <1>1, <1>2, <1>3, <1>4

LEMMA BufSizes == BuffersPerQ \in Nat \ {0} /\ NumQueues \in Nat \ {0}
  BY VerbsAssumption

LEMMA BufCount == NumBufs \in Nat \ {0}
  BY VerbsAssumption DEF NumBufs

LEMMA RecvsType ==
  ASSUME NEW s \in Seq(Completion)
  PROVE  RecvsIn(s) \subseteq RecvIds
  <1> SUFFICES ASSUME NEW i \in DOMAIN s, IsRecv(s[i])
               PROVE  s[i].wr_id \in RecvIds
    BY DEF RecvsIn
  <1>1. s[i] \in Completion
    OBVIOUS
  <1>2. s[i].wr_id \in SendIds \cup RecvIds
    BY <1>1 DEF Completion
  <1> QED
    BY <1>2, BufCount DEF IsRecv, RecvIds, SendIds

\* The device writing a completion.
LEMMA RecvsAppend ==
  ASSUME NEW s \in Seq(Completion), NEW c \in Completion
  PROVE  /\ RecvsIn(Append(s, c)) = RecvsIn(s) \cup (IF IsRecv(c) THEN {c.wr_id} ELSE {})
         /\ DistinctRecvs(s) /\ c.wr_id \notin RecvsIn(s) => DistinctRecvs(Append(s, c))
  <1> DEFINE t == Append(s, c)
  <1>1. /\ DOMAIN t = DOMAIN s \cup {Len(s) + 1}
        /\ \A i \in DOMAIN s : t[i] = s[i]
        /\ t[Len(s) + 1] = c
        /\ Len(s) + 1 \notin DOMAIN s
    BY AppendProperties
  <1> HIDE DEF t
  <1>2. RecvsIn(t) = RecvsIn(s) \cup (IF IsRecv(c) THEN {c.wr_id} ELSE {})
    BY <1>1 DEF RecvsIn
  <1>3. ASSUME DistinctRecvs(s), c.wr_id \notin RecvsIn(s)
        PROVE  DistinctRecvs(t)
    BY <1>1, <1>3 DEF RecvsIn, DistinctRecvs, IsRecv
  <1> QED
    BY <1>2, <1>3 DEF t

\* Handling the first polled completion.
LEMMA RecvsTail ==
  ASSUME NEW s \in Seq(Completion), s # <<>>
  PROVE  /\ Head(s) \in Completion
         /\ Tail(s) \in Seq(Completion)
         /\ ~IsRecv(Head(s)) => RecvsIn(Tail(s)) = RecvsIn(s)
         /\ IsRecv(Head(s)) => Head(s).wr_id \in RecvsIn(s)
         /\ RecvsIn(Tail(s)) \subseteq RecvsIn(s)
         /\ DistinctRecvs(s) => DistinctRecvs(Tail(s))
         /\ DistinctRecvs(s) /\ IsRecv(Head(s)) =>
              RecvsIn(Tail(s)) = RecvsIn(s) \ {Head(s).wr_id}
  <1>1. /\ Head(s) = s[1] /\ 1 \in DOMAIN s
        /\ \A i \in DOMAIN Tail(s) : Tail(s)[i] = s[i + 1] /\ i + 1 \in DOMAIN s
        /\ \A i \in DOMAIN s : i = 1 \/ (i - 1 \in DOMAIN Tail(s) /\ Tail(s)[i - 1] = s[i])
        /\ \A i \in DOMAIN Tail(s) : i + 1 # 1
        /\ Head(s) \in Completion
        /\ Tail(s) \in Seq(Completion)
    OBVIOUS
  <1>2. /\ IsRecv(Head(s)) => Head(s).wr_id \in RecvsIn(s)
        /\ RecvsIn(Tail(s)) \subseteq RecvsIn(s)
    BY <1>1 DEF RecvsIn
  <1>3. ASSUME NEW r \in RecvsIn(s)
        PROVE  r \in RecvsIn(Tail(s)) \/ (IsRecv(Head(s)) /\ r = Head(s).wr_id)
    <2>1. PICK i \in DOMAIN s : IsRecv(s[i]) /\ r = s[i].wr_id
      BY DEF RecvsIn
    <2> QED
      BY <1>1, <2>1 DEF RecvsIn
  <1>4. ASSUME DistinctRecvs(s)
        PROVE  DistinctRecvs(Tail(s))
    <2> SUFFICES ASSUME NEW i \in DOMAIN Tail(s), NEW j \in DOMAIN Tail(s),
                        IsRecv(Tail(s)[i]), Tail(s)[i].wr_id = Tail(s)[j].wr_id
                 PROVE  i = j
      BY DEF DistinctRecvs
    <2>1. i + 1 = j + 1
      BY <1>1, <1>4 DEF DistinctRecvs
    <2> QED
      BY <2>1
  <1>5. ASSUME DistinctRecvs(s), IsRecv(Head(s))
        PROVE  Head(s).wr_id \notin RecvsIn(Tail(s))
    BY <1>1, <1>5 DEF DistinctRecvs, RecvsIn
  <1> QED
    BY <1>1, <1>2, <1>3, <1>4, <1>5

\* Polling a prefix of the completion queue.
LEMMA RecvsSplit ==
  ASSUME NEW s \in Seq(Completion), NEW n \in 0 .. Len(s)
  PROVE  LET a == SubSeq(s, 1, n)
             b == SubSeq(s, n + 1, Len(s))
         IN  /\ a \in Seq(Completion) /\ b \in Seq(Completion)
             /\ RecvsIn(s) = RecvsIn(a) \cup RecvsIn(b)
             /\ DistinctRecvs(s) =>
                  /\ RecvsIn(a) \cap RecvsIn(b) = {}
                  /\ DistinctRecvs(a) /\ DistinctRecvs(b)
  <1> DEFINE a == SubSeq(s, 1, n)
             b == SubSeq(s, n + 1, Len(s))
  <1>1. /\ a \in Seq(Completion) /\ b \in Seq(Completion)
        /\ \A i \in DOMAIN a : i \in DOMAIN s /\ a[i] = s[i] /\ i <= n
        /\ \A i \in DOMAIN b : n + i \in DOMAIN s /\ b[i] = s[n + i] /\ i > 0
        /\ \A i \in DOMAIN s : \/ i \in DOMAIN a /\ a[i] = s[i]
                               \/ i - n \in DOMAIN b /\ b[i - n] = s[i]
        /\ DOMAIN s \subseteq Int /\ DOMAIN a \subseteq Int /\ DOMAIN b \subseteq Int
    OBVIOUS
  <1> HIDE DEF a, b
  <1>2. RecvsIn(s) = RecvsIn(a) \cup RecvsIn(b)
    <2>1. RecvsIn(a) \subseteq RecvsIn(s) /\ RecvsIn(b) \subseteq RecvsIn(s)
      BY <1>1 DEF RecvsIn
    <2>2. ASSUME NEW i \in DOMAIN s, IsRecv(s[i])
          PROVE  s[i].wr_id \in RecvsIn(a) \cup RecvsIn(b)
      BY <1>1, <2>2 DEF RecvsIn
    <2>3. RecvsIn(s) \subseteq RecvsIn(a) \cup RecvsIn(b)
      BY <2>2 DEF RecvsIn
    <2> QED
      BY <2>1, <2>3
  <1>3. ASSUME DistinctRecvs(s)
        PROVE  RecvsIn(a) \cap RecvsIn(b) = {}
    <2> SUFFICES ASSUME NEW i \in DOMAIN a, NEW j \in DOMAIN b,
                        IsRecv(a[i]), a[i].wr_id = b[j].wr_id
                 PROVE  FALSE
      BY DEF RecvsIn
    <2>1. i = n + j
      BY <1>1, <1>3 DEF DistinctRecvs
    <2> QED
      BY <1>1, <2>1
  <1>4. ASSUME DistinctRecvs(s)
        PROVE  DistinctRecvs(a)
    BY <1>1, <1>4 DEF DistinctRecvs
  <1>5. ASSUME DistinctRecvs(s)
        PROVE  DistinctRecvs(b)
    <2> SUFFICES ASSUME NEW i \in DOMAIN b, NEW j \in DOMAIN b,
                        IsRecv(b[i]), b[i].wr_id = b[j].wr_id
                 PROVE  i = j
      BY DEF DistinctRecvs
    <2>1. n + i = n + j
      BY <1>1, <1>5 DEF DistinctRecvs
    <2> QED
      BY <1>1, <2>1
  <1> QED
    BY <1>1, <1>2, <1>3, <1>4, <1>5 DEF a, b

\* Filing a request.
LEMMA BufsAppend ==
  ASSUME NEW s \in Seq(Req), NEW r \in Req
  PROVE  /\ BufsIn(Append(s, r)) = BufsIn(s) \cup {r.bufID}
         /\ DistinctBufs(s) /\ r.bufID \notin BufsIn(s) => DistinctBufs(Append(s, r))
  <1> DEFINE t == Append(s, r)
  <1>1. /\ DOMAIN t = DOMAIN s \cup {Len(s) + 1}
        /\ \A i \in DOMAIN s : t[i] = s[i]
        /\ t[Len(s) + 1] = r
        /\ Len(s) + 1 \notin DOMAIN s
    BY AppendProperties
  <1> HIDE DEF t
  <1>2. BufsIn(t) = BufsIn(s) \cup {r.bufID}
    BY <1>1 DEF BufsIn
  <1>3. ASSUME DistinctBufs(s), r.bufID \notin BufsIn(s)
        PROVE  DistinctBufs(t)
    BY <1>1, <1>3 DEF BufsIn, DistinctBufs
  <1> QED
    BY <1>2, <1>3 DEF t

\* Taking the oldest request.
LEMMA BufsTail ==
  ASSUME NEW s \in Seq(Req), s # <<>>
  PROVE  /\ Head(s) \in Req
         /\ Tail(s) \in Seq(Req)
         /\ Head(s).bufID \in BufsIn(s)
         /\ BufsIn(Tail(s)) \subseteq BufsIn(s)
         /\ DistinctBufs(s) =>
              /\ DistinctBufs(Tail(s))
              /\ BufsIn(Tail(s)) = BufsIn(s) \ {Head(s).bufID}
  <1>1. /\ Head(s) = s[1] /\ 1 \in DOMAIN s
        /\ \A i \in DOMAIN Tail(s) : Tail(s)[i] = s[i + 1] /\ i + 1 \in DOMAIN s
        /\ \A i \in DOMAIN s : i = 1 \/ (i - 1 \in DOMAIN Tail(s) /\ Tail(s)[i - 1] = s[i])
        /\ \A i \in DOMAIN Tail(s) : i + 1 # 1
        /\ Head(s) \in Req
        /\ Tail(s) \in Seq(Req)
    OBVIOUS
  <1>2. /\ Head(s).bufID \in BufsIn(s)
        /\ BufsIn(Tail(s)) \subseteq BufsIn(s)
    BY <1>1 DEF BufsIn
  <1>3. ASSUME NEW r \in BufsIn(s)
        PROVE  r \in BufsIn(Tail(s)) \/ r = Head(s).bufID
    <2>1. PICK i \in DOMAIN s : r = s[i].bufID
      BY DEF BufsIn
    <2> QED
      BY <1>1, <2>1 DEF BufsIn
  <1>4. ASSUME DistinctBufs(s)
        PROVE  DistinctBufs(Tail(s))
    <2> SUFFICES ASSUME NEW i \in DOMAIN Tail(s), NEW j \in DOMAIN Tail(s),
                        Tail(s)[i].bufID = Tail(s)[j].bufID
                 PROVE  i = j
      BY DEF DistinctBufs
    <2>1. i + 1 = j + 1
      BY <1>1, <1>4 DEF DistinctBufs
    <2> QED
      BY <2>1
  <1>5. ASSUME DistinctBufs(s)
        PROVE  Head(s).bufID \notin BufsIn(Tail(s))
    BY <1>1, <1>5 DEF DistinctBufs, BufsIn
  <1> QED
    BY <1>1, <1>2, <1>3, <1>4, <1>5

\* Replacing one list of metaCQ, which has a row of lists for each thread or group.
LEMMA ReplaceList ==
  ASSUME NEW T, NEW m \in [T -> [Priorities -> Seq(Req)]],
         NEW t \in T, NEW p \in Priorities, NEW s \in Seq(Req)
  PROVE  /\ [m EXCEPT ![t][p] = s] \in [T -> [Priorities -> Seq(Req)]]
         /\ \A u \in T : \A o \in Priorities :
              [m EXCEPT ![t][p] = s][u][o] = IF u = t /\ o = p THEN s ELSE m[u][o]
  <1> DEFINE row == [m[t] EXCEPT ![p] = s]
             n == [m EXCEPT ![t] = row]
  <1>1. row \in [Priorities -> Seq(Req)] /\ \A o \in Priorities :
          row[o] = IF o = p THEN s ELSE m[t][o]
    OBVIOUS
  <1> HIDE DEF row
  <1>2. n \in [T -> [Priorities -> Seq(Req)]] /\ \A u \in T :
          n[u] = IF u = t THEN row ELSE m[u]
    BY <1>1
  <1> QED
    BY <1>1, <1>2 DEF row

-----------------------------------------------------------------------------
(* Connections, buffers and packets. *)

LEMMA ConnInRange == \A t \in Threads : ConnOf(t) \in Queues
  BY VerbsAssumption, ServerAssumption DEF ConnOf, Threads, Queues

\* The packet in a filled buffer is one that a client sent.
LEMMA FilledPacket ==
  ASSUME VerbsTypeOK, NEW b \in Filled
  PROVE  PacketIn(b) \in Packet
  BY DEF VerbsTypeOK, Filled, PacketIn

\* Buffers, receives and sends have the same numbers up to an offset.
LEMMA RecvToSend == \A b \in RecvIds : b - NumBufs \in SendIds
  BY BufCount DEF RecvIds, SendIds

LEMMA InitialRecvsType == \A q \in Queues : InitialRecvs(q) \in Seq(RecvIds)
  <1> SUFFICES ASSUME NEW q \in Queues, NEW i \in 1 .. BuffersPerQ
               PROVE  NumBufs + q * BuffersPerQ + i - 1 \in RecvIds
    BY VerbsAssumption DEF InitialRecvs
  <1>1. /\ q * BuffersPerQ \in Nat
        /\ q * BuffersPerQ + BuffersPerQ <= NumBufs
    BY VerbsAssumption DEF NumBufs, Queues
  <1> QED
    BY <1>1, VerbsAssumption, BufCount DEF RecvIds

\* The constructor splits the receive buffers evenly between the connections.
LEMMA InitialSplit ==
  /\ \A q \in Queues : Range(InitialRecvs(q)) = OwnBuffers(q) /\ IsInjective(InitialRecvs(q))
  /\ \A q, r \in Queues : q # r => OwnBuffers(q) \cap OwnBuffers(r) = {}
  /\ \A b \in RecvIds : \E q \in Queues : b \in OwnBuffers(q)
  <1>1. ASSUME NEW q \in Queues
        PROVE  Range(InitialRecvs(q)) = OwnBuffers(q) /\ IsInjective(InitialRecvs(q))
    <2> DEFINE k == NumBufs + q * BuffersPerQ
    <2>1. k \in Nat
      BY BufSizes, BufCount DEF Queues
    <2>2. InitialRecvs(q) = [i \in 1 .. BuffersPerQ |-> k + i - 1]
      BY DEF InitialRecvs
    <2>3. OwnBuffers(q) = k .. k + BuffersPerQ - 1
      BY DEF OwnBuffers
    <2> HIDE DEF k
    <2>4. IsInjective(InitialRecvs(q)) /\ Range(InitialRecvs(q)) \subseteq OwnBuffers(q)
      BY <2>1, <2>2, <2>3, BufSizes DEF IsInjective, Range
    <2>5. ASSUME NEW b \in OwnBuffers(q)
          PROVE  b \in Range(InitialRecvs(q))
      <3>1. b - k + 1 \in 1 .. BuffersPerQ /\ b = k + (b - k + 1) - 1
        BY <2>1, <2>3, BufSizes
      <3> QED
        BY <2>2, <3>1 DEF Range
    <2> QED
      BY <2>4, <2>5
  <1>2. ASSUME NEW q \in Queues, NEW r \in Queues, q < r
        PROVE  OwnBuffers(q) \cap OwnBuffers(r) = {}
    <2>1. q * BuffersPerQ + BuffersPerQ <= r * BuffersPerQ
      BY <1>2, BufSizes DEF Queues
    <2>2. q * BuffersPerQ \in Nat /\ r * BuffersPerQ \in Nat
      BY BufSizes DEF Queues
    <2> QED
      BY <2>1, <2>2, BufCount, BufSizes DEF OwnBuffers
  <1>3. ASSUME NEW b \in RecvIds
        PROVE  \E q \in Queues : b \in OwnBuffers(q)
    <2> DEFINE a == b - NumBufs
               q == a \div BuffersPerQ
    <2>1. a \in 0 .. BuffersPerQ * NumQueues - 1
      BY BufCount DEF RecvIds, NumBufs
    <2>2. q \in Queues /\ q * BuffersPerQ <= a /\ a < q * BuffersPerQ + BuffersPerQ
      BY <2>1, BufSizes DEF Queues
    <2>3. b \in OwnBuffers(q)
      BY <2>1, <2>2, BufCount, BufSizes DEF OwnBuffers, RecvIds, Queues
    <2> QED
      BY <2>2, <2>3
  <1>4. ASSUME NEW q \in Queues, NEW r \in Queues, q # r
        PROVE  q < r \/ r < q
    BY <1>4, BufSizes DEF Queues
  <1> QED
    BY <1>1, <1>2, <1>3, <1>4

\* The scheduler's choice exists: a nonempty set of priorities has a least one.
LEMMA FirstIsLeast ==
  ASSUME NEW S, S \subseteq Priorities, S # {}
  PROVE  First(S) \in S /\ \A x \in S : First(S) <= x
  <1>1. S \subseteq Nat
    BY VerbsAssumption DEF Priorities
  <1>2. PICK p \in S : \A x \in S : ~(<<x, p>> \in OpToRel(<, Nat))
    BY <1>1, NatLessThanWellFounded, WFMin
  <1>3. \A x \in S : p <= x
    <2> TAKE x \in S
    <2>1. ~(x < p)
      BY <1>1, <1>2 DEF OpToRel
    <2> QED
      BY <1>1, <2>1
  <1> QED
    BY <1>3 DEF First

-----------------------------------------------------------------------------
(* What the device and the calls of the program do to types, to the filled buffers *)
(* and to the receives in a completion queue.                                      *)

LEMMA VerbsInitType == VerbsInit => VerbsTypeOK
  <1> SUFFICES ASSUME VerbsInit
               PROVE  VerbsTypeOK
    OBVIOUS
  <1>1. rq \in [Queues -> Seq(RecvIds)]
    BY InitialRecvsType DEF VerbsInit
  <1>2. /\ cq \in [Queues -> Seq(Completion)]
        /\ sq \in [Queues -> Seq(SendRequest)]
        /\ sqDone \in [Queues -> Seq(BOOLEAN)]
        /\ replies \in [PacketIds -> Seq(Sources)]
    BY DEF VerbsInit
  <1>3. /\ bufRecv \in [SendIds -> 0 .. MaxPackets]
        /\ bufSend \in [SendIds -> 0 .. MaxPackets]
        /\ sent \in Seq(Packet)
        /\ Len(sent) <= MaxPackets
    BY VerbsAssumption DEF VerbsInit
  <1> QED
    BY <1>1, <1>2, <1>3 DEF VerbsTypeOK

\* The device delivers a packet.
LEMMA VerbsReceive ==
  ASSUME VerbsTypeOK, NEW q \in Queues, NEW pkt \in Packet, NicReceive(q, pkt)
  PROVE  /\ VerbsTypeOK'
         /\ Head(rq[q]) \in RecvIds
         /\ Filled \subseteq Filled' /\ Head(rq[q]) \in Filled'
         /\ \A b \in Filled \ {Head(rq[q])} :
              /\ bufRecv'[b - NumBufs] = bufRecv[b - NumBufs]
              /\ PacketIn(b)' = PacketIn(b)
         /\ bufRecv'[Head(rq[q]) - NumBufs] = Len(sent')
         /\ Len(sent') = Len(sent) + 1 /\ \A i \in 1 .. Len(sent) : sent'[i] = sent[i]
         /\ sent'[Len(sent')] = pkt
         /\ \A r \in Queues : RecvsIn(cq'[r]) =
              IF r = q THEN RecvsIn(cq[q]) \cup {Head(rq[q])} ELSE RecvsIn(cq[r])
  <1> DEFINE h == Head(rq[q])
             c == [wr_id |-> h, src_qp |-> pkt.src]
  <1>1. rq[q] \in Seq(RecvIds) /\ cq[q] \in Seq(Completion)
    BY DEF VerbsTypeOK
  <1>2. h \in RecvIds /\ Tail(rq[q]) \in Seq(RecvIds)
    BY <1>1, TailProperties DEF NicReceive
  <1>3. c \in Completion /\ IsRecv(c)
    BY <1>2, BufCount DEF Completion, Packet, RecvIds, IsRecv
  <1>4. Append(cq[q], c) \in Seq(Completion)
    BY <1>1, <1>3, AppendProperties
  <1>5. h - NumBufs \in SendIds
    BY <1>2, RecvToSend
  <1>6. /\ sent' \in Seq(Packet) /\ Len(sent') = Len(sent) + 1
        /\ Len(sent) \in Nat /\ Len(sent') <= MaxPackets
        /\ \A i \in 1 .. Len(sent) : sent'[i] = sent[i]
        /\ sent'[Len(sent')] = pkt
    BY VerbsAssumption DEF VerbsTypeOK, NicReceive
  <1>7. VerbsTypeOK'
    <2>1. rq' \in [Queues -> Seq(RecvIds)] /\ cq' \in [Queues -> Seq(Completion)]
      BY <1>2, <1>4 DEF VerbsTypeOK, NicReceive
    <2>2. bufRecv' \in [SendIds -> 0 .. MaxPackets]
      BY <1>5, <1>6, VerbsAssumption DEF VerbsTypeOK, NicReceive
    <2> QED
      BY <1>6, <2>1, <2>2 DEF VerbsTypeOK, NicReceive
  <1>8. /\ bufRecv'[h - NumBufs] = Len(sent')
        /\ \A b \in SendIds : b # h - NumBufs => bufRecv'[b] = bufRecv[b]
        /\ \A b \in SendIds : bufRecv[b] \in Nat
    BY <1>5, <1>6 DEF VerbsTypeOK, NicReceive
  <1>9. RecvIds \subseteq Int /\ NumBufs \in Int
    BY BufCount DEF RecvIds
  <1>10. ASSUME NEW b \in RecvIds, b # h
         PROVE  b - NumBufs \in SendIds /\ bufRecv'[b - NumBufs] = bufRecv[b - NumBufs]
    <2> HIDE DEF h
    <2>1. b - NumBufs # h - NumBufs
      BY <1>2, <1>9, <1>10
    <2> QED
      BY <1>8, <2>1, RecvToSend
  <1>11. \A r \in Queues : RecvsIn(cq'[r]) =
           IF r = q THEN RecvsIn(cq[q]) \cup {h} ELSE RecvsIn(cq[r])
    <2>1. cq'[q] = Append(cq[q], c) /\ \A r \in Queues : r # q => cq'[r] = cq[r]
      BY DEF VerbsTypeOK, NicReceive
    <2>2. RecvsIn(Append(cq[q], c)) = RecvsIn(cq[q]) \cup {h}
      BY <1>1, <1>3, RecvsAppend
    <2> HIDE DEF h, c
    <2> QED
      BY <2>1, <2>2
  <1> HIDE DEF h, c
  <1>12. Filled \subseteq Filled' /\ h \in Filled'
    <2>1. h \in Filled'
      BY <1>2, <1>6, <1>8 DEF Filled
    <2>2. ASSUME NEW b \in Filled, b # h
          PROVE  b \in Filled'
      BY <1>6, <1>10, <2>2 DEF Filled
    <2> QED
      BY <2>1, <2>2
  <1>13. ASSUME NEW b \in Filled, b # h
         PROVE  PacketIn(b)' = PacketIn(b)
    BY <1>6, <1>10, <1>13 DEF Filled, PacketIn
  <1>14. \A b \in Filled \ {h} : bufRecv'[b - NumBufs] = bufRecv[b - NumBufs]
    BY <1>10 DEF Filled
  <1> QED
    BY <1>2, <1>6, <1>7, <1>8, <1>11, <1>12, <1>13, <1>14 DEF h

\* It drops a packet.
LEMMA VerbsDrop ==
  ASSUME VerbsTypeOK, NEW q \in Queues, NEW pkt \in Packet, NicDrop(q, pkt)
  PROVE  /\ VerbsTypeOK' /\ Filled \subseteq Filled'
         /\ \A b \in Filled : PacketIn(b)' = PacketIn(b)
         /\ Len(sent') = Len(sent) + 1 /\ \A i \in 1 .. Len(sent) : sent'[i] = sent[i]
         /\ UNCHANGED <<rq, cq, sq, sqDone, bufRecv, bufSend, replies>>
  <1>1. /\ sent' \in Seq(Packet) /\ Len(sent') = Len(sent) + 1
        /\ Len(sent) \in Nat /\ Len(sent') <= MaxPackets
        /\ \A i \in 1 .. Len(sent) : sent'[i] = sent[i]
    BY VerbsAssumption DEF VerbsTypeOK, NicDrop
  <1>2. VerbsTypeOK'
    BY <1>1 DEF VerbsTypeOK, NicDrop
  <1>3. Filled \subseteq Filled' /\ \A b \in Filled : PacketIn(b)' = PacketIn(b)
    BY <1>1 DEF Filled, NicDrop, PacketIn
  <1> QED
    BY <1>1, <1>2, <1>3 DEF NicDrop

\* It transmits a response: the completion, if any, is no receive.
LEMMA VerbsSend ==
  ASSUME VerbsTypeOK, NEW q \in Queues, NicSend(q)
  PROVE  /\ VerbsTypeOK'
         /\ Head(sq[q]) \in SendRequest
         /\ \A r \in Queues : RecvsIn(cq'[r]) = RecvsIn(cq[r])
         /\ \A r \in Queues : DistinctRecvs(cq[r]) => DistinctRecvs(cq'[r])
         /\ UNCHANGED <<rq, bufRecv, bufSend, sent>> /\ Filled' = Filled
  <1> DEFINE wr == Head(sq[q])
             c == [wr_id |-> wr.wr_id, src_qp |-> wr.qpn]
  <1>1. /\ sq[q] \in Seq(SendRequest) /\ cq[q] \in Seq(Completion)
        /\ sqDone[q] \in Seq(BOOLEAN)
    BY DEF VerbsTypeOK
  <1>2. wr \in SendRequest /\ Tail(sq[q]) \in Seq(SendRequest)
    BY <1>1, TailProperties DEF NicSend
  <1>3. /\ wr.wr_id \in SendIds /\ wr.qpn \in Sources
        /\ wr.pkt \in 0 .. MaxPackets /\ wr.signal \in BOOLEAN
    BY <1>2 DEF SendRequest
  <1>4. c \in Completion /\ ~IsRecv(c) /\ c.wr_id \notin RecvIds
    BY <1>3, BufCount DEF Completion, SendIds, RecvIds, IsRecv
  <1>5. /\ cq' \in [Queues -> Seq(Completion)]
        /\ \A r \in Queues : RecvsIn(cq'[r]) = RecvsIn(cq[r])
        /\ \A r \in Queues : DistinctRecvs(cq[r]) => DistinctRecvs(cq'[r])
    <2>1. CASE wr.signal
      <3>1. cq' = [cq EXCEPT ![q] = Append(cq[q], c)]
        BY <2>1 DEF NicSend
      <3>2. Append(cq[q], c) \in Seq(Completion)
        BY <1>1, <1>4, AppendProperties
      <3>3. c.wr_id \notin RecvsIn(cq[q])
        BY <1>1, <1>4, RecvsType
      <3>4. /\ RecvsIn(Append(cq[q], c)) = RecvsIn(cq[q])
            /\ DistinctRecvs(cq[q]) => DistinctRecvs(Append(cq[q], c))
        BY <1>1, <1>4, <3>3, RecvsAppend
      <3>5. cq \in [Queues -> Seq(Completion)]
        BY DEF VerbsTypeOK
      <3> HIDE DEF c
      <3> QED
        BY <3>1, <3>2, <3>4, <3>5
    <2>2. CASE ~wr.signal
      BY <2>2 DEF NicSend, VerbsTypeOK
    <2> QED
      BY <2>1, <2>2
  <1>6. VerbsTypeOK'
    <2> HIDE DEF wr
    <2>1. sq' \in [Queues -> Seq(SendRequest)]
      BY <1>2 DEF VerbsTypeOK, NicSend, wr
    <2>2. sqDone' \in [Queues -> Seq(BOOLEAN)]
      <3>1. Append(sqDone[q], wr.signal) \in Seq(BOOLEAN)
        BY <1>1, <1>3, AppendProperties
      <3>2. sqDone' = [sqDone EXCEPT ![q] = Append(sqDone[q], wr.signal)]
        BY DEF NicSend, wr
      <3> QED
        BY <3>1, <3>2 DEF VerbsTypeOK
    <2>3. replies' \in [PacketIds -> Seq(Sources)]
      <3>1. CASE wr.pkt \in PacketIds
        <4>1. Append(replies[wr.pkt], wr.qpn) \in Seq(Sources)
          BY <1>3, <3>1, AppendProperties DEF VerbsTypeOK
        <4>2. replies' = [replies EXCEPT ![wr.pkt] = Append(replies[wr.pkt], wr.qpn)]
          BY <3>1 DEF NicSend, wr
        <4> QED
          BY <4>1, <4>2 DEF VerbsTypeOK
      <3>2. CASE wr.pkt \notin PacketIds
        BY <3>2 DEF VerbsTypeOK, NicSend, wr
      <3> QED
        BY <3>1, <3>2
    <2>4. UNCHANGED <<rq, bufRecv, bufSend, sent>>
      BY DEF NicSend
    <2> QED
      BY <1>5, <2>1, <2>2, <2>3, <2>4 DEF VerbsTypeOK
  <1> QED
    BY <1>2, <1>5, <1>6 DEF NicSend, Filled

\* Thread t polls: the completions of its connection are split.
LEMMA VerbsPoll ==
  ASSUME VerbsTypeOK, NEW t \in Threads, PollCq(ConnOf(t)),
         UNCHANGED <<rq, sq, bufRecv, bufSend, sent, replies>>
  PROVE  LET q == ConnOf(t)
             a == Polled(q)
         IN  /\ VerbsTypeOK' /\ Filled' = Filled
             /\ q \in Queues /\ a \in Seq(Completion)
             /\ \A r \in Queues : r # q => cq'[r] = cq[r]
             /\ RecvsIn(cq[q]) = RecvsIn(a) \cup RecvsIn(cq'[q])
             /\ DistinctRecvs(cq[q]) =>
                  /\ RecvsIn(a) \cap RecvsIn(cq'[q]) = {}
                  /\ DistinctRecvs(a) /\ DistinctRecvs(cq'[q])
  <1> DEFINE q == ConnOf(t)
             s == cq[q]
             n == PollCount(q)
             a == SubSeq(s, 1, n)
             b == SubSeq(s, n + 1, Len(s))
  <1>1. /\ q \in Queues /\ s \in Seq(Completion) /\ sqDone[q] \in Seq(BOOLEAN)
        /\ cq \in [Queues -> Seq(Completion)]
    BY ConnInRange DEF VerbsTypeOK
  <1>2. n \in 0 .. Len(s)
    BY <1>1, BufCount DEF PollCount
  <1>3. /\ a \in Seq(Completion) /\ b \in Seq(Completion)
        /\ RecvsIn(s) = RecvsIn(a) \cup RecvsIn(b)
        /\ DistinctRecvs(s) => /\ RecvsIn(a) \cap RecvsIn(b) = {}
                               /\ DistinctRecvs(a) /\ DistinctRecvs(b)
    <2> HIDE DEF s, n
    <2> QED
      BY <1>1, <1>2, RecvsSplit
  <1>4. cq' = [cq EXCEPT ![q] = b] /\ Polled(q) = a
    BY DEF PollCq, Polled
  <1>5. sqDone' \in [Queues -> Seq(BOOLEAN)]
    <2>1. PICK k \in 0 .. Len(sqDone[q]) :
            sqDone' = [sqDone EXCEPT ![q] = SubSeq(@, k + 1, Len(@))]
      BY DEF PollCq
    <2>2. SubSeq(sqDone[q], k + 1, Len(sqDone[q])) \in Seq(BOOLEAN)
      BY <1>1, SubSeqProperties
    <2> QED
      BY <2>1, <2>2 DEF VerbsTypeOK
  <1> HIDE DEF a, b, n
  <1>6. cq'[q] = b /\ \A r \in Queues : r # q => cq'[r] = cq[r]
    BY <1>1, <1>4
  <1>7. VerbsTypeOK'
    BY <1>1, <1>3, <1>4, <1>5 DEF VerbsTypeOK
  <1>8. Filled' = Filled
    BY DEF Filled
  <1> QED
    BY <1>1, <1>3, <1>4, <1>6, <1>7, <1>8

LEMMA VerbsPostRecv ==
  ASSUME VerbsTypeOK, NEW q \in Queues, NEW b \in RecvIds, PostRecvWR(q, b),
         UNCHANGED <<cq, sq, sqDone, bufRecv, bufSend, sent, replies>>
  PROVE  /\ VerbsTypeOK' /\ Filled' = Filled
         /\ rq[q] \in Seq(RecvIds) /\ rq'[q] = Append(rq[q], b)
         /\ \A r \in Queues : r # q => rq'[r] = rq[r]
  <1>1. rq \in [Queues -> Seq(RecvIds)] /\ rq' = [rq EXCEPT ![q] = Append(rq[q], b)]
    BY DEF VerbsTypeOK, PostRecvWR
  <1>2. Append(rq[q], b) \in Seq(RecvIds)
    BY <1>1, AppendProperties
  <1>3. VerbsTypeOK'
    BY <1>1, <1>2 DEF VerbsTypeOK
  <1> QED
    BY <1>1, <1>3 DEF Filled

LEMMA VerbsPostSend ==
  ASSUME VerbsTypeOK, NEW q \in Queues, NEW b \in RecvIds, NEW d \in Sources,
         NEW g \in BOOLEAN, PostSendWR(q, d, b - NumBufs, g),
         UNCHANGED <<rq, cq, sqDone, bufRecv, bufSend, sent, replies>>
  PROVE  VerbsTypeOK' /\ Filled' = Filled
  <1> DEFINE w == [wr_id |-> b - NumBufs, qpn |-> d, pkt |-> bufSend[b - NumBufs], signal |-> g]
  <1>1. /\ sq \in [Queues -> Seq(SendRequest)]
        /\ sq' = IF SendQueueFull(q) THEN sq ELSE [sq EXCEPT ![q] = Append(sq[q], w)]
    BY DEF VerbsTypeOK, PostSendWR, Payload
  <1>2. b - NumBufs \in SendIds
    BY RecvToSend
  <1>3. bufSend[b - NumBufs] \in 0 .. MaxPackets
    BY <1>2 DEF VerbsTypeOK
  <1>4. w \in SendRequest
    BY <1>2, <1>3 DEF SendRequest
  <1> HIDE DEF w
  <1>5. Append(sq[q], w) \in Seq(SendRequest)
    BY <1>1, <1>4, AppendProperties
  <1>6. sq' \in [Queues -> Seq(SendRequest)]
    BY <1>1, <1>5
  <1> QED
    BY <1>6 DEF VerbsTypeOK, Filled

-----------------------------------------------------------------------------
(* Responses.  The packet in a buffer that is not posted is live; serving it makes *)
(* it ready in buf_send, posting the response queues it and the device answers it. *)
(* No packet is in two of these states, nor in one of them twice.                  *)

PostedBufs == UNION {Range(rq[q]) : q \in Queues}
Live == {bufRecv[b - NumBufs] : b \in RecvIds \ PostedBufs}
Ready(t) == IF pc[t] = "postSend" THEN {bufSend[cur[t].bufID - NumBufs]} ELSE {}
PktsIn(s) == {s[k].pkt : k \in DOMAIN s}
Answered == {i \in PacketIds : replies[i] # <<>>}

\* A packet is in at most one state.
OneState ==
  /\ \A t \in Threads : Ready(t) \cap (Live \cup Answered) = {}
  /\ \A q \in Queues : PktsIn(sq[q]) \cap (Live \cup Answered) = {}
  /\ Live \cap Answered = {}
  /\ \A t \in Threads : \A q \in Queues : Ready(t) \cap PktsIn(sq[q]) = {}
  /\ \A t, u \in Threads : t # u => Ready(t) \cap Ready(u) = {}
  /\ \A q, r \in Queues : q # r => PktsIn(sq[q]) \cap PktsIn(sq[r]) = {}
  /\ \A q \in Queues : \A i, j \in DOMAIN sq[q] : sq[q][i].pkt = sq[q][j].pkt => i = j

\* No buffer holds a packet that was not sent yet, and no two hold the same packet.
NoneAhead == \A b \in SendIds : bufRecv[b] <= Len(sent)
Unique == \A a, b \in SendIds : a # b /\ bufRecv[a] = bufRecv[b] => bufRecv[a] = 0

\* A packet i that may be answered to d.
Answerable(i, d) == i \in 1 .. Len(sent) /\ ~sent[i].last /\ sent[i].src = d

\* What is queued and answered goes to the client that sent the packet.
Outgoing ==
  /\ \A q \in Queues : \A k \in DOMAIN sq[q] : Answerable(sq[q][k].pkt, sq[q][k].qpn)
  /\ \A i \in Answered : \E d \in Sources : Answerable(i, d) /\ replies[i] = <<d>>

\* The source of a receive or of a request is that of the packet in its buffer, for the
\* packets f of the buffers and the log l.
RecvsFrom(s, f, l) ==
  \A k \in DOMAIN s : IsRecv(s[k]) => s[k].src_qp = l[f[s[k].wr_id - NumBufs]].src
BufsFrom(s, f, l) == \A k \in DOMAIN s : s[k].srcQP = l[f[s[k].bufID - NumBufs]].src

\* A step of any server: the device writes into posted buffers only, and nobody else does.
Written ==
  \/ UNCHANGED <<bufRecv, sent>>
  \/ \E q \in Queues : \E pkt \in Packet : NicReceive(q, pkt) \/ NicDrop(q, pkt)

\* The log only grows.
LogKept ==
  /\ Len(sent) \in Nat /\ Len(sent') \in Nat /\ Len(sent) <= Len(sent')
  /\ \A k \in 1 .. Len(sent) : sent'[k] = sent[k]

LEMMA WrittenStamps ==
  ASSUME VerbsTypeOK, Written
  PROVE  LogKept /\ (NoneAhead => NoneAhead') /\ (NoneAhead /\ Unique => Unique')
  <1>1. Len(sent) \in Nat /\ bufRecv \in [SendIds -> Nat]
    BY DEF VerbsTypeOK
  <1>2. CASE UNCHANGED <<bufRecv, sent>>
    BY <1>1, <1>2 DEF LogKept, NoneAhead, Unique
  <1>3. ASSUME NEW q \in Queues, NEW pkt \in Packet, NicReceive(q, pkt)
        PROVE  LogKept /\ (NoneAhead => NoneAhead') /\ (NoneAhead /\ Unique => Unique')
    <2>1. Len(sent') = Len(sent) + 1 /\ \A k \in 1 .. Len(sent) : sent'[k] = sent[k]
      BY <1>3, VerbsReceive
    <2>2. PICK h : bufRecv' = [bufRecv EXCEPT ![h] = Len(sent) + 1]
      BY <1>3 DEF NicReceive
    <2>3. NoneAhead => NoneAhead'
      BY <1>1, <2>1, <2>2 DEF NoneAhead
    <2>4. NoneAhead /\ Unique => Unique'
      BY <1>1, <2>2 DEF Unique, NoneAhead
    <2> QED
      BY <1>1, <2>1, <2>3, <2>4 DEF LogKept
  <1>4. ASSUME NEW q \in Queues, NEW pkt \in Packet, NicDrop(q, pkt)
        PROVE  LogKept /\ (NoneAhead => NoneAhead') /\ (NoneAhead /\ Unique => Unique')
    <2>1. /\ Len(sent') = Len(sent) + 1 /\ UNCHANGED bufRecv
          /\ \A k \in 1 .. Len(sent) : sent'[k] = sent[k]
      BY <1>4, VerbsDrop
    <2> QED
      BY <1>1, <2>1 DEF LogKept, NoneAhead, Unique
  <1> QED
    BY <1>2, <1>3, <1>4 DEF Written

\* The packet of a buffer that holds one stays, unless the device takes the buffer.
LEMMA WrittenStays ==
  ASSUME VerbsTypeOK, Written, NEW b \in Filled, b \notin PostedBufs
  PROVE  /\ bufRecv'[b - NumBufs] = bufRecv[b - NumBufs]
         /\ sent'[bufRecv'[b - NumBufs]] = PacketIn(b)
  <1>1. CASE UNCHANGED <<bufRecv, sent>>
    BY <1>1 DEF PacketIn
  <1>2. ASSUME NEW q \in Queues, NEW pkt \in Packet, NicReceive(q, pkt)
        PROVE  /\ bufRecv'[b - NumBufs] = bufRecv[b - NumBufs]
               /\ sent'[bufRecv'[b - NumBufs]] = PacketIn(b)
    <2>1. rq[q] \in Seq(RecvIds) /\ rq[q] # <<>>
      BY <1>2 DEF VerbsTypeOK, NicReceive
    <2>2. Head(rq[q]) \in PostedBufs
      BY <2>1, TailProperties DEF PostedBufs, Range
    <2> QED
      BY <1>2, <2>2, VerbsReceive DEF PacketIn
  <1>3. ASSUME NEW q \in Queues, NEW pkt \in Packet, NicDrop(q, pkt)
        PROVE  /\ bufRecv'[b - NumBufs] = bufRecv[b - NumBufs]
               /\ sent'[bufRecv'[b - NumBufs]] = PacketIn(b)
    BY <1>3, VerbsDrop DEF PacketIn
  <1> QED
    BY <1>1, <1>2, <1>3 DEF Written

LEMMA AnswerableStays ==
  ASSUME LogKept, NEW i, NEW d, Answerable(i, d)
  PROVE  Answerable(i, d)'
  BY DEF LogKept, Answerable

-----------------------------------------------------------------------------
(* The sources travel with the requests. *)

LEMMA RecvsFromAppend ==
  ASSUME NEW f, NEW l, NEW s \in Seq(Completion), NEW c \in Completion, RecvsFrom(s, f, l),
         IsRecv(c) => c.src_qp = l[f[c.wr_id - NumBufs]].src
  PROVE  RecvsFrom(Append(s, c), f, l)
  BY AppendProperties DEF RecvsFrom

LEMMA RecvsFromTail ==
  ASSUME NEW f, NEW l, NEW s \in Seq(Completion), s # <<>>, RecvsFrom(s, f, l)
  PROVE  /\ RecvsFrom(Tail(s), f, l)
         /\ IsRecv(Head(s)) => Head(s).src_qp = l[f[Head(s).wr_id - NumBufs]].src
  <1>1. 1 \in DOMAIN s /\ Head(s) = s[1]
    BY TailProperties
  <1> QED
    BY <1>1, TailProperties DEF RecvsFrom

LEMMA BufsFromAppend ==
  ASSUME NEW f, NEW l, NEW s \in Seq(Req), NEW r \in Req, BufsFrom(s, f, l),
         r.srcQP = l[f[r.bufID - NumBufs]].src
  PROVE  BufsFrom(Append(s, r), f, l)
  BY AppendProperties DEF BufsFrom

LEMMA BufsFromTail ==
  ASSUME NEW f, NEW l, NEW s \in Seq(Req), s # <<>>, BufsFrom(s, f, l)
  PROVE  /\ BufsFrom(Tail(s), f, l)
         /\ Head(s).srcQP = l[f[Head(s).bufID - NumBufs]].src
  <1>1. 1 \in DOMAIN s /\ Head(s) = s[1]
    BY TailProperties
  <1> QED
    BY <1>1, TailProperties DEF BufsFrom

\* A completion that the device writes names the source of the packet it has delivered.
LEMMA ReceiveFrom ==
  ASSUME VerbsTypeOK, NEW q \in Queues, NEW pkt \in Packet, NicReceive(q, pkt),
         \A r \in Queues : RecvsFrom(cq[r], bufRecv', sent')
  PROVE  \A r \in Queues : RecvsFrom(cq'[r], bufRecv', sent')
  <1> DEFINE h == Head(rq[q])
             c == [wr_id |-> h, src_qp |-> pkt.src]
             f == bufRecv'
             l == sent'
  <1>1. /\ h \in RecvIds /\ f[h - NumBufs] = Len(sent') /\ sent'[Len(sent')] = pkt
    BY VerbsReceive
  <1>2. c \in Completion /\ c.src_qp = l[f[c.wr_id - NumBufs]].src
    BY <1>1, BufCount DEF Completion, Packet, RecvIds
  <1>3. cq' = [cq EXCEPT ![q] = Append(cq[q], c)] /\ cq \in [Queues -> Seq(Completion)]
    BY DEF NicReceive, VerbsTypeOK
  <1> HIDE DEF h, c
  <1>4. RecvsFrom(Append(cq[q], c), f, l)
    BY <1>2, <1>3, RecvsFromAppend
  <1> QED
    BY <1>3, <1>4

LEMMA SendFrom ==
  ASSUME VerbsTypeOK, NEW q \in Queues, NicSend(q), NEW f, NEW l,
         \A r \in Queues : RecvsFrom(cq[r], f, l)
  PROVE  \A r \in Queues : RecvsFrom(cq'[r], f, l)
  <1> DEFINE wr == Head(sq[q])
             c == [wr_id |-> wr.wr_id, src_qp |-> wr.qpn]
  <1>1. wr \in SendRequest
    BY VerbsSend
  <1>2. wr.wr_id \in SendIds /\ wr.qpn \in Sources
    BY <1>1 DEF SendRequest
  <1>3. c \in Completion /\ ~IsRecv(c)
    BY <1>2, BufCount DEF Completion, SendIds, IsRecv
  <1>4. /\ cq' = (IF wr.signal THEN [cq EXCEPT ![q] = Append(cq[q], c)] ELSE cq)
        /\ cq \in [Queues -> Seq(Completion)]
    BY DEF NicSend, VerbsTypeOK
  <1> HIDE DEF wr, c
  <1>5. RecvsFrom(Append(cq[q], c), f, l)
    BY <1>3, <1>4, RecvsFromAppend
  <1> QED
    BY <1>4, <1>5

LEMMA PollFrom ==
  ASSUME VerbsTypeOK, NEW q \in Queues, PollCq(q), NEW f, NEW l,
         \A r \in Queues : RecvsFrom(cq[r], f, l)
  PROVE  RecvsFrom(Polled(q), f, l) /\ \A r \in Queues : RecvsFrom(cq'[r], f, l)
  <1> DEFINE s == cq[q]
             n == PollCount(q)
             a == SubSeq(s, 1, n)
             b == SubSeq(s, n + 1, Len(s))
  <1>1. s \in Seq(Completion) /\ RecvsFrom(s, f, l) /\ cq \in [Queues -> Seq(Completion)]
    BY DEF VerbsTypeOK
  <1>2. n \in 0 .. Len(s)
    BY <1>1, BufCount DEF PollCount
  <1>3. cq' = [cq EXCEPT ![q] = b] /\ Polled(q) = a
    BY DEF PollCq, Polled
  <1>4. RecvsFrom(a, f, l) /\ RecvsFrom(b, f, l)
    <2> HIDE DEF s, n
    <2>1. /\ \A i \in DOMAIN a : i \in DOMAIN s /\ a[i] = s[i]
          /\ \A i \in DOMAIN b : n + i \in DOMAIN s /\ b[i] = s[n + i]
      BY <1>1, <1>2
    <2>2. RecvsFrom(s, f, l)
      BY <1>1
    <2> HIDE DEF a, b
    <2> QED
      BY <2>1, <2>2 DEF RecvsFrom
  <1> HIDE DEF s, n, a, b
  <1> QED
    BY <1>1, <1>3, <1>4

-----------------------------------------------------------------------------
(* How the steps move packets between the states. *)

\* What is answered and queued stays so.
LEMMA OutgoingStays ==
  ASSUME LogKept, Outgoing, UNCHANGED <<sq, replies>>
  PROVE  Outgoing' /\ Answered' = Answered
  <1>1. \A i, d : Answerable(i, d) => Answerable(i, d)'
    BY AnswerableStays
  <1>2. Answered' = Answered
    BY DEF Answered
  <1>3. \A q \in Queues : \A k \in DOMAIN sq[q] : Answerable(sq[q][k].pkt, sq[q][k].qpn)'
    BY <1>1 DEF Outgoing
  <1>4. \A i \in Answered : \E d \in Sources : Answerable(i, d)' /\ replies'[i] = <<d>>
    BY <1>1 DEF Outgoing
  <1> QED
    BY <1>2, <1>3, <1>4 DEF Outgoing

\* Steps that move no packet.
LEMMA StillStates ==
  ASSUME LogKept, Outgoing, OneState, UNCHANGED <<rq, sq, bufRecv, replies>>,
         \A u \in Threads : Ready(u)' = Ready(u)
  PROVE  Outgoing' /\ OneState'
  <1>1. Live' = Live
    BY DEF Live, PostedBufs
  <1>2. Outgoing' /\ Answered' = Answered
    BY OutgoingStays
  <1>3. OneState'
    BY <1>1, <1>2 DEF OneState
  <1> QED
    BY <1>2, <1>3

\* Packets that are queued or answered have been received.
LEMMA StatesReceived ==
  ASSUME Outgoing
  PROVE  /\ \A q \in Queues : PktsIn(sq[q]) \subseteq 1 .. Len(sent)
         /\ Answered \subseteq 1 .. Len(sent)
  <1>1. \A q \in Queues : PktsIn(sq[q]) \subseteq 1 .. Len(sent)
    BY DEF Outgoing, PktsIn, Answerable
  <1>2. Answered \subseteq 1 .. Len(sent)
    BY DEF Outgoing, Answerable
  <1> QED
    BY <1>1, <1>2

\* A received packet is live, and it is new.
LEMMA ReceiveStates ==
  ASSUME VerbsTypeOK, LogKept, Outgoing, OneState,
         \A t \in Threads : Ready(t) \subseteq 1 .. Len(sent),
         NEW q \in Queues, NEW pkt \in Packet, NicReceive(q, pkt), IsInjective(rq[q]),
         UNCHANGED <<pc, cur>>
  PROVE  Outgoing' /\ OneState'
  <1> DEFINE h == Head(rq[q])
             n == Len(sent) + 1
  <1>1. /\ UNCHANGED <<sq, bufSend, replies, pc, cur>>
        /\ bufRecv' = [bufRecv EXCEPT ![h - NumBufs] = n]
        /\ rq' = [rq EXCEPT ![q] = Tail(rq[q])] /\ rq[q] # <<>>
    BY DEF NicReceive
  <1>2. /\ rq \in [Queues -> Seq(RecvIds)] /\ bufRecv \in [SendIds -> 0 .. MaxPackets]
        /\ Len(sent) \in Nat
    BY DEF VerbsTypeOK
  <1>3. h \in RecvIds
    BY VerbsReceive
  <1>4. Outgoing' /\ Answered' = Answered
    BY <1>1, OutgoingStays
  <1>5. \A u \in Threads : Ready(u)' = Ready(u)
    BY <1>1 DEF Ready
  <1>6. Live' \subseteq Live \cup {n}
    <2> HIDE DEF h, n
    <2>2. Range(Tail(rq[q])) = Range(rq[q]) \ {h}
      BY <1>1, <1>2, PostedTail DEF h
    <2>3. PostedBufs \ {h} \subseteq PostedBufs'
      <3> SUFFICES ASSUME NEW r \in Queues, NEW b \in Range(rq[r]), b # h
                   PROVE  b \in Range(rq'[r])
        BY DEF PostedBufs
      <3>1. CASE r = q
        BY <1>1, <1>2, <2>2, <3>1
      <3>2. CASE r # q
        BY <1>1, <1>2, <3>2
      <3> QED
        BY <3>1, <3>2
    <2>4. \A b \in RecvIds \ PostedBufs' : b = h \/ b \in RecvIds \ PostedBufs
      BY <2>3
    <2>5. \A b \in RecvIds : b # h => bufRecv'[b - NumBufs] = bufRecv[b - NumBufs]
      BY <1>1, <1>2, <1>3, RecvToSend, BufCount DEF RecvIds
    <2>6. bufRecv'[h - NumBufs] = n
      BY <1>1, <1>2, <1>3, RecvToSend
    <2>7. ASSUME NEW b \in RecvIds \ PostedBufs'
          PROVE  bufRecv'[b - NumBufs] \in Live \cup {n}
      BY <2>4, <2>5, <2>6 DEF Live
    <2> QED
      BY <2>7 DEF Live
  <1>7. /\ \A t \in Threads : n \notin Ready(t)
        /\ \A r \in Queues : n \notin PktsIn(sq[r])
        /\ n \notin Answered
    <2>1. n \notin 1 .. Len(sent)
      BY <1>2
    <2> HIDE DEF n
    <2> QED
      BY <2>1, StatesReceived
  <1> HIDE DEF h, n
  <1>8. OneState'
    <2>1. /\ \A t \in Threads : Ready(t) \cap (Live' \cup Answered) = {}
          /\ \A r \in Queues : PktsIn(sq[r]) \cap (Live' \cup Answered) = {}
          /\ Live' \cap Answered = {}
      BY <1>6, <1>7 DEF OneState
    <2> QED
      BY <1>1, <1>4, <1>5, <2>1 DEF OneState
  <1> QED
    BY <1>4, <1>8

\* The device answers the oldest queued packet, which is in no other state.
LEMMA SendStates ==
  ASSUME VerbsTypeOK, LogKept, Outgoing, OneState,
         NEW q \in Queues, NicSend(q), UNCHANGED <<pc, cur>>
  PROVE  Outgoing' /\ OneState'
  <1> DEFINE s == sq[q]
             w == Head(s)
             i == w.pkt
  <1>1. /\ s # <<>> /\ UNCHANGED <<rq, bufRecv, bufSend, sent, pc, cur>>
        /\ sq' = [sq EXCEPT ![q] = Tail(s)]
        /\ replies' = IF i \in PacketIds THEN [replies EXCEPT ![i] = Append(replies[i], w.qpn)]
                                         ELSE replies
    BY DEF NicSend
  <1>2. /\ sq \in [Queues -> Seq(SendRequest)] /\ s \in Seq(SendRequest)
        /\ replies \in [PacketIds -> Seq(Sources)] /\ Len(sent) \in Nat
        /\ Len(sent) <= MaxPackets
    BY DEF VerbsTypeOK
  <1>3. w \in SendRequest /\ w = s[1] /\ 1 \in DOMAIN s
    BY <1>1, <1>2, TailProperties
  <1>4. Answerable(i, w.qpn) /\ w.qpn \in Sources
    BY <1>3 DEF Outgoing, SendRequest
  <1>5. i \in PktsIn(s)
    BY <1>3 DEF PktsIn
  <1>6. i \in PacketIds
    BY <1>2, <1>4, VerbsAssumption DEF Answerable, PacketIds
  <1>7. i \notin Answered /\ replies[i] = <<>>
    BY <1>5, <1>6 DEF OneState, Answered
  <1>8. replies' = [replies EXCEPT ![i] = <<w.qpn>>]
    BY <1>1, <1>6, <1>7
  <1>9. Answered' = Answered \cup {i}
    <2> HIDE DEF i, w
    <2> QED
      BY <1>2, <1>6, <1>8 DEF Answered
  <1>10. /\ \A k \in DOMAIN Tail(s) : k + 1 \in DOMAIN s /\ Tail(s)[k] = s[k + 1]
         /\ \A k \in DOMAIN Tail(s) : k \in Nat \ {0}
    BY <1>1, <1>2, TailProperties
  <1> HIDE DEF i, w, s
  <1>11. PktsIn(Tail(s)) \subseteq PktsIn(s) \ {i}
    <2>1. \A j, k \in DOMAIN s : s[j].pkt = s[k].pkt => j = k
      BY DEF OneState, s
    <2> SUFFICES ASSUME NEW k \in DOMAIN Tail(s)
                 PROVE  Tail(s)[k].pkt \in PktsIn(s) \ {i}
      BY DEF PktsIn
    <2>2. k + 1 # 1
      BY <1>10
    <2> QED
      BY <1>3, <1>10, <2>1, <2>2 DEF PktsIn, i
  <1>13. \A u \in Threads : Ready(u)' = Ready(u)
    BY <1>1 DEF Ready
  <1>14. Live' = Live
    BY <1>1 DEF Live, PostedBufs
  <1>15. /\ sq'[q] = Tail(s) /\ \A r \in Queues : r # q => sq'[r] = sq[r]
    BY <1>1, <1>2
  <1>16. Outgoing'
    <2>1. \A k, d : Answerable(k, d) => Answerable(k, d)'
      BY AnswerableStays
    <2>2. ASSUME NEW r \in Queues, NEW k \in DOMAIN sq'[r]
          PROVE  Answerable(sq'[r][k].pkt, sq'[r][k].qpn)
      <3>1. CASE r = q
        BY <1>10, <1>15, <2>2, <3>1 DEF Outgoing, s
      <3>2. CASE r # q
        BY <1>15, <2>2, <3>2 DEF Outgoing
      <3> QED
        BY <3>1, <3>2
    <2>3. \A r \in Queues : \A k \in DOMAIN sq'[r] : (Answerable(sq[r][k].pkt, sq[r][k].qpn))'
      BY <1>1, <2>2 DEF Answerable
    <2>4. ASSUME NEW k \in Answered'
          PROVE  \E d \in Sources : Answerable(k, d)' /\ replies'[k] = <<d>>
      <3>1. CASE k = i
        BY <1>2, <1>4, <1>6, <1>8, <2>1, <3>1
      <3>2. CASE k # i
        <4>1. k \in Answered /\ k \in PacketIds /\ replies'[k] = replies[k]
          BY <1>2, <1>8, <1>9, <2>4, <3>2 DEF Answered
        <4> QED
          BY <2>1, <4>1 DEF Outgoing
      <3> QED
        BY <3>1, <3>2
    <2> QED
      BY <2>3, <2>4 DEF Outgoing
  <1>17. OneState'
    <2>1. /\ \A r \in Queues : PktsIn(sq'[r]) \subseteq PktsIn(sq[r]) \ {i}
      <3>1. \A r \in Queues : r # q => i \notin PktsIn(sq[r])
        BY <1>5 DEF OneState, s
      <3> QED
        BY <1>11, <1>15, <3>1 DEF s
    <2>2. /\ i \notin Live /\ \A t \in Threads : i \notin Ready(t)
      BY <1>5 DEF OneState, s
    <2>3. \A r \in Queues : \A j, k \in DOMAIN sq'[r] : sq'[r][j].pkt = sq'[r][k].pkt => j = k
      <3> SUFFICES ASSUME NEW r \in Queues, NEW j \in DOMAIN sq'[r], NEW k \in DOMAIN sq'[r],
                          sq'[r][j].pkt = sq'[r][k].pkt
                   PROVE  j = k
        OBVIOUS
      <3>1. CASE r = q
        <4>1. /\ j \in DOMAIN Tail(s) /\ k \in DOMAIN Tail(s)
              /\ Tail(s)[j].pkt = Tail(s)[k].pkt
          BY <1>15, <3>1
        <4>2. \A a, b \in DOMAIN s : s[a].pkt = s[b].pkt => a = b
          BY DEF OneState, s
        <4>3. j + 1 = k + 1 /\ j \in Nat /\ k \in Nat
          BY <1>10, <4>1, <4>2
        <4> QED
          BY <4>3
      <3>2. CASE r # q
        BY <1>15, <3>2 DEF OneState
      <3> QED
        BY <3>1, <3>2
    <2>4. \A r, o \in Queues : r # o => PktsIn(sq'[r]) \cap PktsIn(sq'[o]) = {}
      BY <2>1 DEF OneState
    <2>5. \A t, u \in Threads : t # u => Ready(t)' \cap Ready(u)' = {}
      BY <1>13 DEF OneState
    <2>6. /\ \A t \in Threads : Ready(t)' \cap (Live' \cup Answered') = {}
          /\ \A t \in Threads : \A r \in Queues : Ready(t)' \cap PktsIn(sq'[r]) = {}
      BY <1>9, <1>13, <1>14, <2>1, <2>2 DEF OneState
    <2>7. /\ \A r \in Queues : PktsIn(sq'[r]) \cap (Live' \cup Answered') = {}
          /\ Live' \cap Answered' = {}
      BY <1>9, <1>14, <2>1, <2>2 DEF OneState
    <2> QED
      BY <2>3, <2>4, <2>5, <2>6, <2>7 DEF OneState
  <1> QED
    BY <1>16, <1>17

\* Posting the receive: the packet of the buffer is ready in the send buffer only.
LEMMA PostRecvStates ==
  ASSUME VerbsTypeOK, LogKept, Unique, Outgoing, OneState, NEW S, pc \in [Threads -> S],
         NEW t \in Threads, pc[t] = "postRecv", pc' = [pc EXCEPT ![t] = "postSend"],
         cur[t].bufID \in RecvIds \ PostedBufs,
         bufSend[cur[t].bufID - NumBufs] = bufRecv[cur[t].bufID - NumBufs],
         Answerable(bufRecv[cur[t].bufID - NumBufs], cur[t].srcQP),
         PostRecvWR(ConnOf(t), cur[t].bufID),
         UNCHANGED <<sq, bufRecv, bufSend, sent, replies, cur>>
  PROVE  Outgoing' /\ OneState'
  <1> DEFINE d == cur[t].bufID
             i == bufRecv[d - NumBufs]
  <1>1. rq' = [rq EXCEPT ![ConnOf(t)] = Append(rq[ConnOf(t)], d)]
    BY DEF PostRecvWR
  <1>2. /\ rq \in [Queues -> Seq(RecvIds)] /\ bufRecv \in [SendIds -> 0 .. MaxPackets]
        /\ Len(sent) \in Nat
    BY DEF VerbsTypeOK
  <1>3. d \in RecvIds /\ ConnOf(t) \in Queues
    BY ConnInRange
  <1>4. bufSend[d - NumBufs] = i /\ Answerable(i, cur[t].srcQP)
    OBVIOUS
  <1>5. d \in RecvIds \ PostedBufs
    OBVIOUS
  <1> HIDE DEF d, i
  <1>6. i \in Live /\ i # 0
    BY <1>2, <1>4, <1>5 DEF Live, Answerable, i
  <1>7. PostedBufs' = PostedBufs \cup {d}
    <2>1. Range(Append(rq[ConnOf(t)], d)) = Range(rq[ConnOf(t)]) \cup {d}
      BY <1>2, <1>3, PostedAppend
    <2>2. \A q \in Queues : Range(rq'[q]) =
            IF q = ConnOf(t) THEN Range(rq[q]) \cup {d} ELSE Range(rq[q])
      BY <1>1, <1>2, <2>1
    <2> QED
      BY ZenonT(60), <1>3, <2>2 DEF PostedBufs
  <1>8. Live' \subseteq Live \ {i}
    <2> SUFFICES ASSUME NEW b \in RecvIds \ PostedBufs'
                 PROVE  bufRecv[b - NumBufs] \in Live \ {i}
      BY <1>1 DEF Live
    <2>1. b \in RecvIds \ PostedBufs /\ b # d
      BY <1>7
    <2>2. b - NumBufs \in SendIds /\ d - NumBufs \in SendIds /\ b - NumBufs # d - NumBufs
      BY <1>3, <2>1, RecvToSend, BufCount DEF RecvIds
    <2>3. bufRecv[b - NumBufs] # i
      BY <1>6, <2>2 DEF Unique, i
    <2> QED
      BY <2>1, <2>3 DEF Live
  <1>9. /\ Ready(t)' = {i} /\ \A u \in Threads : u # t => Ready(u)' = Ready(u)
    BY <1>1, <1>2, <1>4 DEF Ready, d
  <1>11. Outgoing' /\ Answered' = Answered
    BY OutgoingStays
  <1>12. OneState'
    <2>1. /\ i \notin Answered /\ \A q \in Queues : i \notin PktsIn(sq[q])
          /\ \A u \in Threads : i \notin Ready(u)
      BY <1>6 DEF OneState
    <2>2. /\ \A u \in Threads : Ready(u)' \cap (Live' \cup Answered) = {}
          /\ \A u \in Threads : \A q \in Queues : Ready(u)' \cap PktsIn(sq[q]) = {}
      <3> SUFFICES ASSUME NEW u \in Threads
                   PROVE  /\ Ready(u)' \cap (Live' \cup Answered) = {}
                          /\ \A q \in Queues : Ready(u)' \cap PktsIn(sq[q]) = {}
        OBVIOUS
      <3>1. CASE u = t
        BY <1>8, <1>9, <2>1, <3>1
      <3>2. CASE u # t
        BY <1>8, <1>9, <3>2 DEF OneState
      <3> QED
        BY <3>1, <3>2
    <2>3. \A u, v \in Threads : u # v => Ready(u)' \cap Ready(v)' = {}
      BY <1>9, <2>1 DEF OneState
    <2>4. /\ \A q \in Queues : PktsIn(sq[q]) \cap (Live' \cup Answered) = {}
          /\ Live' \cap Answered = {}
      BY <1>8 DEF OneState
    <2> QED
      BY <1>1, <1>11, <2>2, <2>3, <2>4 DEF OneState
  <1> QED
    BY <1>11, <1>12

\* Posting the response queues the ready packet, or loses it.
LEMMA PostSendStates ==
  ASSUME VerbsTypeOK, LogKept, Outgoing, OneState, NEW S, pc \in [Threads -> S],
         NEW t \in Threads, pc[t] = "postSend", NEW loc, loc # "postSend",
         pc' = [pc EXCEPT ![t] = loc], cur[t] \in Req,
         Answerable(bufSend[cur[t].bufID - NumBufs], cur[t].srcQP),
         NEW g \in BOOLEAN, PostSendWR(ConnOf(t), cur[t].srcQP, cur[t].bufID - NumBufs, g),
         \A u \in Threads : u # t => cur'[u] = cur[u],
         UNCHANGED <<rq, bufRecv, bufSend, sent, replies>>
  PROVE  Outgoing' /\ OneState'
  <1> DEFINE q == ConnOf(t)
             i == bufSend[cur[t].bufID - NumBufs]
             w == [wr_id |-> cur[t].bufID - NumBufs, qpn |-> cur[t].srcQP, pkt |-> i,
                   signal |-> g]
  <1>1. sq' = IF SendQueueFull(q) THEN sq ELSE [sq EXCEPT ![q] = Append(sq[q], w)]
    BY DEF PostSendWR, Payload
  <1>2. /\ sq \in [Queues -> Seq(SendRequest)] /\ bufSend \in [SendIds -> 0 .. MaxPackets]
    BY DEF VerbsTypeOK
  <1>3. cur[t].bufID \in RecvIds /\ cur[t].srcQP \in Sources /\ q \in Queues
    BY ConnInRange DEF Req
  <1>4. Answerable(i, w.qpn) /\ w.pkt = i
    OBVIOUS
  <1>5. w \in SendRequest
    BY <1>2, <1>3, RecvToSend DEF SendRequest
  <1>6. /\ Ready(t) = {i} /\ Ready(t)' = {} /\ \A u \in Threads : u # t => Ready(u)' = Ready(u)
    BY DEF Ready
  <1>8. Live' = Live /\ Answered' = Answered
    BY <1>1 DEF Live, PostedBufs, Answered
  <1> HIDE DEF q, i, w
  <1>9. CASE sq' = sq
    <2>1. Outgoing'
      BY <1>9, OutgoingStays
    <2>2. OneState'
      BY <1>6, <1>8, <1>9 DEF OneState
    <2> QED
      BY <2>1, <2>2
  <1>10. CASE sq' = [sq EXCEPT ![q] = Append(sq[q], w)]
    <2> DEFINE s == sq[q]
    <2>1. /\ s \in Seq(SendRequest) /\ sq'[q] = Append(s, w)
          /\ \A r \in Queues : r # q => sq'[r] = sq[r]
      BY <1>2, <1>3, <1>10
    <2>2. /\ DOMAIN Append(s, w) = DOMAIN s \cup {Len(s) + 1}
          /\ \A k \in DOMAIN s : Append(s, w)[k] = s[k]
          /\ Append(s, w)[Len(s) + 1] = w
      BY <1>5, <2>1, AppendProperties
    <2>3. PktsIn(Append(s, w)) = PktsIn(s) \cup {i}
      BY <1>4, <2>2 DEF PktsIn
    <2>4. /\ i \notin Live /\ i \notin Answered /\ \A r \in Queues : i \notin PktsIn(sq[r])
          /\ \A u \in Threads : u # t => i \notin Ready(u)
      BY <1>6 DEF OneState
    <2>5. \A j, k \in DOMAIN Append(s, w) : Append(s, w)[j].pkt = Append(s, w)[k].pkt => j = k
      <3>1. \A j, k \in DOMAIN s : s[j].pkt = s[k].pkt => j = k
        BY <1>3 DEF OneState
      <3>2. \A k \in DOMAIN s : s[k].pkt # i
        BY <1>3, <2>4 DEF PktsIn
      <3> HIDE DEF s
      <3> QED
        BY <1>4, <2>2, <3>1, <3>2
    <2> HIDE DEF s
    <2>6. \A r \in Queues : PktsIn(sq'[r]) = IF r = q THEN PktsIn(sq[q]) \cup {i} ELSE PktsIn(sq[r])
      BY <2>1, <2>3 DEF s
    <2>7. OneState'
      <3>1. /\ \A u \in Threads : Ready(u)' \subseteq Ready(u) \ {i}
        BY <1>6, <2>4
      <3>2. /\ \A r \in Queues : PktsIn(sq'[r]) \subseteq PktsIn(sq[r]) \cup {i}
        BY <2>6
      <3>3. /\ \A u \in Threads : Ready(u)' \cap (Live \cup Answered) = {}
            /\ \A u \in Threads : \A r \in Queues : Ready(u)' \cap PktsIn(sq'[r]) = {}
        BY <3>1, <3>2 DEF OneState
      <3>4. /\ \A u, v \in Threads : u # v => Ready(u)' \cap Ready(v)' = {}
            /\ \A r \in Queues : PktsIn(sq'[r]) \cap (Live \cup Answered) = {}
        BY <2>4, <3>1, <3>2 DEF OneState
      <3>5. \A r, o \in Queues : r # o => PktsIn(sq'[r]) \cap PktsIn(sq'[o]) = {}
        BY <2>4, <2>6 DEF OneState
      <3>6. \A r \in Queues : \A j, k \in DOMAIN sq'[r] : sq'[r][j].pkt = sq'[r][k].pkt => j = k
        BY <2>1, <2>5 DEF OneState
      <3>7. Live \cap Answered = {}
        BY DEF OneState
      <3> QED
        BY <1>8, <3>3, <3>4, <3>5, <3>6, <3>7 DEF OneState
    <2>8. Outgoing'
      <3>1. ASSUME NEW r \in Queues, NEW k \in DOMAIN sq'[r]
            PROVE  Answerable(sq'[r][k].pkt, sq'[r][k].qpn)
        <4>1. CASE r = q /\ k = Len(s) + 1
          BY <1>4, <2>1, <2>2, <4>1
        <4>2. CASE r = q /\ k \in DOMAIN s
          BY <2>1, <2>2, <4>2 DEF Outgoing, s
        <4>3. CASE r # q
          BY <2>1, <3>1, <4>3 DEF Outgoing
        <4> QED
          BY <2>1, <2>2, <3>1, <4>1, <4>2, <4>3
      <3>2. \A r \in Queues : \A k \in DOMAIN sq'[r] :
              (Answerable(sq[r][k].pkt, sq[r][k].qpn))'
        BY <1>1, <3>1 DEF Answerable
      <3>3. \A k \in Answered' : \E d \in Sources : Answerable(k, d)' /\ replies'[k] = <<d>>
        BY <1>1, <1>8 DEF Outgoing, Answerable
      <3> QED
        BY <3>2, <3>3 DEF Outgoing
    <2> QED
      BY <2>7, <2>8
  <1> QED
    BY <1>1, <1>9, <1>10

=============================================================================
