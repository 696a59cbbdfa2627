------------------------- MODULE ReorderServerProofs -------------------------
(***************************************************************************)
(* Proofs about ReorderServer for every number of queues, threads, buffers,*)
(* priorities, clients and packets, with or without shared connections.    *)
(***************************************************************************)
EXTENDS ReorderServer, ServerLemmas

-----------------------------------------------------------------------------
(* Places. *)

\* What each place holds, before and after a step.
LEMMA HeldAt ==
  /\ \A q, k : Held(<<"rq", q, k>>) = Range(rq[q]) /\ Held(<<"rq", q, k>>)' = Range(rq'[q])
  /\ \A q, k : Held(<<"cq", q, k>>) = RecvsIn(cq[q]) /\ Held(<<"cq", q, k>>)' = RecvsIn(cq'[q])
  /\ \A t, k : Held(<<"wc", t, k>>) = RecvsIn(wc[t]) /\ Held(<<"wc", t, k>>)' = RecvsIn(wc'[t])
  /\ \A t, k : Held(<<"cur", t, k>>) = InHand(t) /\ Held(<<"cur", t, k>>)' = InHand(t)'
  /\ \A t, p : /\ Held(<<"meta", t, p>>) = BufsIn(metaCQ[t][p])
               /\ Held(<<"meta", t, p>>)' = BufsIn(metaCQ'[t][p])
  BY DEF Held, RecvsIn, IsRecv, BufsIn

LEMMA PlaceKinds ==
  ASSUME NEW x \in Places
  PROVE  \/ \E q \in Queues : x = <<"rq", q, 0>>
         \/ \E q \in Queues : x = <<"cq", q, 0>>
         \/ \E t \in Threads : x = <<"wc", t, 0>>
         \/ \E t \in Threads : x = <<"cur", t, 0>>
         \/ \E t \in Threads : \E p \in Priorities : x = <<"meta", t, p>>
  BY DEF Places

LEMMA PlaceMembers ==
  /\ \A q \in Queues : <<"rq", q, 0>> \in Places /\ <<"cq", q, 0>> \in Places
  /\ \A t \in Threads : <<"wc", t, 0>> \in Places /\ <<"cur", t, 0>> \in Places
  /\ \A t \in Threads : \A p \in Priorities : <<"meta", t, p>> \in Places
  BY DEF Places

\* The filled buffers, place by place.
LEMMA FilledPlaces ==
  ASSUME TypeOK
  PROVE  /\ \A q \in Queues : RecvsIn(cq[q]) \subseteq Filled
         /\ \A t \in Threads : RecvsIn(wc[t]) \subseteq Filled
         /\ \A t \in Threads : InHand(t) \subseteq Filled
         /\ \A t \in Threads : \A p \in Priorities : BufsIn(metaCQ[t][p]) \subseteq Filled
  BY HeldAt, PlaceMembers DEF TypeOK

LEMMA FilledPlacesNext ==
  ASSUME \A q \in Queues : RecvsIn(cq'[q]) \subseteq Filled',
         \A t \in Threads : RecvsIn(wc'[t]) \subseteq Filled',
         \A t \in Threads : InHand(t)' \subseteq Filled',
         \A t \in Threads : \A p \in Priorities : BufsIn(metaCQ'[t][p]) \subseteq Filled'
  PROVE  (\A x \in Places : x[1] # "rq" => Held(x) \subseteq Filled)'
  <1> SUFFICES ASSUME NEW x \in Places, x[1] # "rq"
               PROVE  Held(x)' \subseteq Filled'
    OBVIOUS
  <1> QED
    BY HeldAt, PlaceKinds

-----------------------------------------------------------------------------
(* Type correctness. *)

LEMMA TypeInit == Init => TypeOK
  <1> SUFFICES ASSUME Init
               PROVE  TypeOK
    OBVIOUS
  <1>1. VerbsTypeOK
    BY VerbsInitType DEF Init
  <1>2. ServerTypeOK
    <2>1. /\ wc \in [Threads -> Seq(Completion)]
          /\ metaCQ \in [Threads -> [Priorities -> Seq(Req)]]
      BY DEF Init, ThreadsInit
    <2>2. /\ pc \in [Threads -> Locations]
          /\ skipList \in [Threads -> SUBSET Priorities]
          /\ cur \in [Threads -> Req \cup {NoReq}]
          /\ rcnt \in [Queues -> Nat]
          /\ terminateRun \in BOOLEAN
          /\ device \in {"open", "closed", "crashed"}
      BY DEF Init, ThreadsInit, Locations
    <2> QED
      BY <2>1, <2>2 DEF ServerTypeOK, ThreadsTypeOK
  <1>3. HoldsWhileServing
    BY DEF Init, ThreadsInit, HoldsWhileServing
  <1>4. \A x \in Places : x[1] # "rq" => Held(x) \subseteq Filled
    <2> SUFFICES ASSUME NEW x \in Places, x[1] # "rq"
                 PROVE  Held(x) = {}
      OBVIOUS
    <2>1. /\ \A q \in Queues : RecvsIn(cq[q]) = {}
          /\ \A t \in Threads : RecvsIn(wc[t]) = {}
          /\ \A t \in Threads : \A p \in Priorities : BufsIn(metaCQ[t][p]) = {}
      BY DEF Init, ThreadsInit, VerbsInit, RecvsIn, BufsIn
    <2>2. \A t \in Threads : InHand(t) = {}
      BY DEF Init, ThreadsInit, InHand
    <2> QED
      BY <2>1, <2>2, HeldAt, PlaceKinds
  <1> QED
    BY <1>1, <1>2, <1>3, <1>4 DEF TypeOK

\* A step of the device that delivers a packet.
LEMMA TypeReceive ==
  ASSUME TypeOK, NEW q \in Queues, NEW pkt \in Packet,
         NicReceive(q, pkt), UNCHANGED serverVars
  PROVE  TypeOK'
  <1> DEFINE h == Head(rq[q])
  <1>1. VerbsTypeOK /\ ServerTypeOK /\ HoldsWhileServing
    BY DEF TypeOK
  <1>2. /\ VerbsTypeOK' /\ Filled \subseteq Filled' /\ h \in Filled'
        /\ \A r \in Queues : RecvsIn(cq'[r]) =
             IF r = q THEN RecvsIn(cq[q]) \cup {h} ELSE RecvsIn(cq[r])
    BY <1>1, VerbsReceive
  <1>3. /\ UNCHANGED <<pc, wc, metaCQ, cur>>
        /\ \A t \in Threads : InHand(t)' = InHand(t)
    BY DEF serverVars, threadVars, InHand
  <1>4. (\A x \in Places : x[1] # "rq" => Held(x) \subseteq Filled)'
    <2> HIDE DEF h
    <2> QED
      BY <1>2, <1>3, FilledPlaces, FilledPlacesNext
  <1>5. ServerTypeOK' /\ HoldsWhileServing'
    BY <1>1 DEF ServerTypeOK, ThreadsTypeOK, HoldsWhileServing, serverVars, threadVars
  <1> QED
    BY <1>2, <1>4, <1>5 DEF TypeOK

\* A step of the device that drops a packet or transmits a response.
LEMMA TypeDrop ==
  ASSUME TypeOK, NEW q \in Queues, NEW pkt \in Packet,
         NicDrop(q, pkt), UNCHANGED serverVars
  PROVE  TypeOK'
  <1>1. VerbsTypeOK /\ ServerTypeOK /\ HoldsWhileServing
    BY DEF TypeOK
  <1>2. VerbsTypeOK' /\ Filled \subseteq Filled' /\ UNCHANGED cq
    BY <1>1, VerbsDrop
  <1>3. /\ UNCHANGED <<pc, wc, metaCQ, cur>>
        /\ \A t \in Threads : InHand(t)' = InHand(t)
    BY DEF serverVars, threadVars, InHand
  <1>4. (\A x \in Places : x[1] # "rq" => Held(x) \subseteq Filled)'
    BY <1>2, <1>3, FilledPlaces, FilledPlacesNext
  <1>5. ServerTypeOK' /\ HoldsWhileServing'
    BY <1>1 DEF ServerTypeOK, ThreadsTypeOK, HoldsWhileServing, serverVars, threadVars
  <1> QED
    BY <1>2, <1>4, <1>5 DEF TypeOK

LEMMA TypeSend ==
  ASSUME TypeOK, NEW q \in Queues, NicSend(q), UNCHANGED serverVars
  PROVE  TypeOK'
  <1>1. VerbsTypeOK /\ ServerTypeOK /\ HoldsWhileServing
    BY DEF TypeOK
  <1>2. VerbsTypeOK' /\ Filled' = Filled /\ \A r \in Queues : RecvsIn(cq'[r]) = RecvsIn(cq[r])
    BY <1>1, VerbsSend
  <1>3. /\ UNCHANGED <<pc, wc, metaCQ, cur>>
        /\ \A t \in Threads : InHand(t)' = InHand(t)
    BY DEF serverVars, threadVars, InHand
  <1>4. (\A x \in Places : x[1] # "rq" => Held(x) \subseteq Filled)'
    BY <1>2, <1>3, FilledPlaces, FilledPlacesNext
  <1>5. ServerTypeOK' /\ HoldsWhileServing'
    BY <1>1 DEF ServerTypeOK, ThreadsTypeOK, HoldsWhileServing, serverVars, threadVars
  <1> QED
    BY <1>2, <1>4, <1>5 DEF TypeOK

\* Steps that move a thread without touching a queue or a request.
LEMMA TypeMove ==
  ASSUME TypeOK, NEW t \in Threads, NEW l \in Locations,
         pc' = [pc EXCEPT ![t] = l],
         pc[t] \notin {"postRecv", "postSend"}, l \notin {"postRecv", "postSend"},
         cur[t] # NoReq => l \in {"exit", "done"},
         wc[t] = <<>>,
         device' \in {"open", "closed", "crashed"},
         UNCHANGED <<verbsVars, wc, metaCQ, skipList, cur, rcnt, terminateRun>>
  PROVE  TypeOK'
  <1>1. VerbsTypeOK /\ ServerTypeOK /\ HoldsWhileServing
    BY DEF TypeOK
  <1>2. VerbsTypeOK'
    BY <1>1 DEF VerbsTypeOK, verbsVars
  <1>3. ServerTypeOK'
    BY <1>1 DEF ServerTypeOK, ThreadsTypeOK
  <1>4. HoldsWhileServing'
    BY <1>1 DEF ServerTypeOK, ThreadsTypeOK, HoldsWhileServing
  <1>5. \A u \in Threads : InHand(u)' = InHand(u)
    BY <1>1 DEF ServerTypeOK, ThreadsTypeOK, InHand
  <1>6. UNCHANGED <<cq, wc, metaCQ>> /\ Filled' = Filled
    BY DEF verbsVars, Filled
  <1>7. (\A x \in Places : x[1] # "rq" => Held(x) \subseteq Filled)'
    BY <1>5, <1>6, FilledPlaces, FilledPlacesNext
  <1> QED
    BY <1>2, <1>3, <1>4, <1>7 DEF TypeOK

LEMMA TypePoll ==
  ASSUME TypeOK, NEW t \in Threads, Poll(t)
  PROVE  TypeOK'
  <1> DEFINE q == ConnOf(t)
             a == Polled(q)
  <1>1. VerbsTypeOK /\ ServerTypeOK /\ HoldsWhileServing
    BY DEF TypeOK
  <1>2. /\ PollCq(q) /\ wc' = [wc EXCEPT ![t] = a]
        /\ UNCHANGED <<rq, sq, bufRecv, bufSend, sent, replies>>
        /\ UNCHANGED <<metaCQ, skipList, cur, rcnt, terminateRun, device>>
        /\ pc' = [pc EXCEPT ![t] = "drain"] /\ pc[t] = "poll"
    BY DEF Poll, Goto
  <1>3. /\ VerbsTypeOK' /\ Filled' = Filled /\ a \in Seq(Completion) /\ q \in Queues
        /\ \A r \in Queues : r # q => cq'[r] = cq[r]
        /\ RecvsIn(cq[q]) = RecvsIn(a) \cup RecvsIn(cq'[q])
    BY <1>1, <1>2, VerbsPoll
  <1> HIDE DEF q, a
  <1>4. ServerTypeOK'
    BY <1>1, <1>2, <1>3 DEF ServerTypeOK, ThreadsTypeOK, Locations
  <1>5. HoldsWhileServing'
    BY <1>1, <1>2 DEF ServerTypeOK, ThreadsTypeOK, HoldsWhileServing
  <1>6. \A u \in Threads : InHand(u)' = InHand(u)
    BY <1>1, <1>2 DEF ServerTypeOK, ThreadsTypeOK, InHand
  <1>7. /\ \A r \in Queues : RecvsIn(cq'[r]) \subseteq Filled
        /\ \A u \in Threads : RecvsIn(wc'[u]) \subseteq Filled
    BY <1>1, <1>2, <1>3, FilledPlaces DEF ServerTypeOK, ThreadsTypeOK
  <1>8. (\A x \in Places : x[1] # "rq" => Held(x) \subseteq Filled)'
    BY <1>2, <1>3, <1>6, <1>7, FilledPlaces, FilledPlacesNext
  <1> QED
    BY <1>3, <1>4, <1>5, <1>8 DEF TypeOK

\* The two cases of the completion loop.
LEMMA TypeSendCompletion ==
  ASSUME TypeOK, NEW t \in Threads, SendCompletion(t)
  PROVE  TypeOK'
  <1>1. /\ VerbsTypeOK /\ ServerTypeOK /\ HoldsWhileServing
        /\ wc[t] \in Seq(Completion) /\ wc[t] # <<>>
    BY DEF TypeOK, ServerTypeOK, ThreadsTypeOK, SendCompletion
  <1>2. Tail(wc[t]) \in Seq(Completion) /\ RecvsIn(Tail(wc[t])) \subseteq RecvsIn(wc[t])
    BY <1>1, RecvsTail
  <1>3. /\ wc' = [wc EXCEPT ![t] = Tail(wc[t])]
        /\ UNCHANGED <<verbsVars, pc, metaCQ, skipList, cur, rcnt, terminateRun, device>>
    BY DEF SendCompletion
  <1>4. VerbsTypeOK'
    BY <1>1, <1>3 DEF VerbsTypeOK, verbsVars
  <1>5. ServerTypeOK' /\ HoldsWhileServing'
    BY <1>1, <1>2, <1>3 DEF ServerTypeOK, ThreadsTypeOK, HoldsWhileServing
  <1>6. /\ UNCHANGED <<cq, metaCQ>> /\ Filled' = Filled
        /\ \A u \in Threads : InHand(u)' = InHand(u)
    BY <1>3 DEF verbsVars, Filled, InHand
  <1>7. \A u \in Threads : RecvsIn(wc'[u]) \subseteq Filled
    BY <1>1, <1>2, <1>3, FilledPlaces DEF ServerTypeOK, ThreadsTypeOK
  <1>8. (\A x \in Places : x[1] # "rq" => Held(x) \subseteq Filled)'
    BY <1>6, <1>7, FilledPlaces, FilledPlacesNext
  <1> QED
    BY <1>4, <1>5, <1>8 DEF TypeOK

\* What RecvCompletion does: it files request r under priority p.
FiledAs(t, p, r) ==
  /\ wc[t] # <<>> /\ IsRecv(Head(wc[t]))
  /\ r.bufID = Head(wc[t]).wr_id /\ r.srcQP = Head(wc[t]).src_qp
  /\ p = PacketIn(r.bufID).prio
  /\ skipList' = [skipList EXCEPT ![t] = @ \cup {p}]
  /\ metaCQ' \in [Threads -> [Priorities -> Seq(Req)]]
  /\ \A u \in Threads : \A o \in Priorities : metaCQ'[u][o] =
       IF u = t /\ o = p THEN Append(metaCQ[t][p], r) ELSE metaCQ[u][o]
  /\ wc' = [wc EXCEPT ![t] = Tail(@)]
  /\ UNCHANGED <<verbsVars, pc, cur, rcnt, terminateRun, device>>

LEMMA Filing ==
  ASSUME TypeOK, NEW t \in Threads, RecvCompletion(t)
  PROVE  \E p \in Priorities : \E r \in Req : FiledAs(t, p, r)
  <1> DEFINE c == Head(wc[t])
             p == PacketIn(c.wr_id).prio
             r == [bufID |-> c.wr_id, srcQP |-> c.src_qp]
  <1>1. wc[t] \in Seq(Completion) /\ wc[t] # <<>> /\ IsRecv(c) /\ VerbsTypeOK
    BY DEF TypeOK, ServerTypeOK, ThreadsTypeOK, RecvCompletion
  <1>2. c \in Completion /\ c.wr_id \in RecvsIn(wc[t])
    BY <1>1, RecvsTail
  <1>3. c.wr_id \in RecvIds /\ c.wr_id \in Filled
    BY <1>1, <1>2, RecvsType, FilledPlaces
  <1>4. PacketIn(c.wr_id) \in Packet
    BY <1>1, <1>3, FilledPacket
  <1>5. p \in Priorities
    BY <1>4 DEF Packet
  <1>6. r \in Req /\ r.bufID = c.wr_id /\ r.srcQP = c.src_qp /\ p = PacketIn(r.bufID).prio
    BY <1>2, <1>3 DEF Completion, Req
  <1>7. /\ skipList' = [skipList EXCEPT ![t] = @ \cup {p}]
        /\ metaCQ' = [metaCQ EXCEPT ![t][p] = Append(@, r)]
        /\ wc' = [wc EXCEPT ![t] = Tail(@)]
        /\ UNCHANGED <<verbsVars, pc, cur, rcnt, terminateRun, device>>
    BY DEF RecvCompletion, Enlist
  <1> HIDE DEF c, p, r
  <1>8. /\ metaCQ \in [Threads -> [Priorities -> Seq(Req)]]
        /\ metaCQ' = [metaCQ EXCEPT ![t][p] = Append(metaCQ[t][p], r)]
    BY <1>7 DEF TypeOK, ServerTypeOK, ThreadsTypeOK
  <1>9. Append(metaCQ[t][p], r) \in Seq(Req)
    BY <1>5, <1>6, <1>8, AppendProperties
  <1>10. /\ metaCQ' \in [Threads -> [Priorities -> Seq(Req)]]
         /\ \A u \in Threads : \A o \in Priorities : metaCQ'[u][o] =
              IF u = t /\ o = p THEN Append(metaCQ[t][p], r) ELSE metaCQ[u][o]
    BY <1>5, <1>8, <1>9, ReplaceList
  <1>11. /\ wc[t] # <<>> /\ IsRecv(Head(wc[t])) /\ r.bufID = Head(wc[t]).wr_id
         /\ r.srcQP = Head(wc[t]).src_qp
    BY <1>1, <1>6 DEF c
  <1>12. FiledAs(t, p, r)
    BY <1>6, <1>7, <1>10, <1>11 DEF FiledAs
  <1> QED
    BY <1>5, <1>6, <1>12

LEMMA TypeRecvCompletion ==
  ASSUME TypeOK, NEW t \in Threads, RecvCompletion(t)
  PROVE  TypeOK'
  <1>0. PICK p \in Priorities, r \in Req : FiledAs(t, p, r)
    BY Filing
  <1>1. FiledAs(t, p, r)!:
    BY <1>0 DEF FiledAs
  <1>2. /\ VerbsTypeOK /\ ServerTypeOK /\ HoldsWhileServing
        /\ wc[t] \in Seq(Completion) /\ metaCQ[t][p] \in Seq(Req)
    BY DEF TypeOK, ServerTypeOK, ThreadsTypeOK
  <1>3. /\ Tail(wc[t]) \in Seq(Completion) /\ RecvsIn(Tail(wc[t])) \subseteq RecvsIn(wc[t])
        /\ r.bufID \in RecvsIn(wc[t])
    BY <1>1, <1>2, RecvsTail
  <1>4. /\ Append(metaCQ[t][p], r) \in Seq(Req)
        /\ BufsIn(Append(metaCQ[t][p], r)) = BufsIn(metaCQ[t][p]) \cup {r.bufID}
    BY <1>2, AppendProperties, BufsAppend
  <1>6. VerbsTypeOK'
    BY <1>1, <1>2 DEF VerbsTypeOK, verbsVars
  <1>7. ServerTypeOK' /\ HoldsWhileServing'
    BY <1>1, <1>2, <1>3 DEF ServerTypeOK, ThreadsTypeOK, HoldsWhileServing
  <1>8. /\ UNCHANGED cq /\ Filled' = Filled
        /\ \A u \in Threads : InHand(u)' = InHand(u)
    BY <1>1 DEF verbsVars, Filled, InHand
  <1>9. \A u \in Threads : RecvsIn(wc'[u]) \subseteq Filled
    BY <1>1, <1>2, <1>3, FilledPlaces DEF ServerTypeOK, ThreadsTypeOK
  <1>10. \A u \in Threads : \A o \in Priorities : BufsIn(metaCQ'[u][o]) \subseteq Filled
    <2> TAKE u \in Threads
    <2> TAKE o \in Priorities
    <2>1. CASE u = t /\ o = p
      BY <1>1, <1>3, <1>4, <2>1, FilledPlaces
    <2>2. CASE ~(u = t /\ o = p)
      BY <1>1, <2>2, FilledPlaces
    <2> QED
      BY <2>1, <2>2
  <1>11. (\A x \in Places : x[1] # "rq" => Held(x) \subseteq Filled)'
    BY <1>8, <1>9, <1>10, FilledPlaces, FilledPlacesNext
  <1> QED
    BY <1>6, <1>7, <1>11 DEF TypeOK

\* What Serve and Terminate take: the oldest request of priority p.
TakenFrom(t, p) ==
  /\ p \in skipList[t] /\ metaCQ[t][p] # <<>>
  /\ \A x \in skipList[t] : p <= x
  /\ cur' = [cur EXCEPT ![t] = Head(metaCQ[t][p])]
  /\ metaCQ' \in [Threads -> [Priorities -> Seq(Req)]]
  /\ \A u \in Threads : \A o \in Priorities : metaCQ'[u][o] =
       IF u = t /\ o = p THEN Tail(metaCQ[t][p]) ELSE metaCQ[u][o]
  /\ skipList' = [skipList EXCEPT ![t] =
                    IF Tail(metaCQ[t][p]) = <<>> THEN @ \ {p} ELSE @]

LEMMA Taking ==
  ASSUME TypeOK, NEW t \in Threads, TakeRequest(t)
  PROVE  \E p \in Priorities : TakenFrom(t, p)
  <1> DEFINE p == First(skipList[t])
  <1>1. /\ skipList[t] # {} /\ metaCQ[t][p] # <<>>
        /\ cur' = [cur EXCEPT ![t] = Head(metaCQ[t][p])]
        /\ metaCQ' = [metaCQ EXCEPT ![t][p] = Tail(metaCQ[t][p])]
        /\ skipList' = [skipList EXCEPT ![t] =
                          IF Tail(metaCQ[t][p]) = <<>> THEN @ \ {p} ELSE @]
    BY DEF TakeRequest, StillWaiting
  <1>2. /\ skipList[t] \subseteq Priorities
        /\ metaCQ \in [Threads -> [Priorities -> Seq(Req)]]
    BY DEF TypeOK, ServerTypeOK, ThreadsTypeOK
  <1>3. p \in skipList[t] /\ p \in Priorities /\ \A x \in skipList[t] : p <= x
    BY <1>1, <1>2, FirstIsLeast
  <1> HIDE DEF p
  <1>4. Tail(metaCQ[t][p]) \in Seq(Req)
    BY <1>1, <1>2, <1>3, BufsTail
  <1>5. /\ metaCQ' \in [Threads -> [Priorities -> Seq(Req)]]
        /\ \A u \in Threads : \A o \in Priorities : metaCQ'[u][o] =
             IF u = t /\ o = p THEN Tail(metaCQ[t][p]) ELSE metaCQ[u][o]
    BY <1>1, <1>2, <1>3, <1>4, ReplaceList
  <1>6. TakenFrom(t, p)
    BY <1>1, <1>3, <1>5 DEF TakenFrom
  <1> QED
    BY <1>3, <1>6

LEMMA TypeTake ==
  ASSUME TypeOK, NEW t \in Threads, TakeRequest(t), NEW l \in {"exit", "postRecv"},
         pc' = [pc EXCEPT ![t] = l], terminateRun' \in BOOLEAN,
         bufSend' \in [SendIds -> 0 .. MaxPackets],
         UNCHANGED <<rq, cq, sq, sqDone, bufRecv, sent, replies, wc, device>>
  PROVE  TypeOK'
  <1>1. PICK p \in Priorities : TakenFrom(t, p)
    BY Taking
  <1> DEFINE r == Head(metaCQ[t][p])
  <1>2. /\ VerbsTypeOK /\ ServerTypeOK /\ HoldsWhileServing
        /\ metaCQ[t][p] \in Seq(Req) /\ metaCQ[t][p] # <<>>
    BY <1>1 DEF TypeOK, ServerTypeOK, ThreadsTypeOK, TakenFrom
  <1>3. /\ r \in Req
        /\ r.bufID \in BufsIn(metaCQ[t][p])
        /\ BufsIn(Tail(metaCQ[t][p])) \subseteq BufsIn(metaCQ[t][p])
    BY <1>2, BufsTail
  <1>4. cur' = [cur EXCEPT ![t] = r] /\ r # NoReq
    BY <1>1, <1>3, ServerAssumption DEF TakenFrom, Req
  <1> HIDE DEF r
  <1>5. VerbsTypeOK'
    BY <1>2 DEF VerbsTypeOK
  <1>6. ServerTypeOK'
    <2>1. rcnt' \in [Queues -> Nat]
      BY <1>2, ConnInRange DEF TakeRequest, CountRequest, ServerTypeOK, ThreadsTypeOK
    <2>2. skipList' \in [Threads -> SUBSET Priorities]
      BY <1>1, <1>2 DEF TakenFrom, ServerTypeOK, ThreadsTypeOK
    <2>3. cur' \in [Threads -> Req \cup {NoReq}] /\ pc' \in [Threads -> Locations]
      BY <1>2, <1>3, <1>4 DEF ServerTypeOK, ThreadsTypeOK, Locations
    <2> QED
      BY <1>1, <1>2, <2>1, <2>2, <2>3 DEF TakenFrom, ServerTypeOK, ThreadsTypeOK
  <1>7. HoldsWhileServing'
    BY <1>2, <1>4 DEF HoldsWhileServing, ServerTypeOK, ThreadsTypeOK, TakeRequest
  <1>8. Filled' = Filled /\ r.bufID \in Filled
    BY <1>3, FilledPlaces DEF Filled
  <1>9. \A u \in Threads : InHand(u)' = IF u = t THEN {r.bufID} ELSE InHand(u)
    BY <1>2, <1>4 DEF InHand, ServerTypeOK, ThreadsTypeOK
  <1>10. \A u \in Threads : \A o \in Priorities : BufsIn(metaCQ'[u][o]) \subseteq Filled
    <2> TAKE u \in Threads
    <2> TAKE o \in Priorities
    <2>1. CASE u = t /\ o = p
      BY <1>1, <1>3, <2>1, FilledPlaces DEF TakenFrom
    <2>2. CASE ~(u = t /\ o = p)
      BY <1>1, <2>2, FilledPlaces DEF TakenFrom
    <2> QED
      BY <2>1, <2>2
  <1>11. (\A x \in Places : x[1] # "rq" => Held(x) \subseteq Filled)'
    <2>1. \A u \in Threads : InHand(u)' \subseteq Filled
      BY <1>8, <1>9, FilledPlaces
    <2> QED
      BY <1>8, <1>10, <2>1, FilledPlaces, FilledPlacesNext
  <1> QED
    BY <1>5, <1>6, <1>7, <1>11 DEF TypeOK

LEMMA TypeServe ==
  ASSUME TypeOK, NEW t \in Threads, Serve(t)
  PROVE  TypeOK'
  <1>1. VerbsTypeOK
    BY DEF TypeOK
  <1>2. bufSend' \in [SendIds -> 0 .. MaxPackets]
    <2>1. PICK b : bufSend' = [bufSend EXCEPT ![b] = bufRecv[b]]
      BY DEF Serve
    <2> QED
      BY <1>1, <2>1 DEF VerbsTypeOK
  <1>3. /\ TakeRequest(t) /\ pc' = [pc EXCEPT ![t] = "postRecv"]
        /\ UNCHANGED <<rq, cq, sq, sqDone, bufRecv, sent, replies, wc, terminateRun, device>>
    BY DEF Serve, Goto
  <1>4. terminateRun' \in BOOLEAN
    BY <1>3 DEF TypeOK, ServerTypeOK, ThreadsTypeOK
  <1> QED
    BY <1>2, <1>3, <1>4, TypeTake

LEMMA TypeTerminate ==
  ASSUME TypeOK, NEW t \in Threads, Terminate(t)
  PROVE  TypeOK'
  <1>1. /\ TakeRequest(t) /\ pc' = [pc EXCEPT ![t] = "exit"] /\ terminateRun' \in BOOLEAN
        /\ UNCHANGED <<rq, cq, sq, sqDone, bufRecv, sent, replies, wc, device, bufSend>>
    BY DEF Terminate, Goto, verbsVars
  <1>2. bufSend' \in [SendIds -> 0 .. MaxPackets]
    BY <1>1 DEF TypeOK, VerbsTypeOK
  <1> QED
    BY <1>1, <1>2, TypeTake

\* What a thread that serves a request holds.
LEMMA Serving ==
  ASSUME TypeOK, NEW t \in Threads, pc[t] \in {"postRecv", "postSend"}
  PROVE  /\ cur[t] \in Req /\ cur[t].bufID \in RecvIds /\ cur[t].srcQP \in Sources
         /\ cur[t] # NoReq /\ ConnOf(t) \in Queues
  <1>1. cur[t] \in Req /\ cur[t] # NoReq
    BY DEF TypeOK, ServerTypeOK, ThreadsTypeOK, HoldsWhileServing
  <1> QED
    BY <1>1, ConnInRange DEF Req

LEMMA TypePostRecv ==
  ASSUME TypeOK, NEW t \in Threads, PostRecv(t)
  PROVE  TypeOK'
  <1>1. /\ pc[t] = "postRecv" /\ pc' = [pc EXCEPT ![t] = "postSend"]
        /\ PostRecvWR(ConnOf(t), cur[t].bufID)
        /\ UNCHANGED <<cq, sq, sqDone, bufRecv, bufSend, sent, replies>>
        /\ UNCHANGED <<wc, metaCQ, skipList, cur, rcnt, terminateRun, device>>
    BY DEF PostRecv, Goto
  <1>2. /\ VerbsTypeOK /\ ServerTypeOK /\ HoldsWhileServing
        /\ cur[t].bufID \in RecvIds /\ ConnOf(t) \in Queues
    BY <1>1, Serving DEF TypeOK
  <1>3. VerbsTypeOK' /\ Filled' = Filled
    BY <1>1, <1>2, VerbsPostRecv
  <1>4. ServerTypeOK' /\ HoldsWhileServing'
    BY <1>1, <1>2 DEF ServerTypeOK, ThreadsTypeOK, HoldsWhileServing, Locations
  <1>5. \A u \in Threads : InHand(u)' \subseteq InHand(u)
    BY <1>1, <1>2 DEF InHand, ServerTypeOK, ThreadsTypeOK
  <1>6. (\A x \in Places : x[1] # "rq" => Held(x) \subseteq Filled)'
    BY <1>1, <1>3, <1>5, FilledPlaces, FilledPlacesNext
  <1> QED
    BY <1>3, <1>4, <1>6 DEF TypeOK

LEMMA TypePostSend ==
  ASSUME TypeOK, NEW t \in Threads, PostSend(t)
  PROVE  TypeOK'
  <1>1. /\ pc[t] = "postSend" /\ pc' = [pc EXCEPT ![t] = "test"]
        /\ PostSendWR(ConnOf(t), cur[t].srcQP, cur[t].bufID - NumBufs, Signaled(t))
        /\ cur' = [cur EXCEPT ![t] = NoReq]
        /\ UNCHANGED <<rq, cq, sqDone, bufRecv, bufSend, sent, replies>>
        /\ UNCHANGED <<wc, metaCQ, skipList, rcnt, terminateRun, device>>
    BY DEF PostSend, Goto
  <1>2. /\ VerbsTypeOK /\ ServerTypeOK /\ HoldsWhileServing /\ ConnOf(t) \in Queues
        /\ cur[t].bufID \in RecvIds /\ cur[t].srcQP \in Sources
    BY <1>1, Serving DEF TypeOK
  <1>3. Signaled(t) \in BOOLEAN
    BY DEF Signaled
  <1>4. VerbsTypeOK' /\ Filled' = Filled
    BY <1>1, <1>2, <1>3, VerbsPostSend
  <1>5. ServerTypeOK' /\ HoldsWhileServing'
    BY <1>1, <1>2 DEF ServerTypeOK, ThreadsTypeOK, HoldsWhileServing, Locations
  <1>6. \A u \in Threads : InHand(u)' \subseteq InHand(u)
    BY <1>1, <1>2 DEF InHand, ServerTypeOK, ThreadsTypeOK
  <1>7. (\A x \in Places : x[1] # "rq" => Held(x) \subseteq Filled)'
    BY <1>1, <1>4, <1>6, FilledPlaces, FilledPlacesNext
  <1> QED
    BY <1>4, <1>5, <1>7 DEF TypeOK

LEMMA TypeThread ==
  ASSUME TypeOK, NEW t \in Threads, Thread(t)
  PROVE  TypeOK'
  <1>1. HoldsWhileServing /\ device \in {"open", "closed", "crashed"}
    BY DEF TypeOK, ServerTypeOK, ThreadsTypeOK
  <1>2. CASE EnterBarrier(t)
    BY <1>1, <1>2, TypeMove DEF EnterBarrier, Goto, Locations, HoldsWhileServing
  <1>3. CASE LeaveBarrier(t)
    BY <1>1, <1>3, TypeMove DEF LeaveBarrier, Goto, Locations, HoldsWhileServing
  <1>4. CASE LoopTest(t)
    BY <1>1, <1>4, TypeMove DEF LoopTest, Goto, Locations, HoldsWhileServing
  <1>5. CASE Idle(t)
    BY <1>1, <1>5, TypeMove DEF Idle, Goto, Locations, HoldsWhileServing
  <1>6. CASE Exit(t)
    BY <1>1, <1>6, TypeMove DEF Exit, Goto, Locations, HoldsWhileServing
  <1>7. CASE Crash(t)
    <2>1. /\ VerbsTypeOK' /\ HoldsWhileServing'
          /\ (\A x \in Places : x[1] # "rq" => Held(x) \subseteq Filled)'
      <3>1. UNCHANGED <<cq, wc, metaCQ>> /\ Filled' = Filled /\ \A u \in Threads : InHand(u)' = InHand(u)
        BY <1>7 DEF Crash, verbsVars, Filled, InHand
      <3>2. (\A x \in Places : x[1] # "rq" => Held(x) \subseteq Filled)'
        BY <3>1, FilledPlaces, FilledPlacesNext
      <3> QED
        BY <1>7, <3>2 DEF TypeOK, Crash, VerbsTypeOK, verbsVars, HoldsWhileServing
    <2>2. ServerTypeOK'
      BY <1>7 DEF TypeOK, Crash, ServerTypeOK, ThreadsTypeOK
    <2> QED
      BY <2>1, <2>2 DEF TypeOK
  <1> QED
    BY <1>2, <1>3, <1>4, <1>5, <1>6, <1>7, TypePoll, TypeSendCompletion, TypeRecvCompletion,
       TypeServe, TypeTerminate, TypePostRecv, TypePostSend DEF Thread

LEMMA TypeNext == TypeOK /\ [Next]_vars => TypeOK'
  <1> SUFFICES ASSUME TypeOK, [Next]_vars
               PROVE  TypeOK'
    OBVIOUS
  <1>1. CASE Device
    BY <1>1, TypeReceive, TypeDrop, TypeSend DEF Device
  <1>2. CASE \E t \in Threads : Thread(t)
    BY <1>2, TypeThread
  <1>3. CASE UNCHANGED vars
    <2>1. UNCHANGED <<cq, wc, metaCQ>> /\ Filled' = Filled /\ \A u \in Threads : InHand(u)' = InHand(u)
      BY <1>3 DEF vars, serverVars, threadVars, verbsVars, Filled, InHand
    <2>2. (\A x \in Places : x[1] # "rq" => Held(x) \subseteq Filled)'
      BY <2>1, FilledPlaces, FilledPlacesNext
    <2>3. VerbsTypeOK' /\ ServerTypeOK' /\ HoldsWhileServing'
      BY <1>3 DEF TypeOK, VerbsTypeOK, ServerTypeOK, ThreadsTypeOK, HoldsWhileServing, vars, serverVars, threadVars, verbsVars
    <2> QED
      BY <2>2, <2>3 DEF TypeOK
  <1> QED
    BY <1>1, <1>2, <1>3 DEF Next, AtRest

\* In every state of the server every variable has its type, and every completion,
\* waiting request and request in service names a buffer the device has written: the
\* priority bytes the completion loop reads are those of a packet.
THEOREM TypeCorrect == Spec => []TypeOK
  BY TypeInit, TypeNext, PTL DEF Spec

-----------------------------------------------------------------------------
(* The ready set. *)

LEMMA SkipListInit == Init => SkipListExact
  BY DEF Init, ThreadsInit, SkipListExact

\* Only filing and taking touch the lists.
LEMMA SkipListNext == TypeOK /\ SkipListExact /\ [Next]_vars => SkipListExact'
  <1> SUFFICES ASSUME TypeOK, SkipListExact, [Next]_vars
               PROVE  SkipListExact'
    OBVIOUS
  <1>1. metaCQ \in [Threads -> [Priorities -> Seq(Req)]] /\ skipList \in [Threads -> SUBSET Priorities]
    BY DEF TypeOK, ServerTypeOK, ThreadsTypeOK
  <1>2. ASSUME NEW t \in Threads, RecvCompletion(t)
        PROVE  SkipListExact'
    <2>1. PICK p \in Priorities, r \in Req : FiledAs(t, p, r)
      BY <1>2, Filing
    <2>2. Append(metaCQ[t][p], r) # <<>>
      <3>1. metaCQ[t][p] \in Seq(Req)
        BY <1>1
      <3> QED
        BY <3>1
    <2>3. /\ skipList' = [skipList EXCEPT ![t] = @ \cup {p}]
          /\ \A u \in Threads : \A o \in Priorities : metaCQ'[u][o] =
               IF u = t /\ o = p THEN Append(metaCQ[t][p], r) ELSE metaCQ[u][o]
      BY <2>1 DEF FiledAs
    <2> QED
      BY <1>1, <2>2, <2>3 DEF SkipListExact
  <1>3. ASSUME NEW t \in Threads, TakeRequest(t)
        PROVE  SkipListExact'
    <2>1. PICK p \in Priorities : TakenFrom(t, p)
      BY <1>3, Taking
    <2> QED
      BY ZenonT(60), <1>1, <2>1 DEF TakenFrom, SkipListExact
  <1>4. CASE UNCHANGED <<metaCQ, skipList>>
    BY <1>4 DEF SkipListExact
  <1>5. CASE Device
    BY <1>4, <1>5 DEF Device, serverVars, threadVars
  <1>6. ASSUME NEW t \in Threads, Thread(t)
        PROVE  SkipListExact'
    BY <1>2, <1>3, <1>4, <1>6 DEF Thread, EnterBarrier, LeaveBarrier, LoopTest, Poll,
       SendCompletion, Idle, Terminate, Serve, PostRecv, PostSend, Exit, Crash
  <1>7. CASE UNCHANGED vars
    BY <1>4, <1>7 DEF vars, serverVars, threadVars
  <1> QED
    BY <1>5, <1>6, <1>7 DEF Next, AtRest

\* The skipList of every thread names exactly the priorities with waiting requests, in
\* every state: assert(metaCQ[priority].size() > 0) in the strict-priority scheduler
\* cannot fail, and no filed request is hidden from the scheduler.
THEOREM SkipListCorrect == Spec => []SkipListExact
  <1>1. Init => TypeOK /\ SkipListExact
    BY TypeInit, SkipListInit
  <1>2. TypeOK /\ SkipListExact /\ [Next]_vars => (TypeOK /\ SkipListExact)'
    BY TypeNext, SkipListNext
  <1> QED
    BY <1>1, <1>2, PTL DEF Spec

-----------------------------------------------------------------------------
(* Conservation.  Every step that touches a buffer moves some buffers from one *)
(* place to another of the same connection.                                    *)

\* The buffers in S leave place x for place y, and no other place changes.
Moved(x, y, S) ==
  /\ x # y
  /\ S \subseteq Held(x)
  /\ Held(x)' = Held(x) \ S
  /\ Held(y)' = Held(y) \cup S
  /\ \A z \in Places : z # x /\ z # y => Held(z)' = Held(z)

LEMMA MoveConserves ==
  ASSUME NEW x \in Places, NEW y \in Places, NEW S, Moved(x, y, S),
         ConnAt(x) = ConnAt(y), Apart, Complete, BuffersStayHome
  PROVE  Apart' /\ Complete' /\ BuffersStayHome'
  <1>1. Apart'
    <2> SUFFICES ASSUME NEW a \in Places, NEW b \in Places, a # b
                 PROVE  Held(a)' \cap Held(b)' = {}
      BY DEF Apart
    <2> QED
      BY DEF Moved, Apart
  <1>2. Complete'
    <2> SUFFICES ASSUME NEW b \in RecvIds
                 PROVE  \E z \in Places : b \in Held(z)'
      BY DEF Complete
    <2>1. PICK z \in Places : b \in Held(z)
      BY DEF Complete
    <2> QED
      BY <2>1 DEF Moved
  <1>3. BuffersStayHome'
    <2> SUFFICES ASSUME NEW z \in Places
                 PROVE  Held(z)' \subseteq OwnBuffers(ConnAt(z))
      BY DEF BuffersStayHome
    <2> QED
      BY DEF Moved, BuffersStayHome
  <1> QED
    BY <1>1, <1>2, <1>3

LEMMA StayConserves ==
  ASSUME \A z \in Places : Held(z)' = Held(z), Apart, Complete, BuffersStayHome
  PROVE  Apart' /\ Complete' /\ BuffersStayHome'
  BY DEF Apart, Complete, BuffersStayHome

\* The invariant that is inductive together with the types.
Conserving == BuffersConserved /\ BuffersStayHome

LEMMA ConserveReceive ==
  ASSUME TypeOK, Conserving, NEW q \in Queues, NEW pkt \in Packet,
         NicReceive(q, pkt), UNCHANGED serverVars
  PROVE  Conserving'
  <1> DEFINE h == Head(rq[q])
             c == [wr_id |-> h, src_qp |-> pkt.src]
             x == <<"rq", q, 0>>
             y == <<"cq", q, 0>>
  <1>1. /\ rq \in [Queues -> Seq(RecvIds)] /\ cq \in [Queues -> Seq(Completion)]
        /\ rq[q] \in Seq(RecvIds) /\ cq[q] \in Seq(Completion) /\ rq[q] # <<>>
        /\ NoRepeats /\ Apart /\ Complete /\ BuffersStayHome
    BY DEF TypeOK, VerbsTypeOK, Conserving, BuffersConserved, NicReceive
  <1>2. IsInjective(rq[q]) /\ DistinctRecvs(cq[q])
    BY <1>1 DEF NoRepeats
  <1>3. /\ h \in Range(rq[q]) /\ Range(Tail(rq[q])) = Range(rq[q]) \ {h}
        /\ IsInjective(Tail(rq[q])) /\ h \in RecvIds
    BY <1>1, <1>2, PostedTail, TailProperties
  <1>4. c \in Completion /\ IsRecv(c) /\ c.wr_id = h
    BY <1>3, BufCount DEF Completion, Packet, RecvIds, IsRecv
  <1>5. x \in Places /\ y \in Places /\ x # y /\ ConnAt(x) = ConnAt(y)
    BY PlaceMembers DEF ConnAt
  <1>6. h \notin RecvsIn(cq[q])
    BY <1>1, <1>3, <1>5, HeldAt DEF Apart
  <1>7. /\ rq' = [rq EXCEPT ![q] = Tail(rq[q])]
        /\ cq' = [cq EXCEPT ![q] = Append(cq[q], c)]
        /\ UNCHANGED <<pc, wc, metaCQ, cur>>
        /\ \A t \in Threads : InHand(t)' = InHand(t)
    BY DEF NicReceive, serverVars, threadVars, InHand
  <1> HIDE DEF h, c
  <1>8. /\ RecvsIn(Append(cq[q], c)) = RecvsIn(cq[q]) \cup {h}
        /\ DistinctRecvs(Append(cq[q], c))
    BY <1>1, <1>2, <1>4, <1>6, RecvsAppend
  <1>9. NoRepeats'
    BY <1>1, <1>3, <1>7, <1>8 DEF NoRepeats, DistinctRecvs, IsRecv
  <1>10. Moved(x, y, {h})
    <2>1. /\ {h} \subseteq Held(x) /\ Held(x)' = Held(x) \ {h}
          /\ Held(y)' = Held(y) \cup {h}
      BY <1>1, <1>3, <1>7, <1>8, HeldAt
    <2>2. ASSUME NEW z \in Places, z # x, z # y
          PROVE  Held(z)' = Held(z)
      BY <1>1, <1>7, <2>2, HeldAt, PlaceKinds
    <2> QED
      BY <1>5, <2>1, <2>2 DEF Moved
  <1> QED
    BY <1>1, <1>5, <1>9, <1>10, MoveConserves DEF Conserving, BuffersConserved

LEMMA ConserveSend ==
  ASSUME TypeOK, Conserving, NEW q \in Queues, NicSend(q), UNCHANGED serverVars
  PROVE  Conserving'
  <1> DEFINE wr == Head(sq[q])
             c == [wr_id |-> wr.wr_id, src_qp |-> wr.qpn]
  <1>1. /\ cq \in [Queues -> Seq(Completion)] /\ cq[q] \in Seq(Completion)
        /\ sq[q] \in Seq(SendRequest) /\ sq[q] # <<>>
        /\ NoRepeats /\ Apart /\ Complete /\ BuffersStayHome
    BY DEF TypeOK, VerbsTypeOK, Conserving, BuffersConserved, NicSend
  <1>2. wr \in SendRequest
    BY <1>1, TailProperties
  <1>3. wr.wr_id \in SendIds /\ wr.qpn \in Sources
    BY <1>2 DEF SendRequest
  <1>4. c \in Completion /\ ~IsRecv(c) /\ c.wr_id \notin RecvIds
    BY <1>3, BufCount DEF Completion, SendIds, RecvIds, IsRecv
  <1>5. /\ cq' = (IF wr.signal THEN [cq EXCEPT ![q] = Append(cq[q], c)] ELSE cq)
        /\ UNCHANGED <<rq, pc, wc, metaCQ, cur>>
        /\ \A t \in Threads : InHand(t)' = InHand(t)
    BY DEF NicSend, serverVars, threadVars, InHand
  <1> HIDE DEF wr, c
  <1>6. /\ RecvsIn(Append(cq[q], c)) = RecvsIn(cq[q])
        /\ DistinctRecvs(Append(cq[q], c))
    <2>1. DistinctRecvs(cq[q]) /\ c.wr_id \notin RecvsIn(cq[q])
      BY <1>1, <1>4, RecvsType DEF NoRepeats
    <2> QED
      BY <1>1, <1>4, <2>1, RecvsAppend
  <1>7. NoRepeats'
    BY <1>1, <1>5, <1>6 DEF NoRepeats, DistinctRecvs, IsRecv
  <1>8. \A r \in Queues : RecvsIn(cq'[r]) = RecvsIn(cq[r])
    BY <1>1, <1>5, <1>6
  <1>9. ASSUME NEW z \in Places PROVE Held(z)' = Held(z)
    BY <1>5, <1>8, HeldAt, PlaceKinds
  <1> QED
    BY <1>1, <1>7, <1>9, StayConserves DEF Conserving, BuffersConserved

\* Steps that change no queue of receives.
LEMMA ConserveStay ==
  ASSUME TypeOK, Conserving, UNCHANGED <<rq, cq, wc, metaCQ>>,
         \A t \in Threads : InHand(t)' = InHand(t)
  PROVE  Conserving'
  <1>1. NoRepeats'
    BY DEF Conserving, BuffersConserved, NoRepeats, DistinctRecvs, IsRecv
  <1>2. ASSUME NEW z \in Places PROVE Held(z)' = Held(z)
    BY HeldAt, PlaceKinds
  <1> QED
    BY <1>1, <1>2, StayConserves DEF Conserving, BuffersConserved

LEMMA ConservePoll ==
  ASSUME TypeOK, Conserving, NEW t \in Threads, Poll(t)
  PROVE  Conserving'
  <1> DEFINE q == ConnOf(t)
             s == cq[q]
             n == PollCount(q)
             a == SubSeq(s, 1, n)
             b == SubSeq(s, n + 1, Len(s))
             x == <<"cq", q, 0>>
             y == <<"wc", t, 0>>
  <1>1. /\ q \in Queues /\ s \in Seq(Completion)
        /\ cq \in [Queues -> Seq(Completion)] /\ wc \in [Threads -> Seq(Completion)]
        /\ pc \in [Threads -> Locations] /\ wc[t] = <<>>
        /\ NoRepeats /\ Apart /\ Complete /\ BuffersStayHome
    BY ConnInRange DEF TypeOK, VerbsTypeOK, ServerTypeOK, ThreadsTypeOK, HoldsWhileServing, Conserving,
       BuffersConserved, Poll
  <1>2. n \in 0 .. Len(s)
    BY <1>1, BufCount DEF PollCount
  <1>3. x \in Places /\ y \in Places /\ x # y /\ ConnAt(x) = ConnAt(y)
    BY <1>1, PlaceMembers DEF ConnAt
  <1>4. /\ cq' = [cq EXCEPT ![q] = b] /\ wc' = [wc EXCEPT ![t] = a]
        /\ pc[t] = "poll" /\ pc' = [pc EXCEPT ![t] = "drain"]
        /\ UNCHANGED <<rq, metaCQ, cur>>
    BY DEF Poll, PollCq, Polled, Goto
  <1>5. \A u \in Threads : InHand(u)' = InHand(u)
    BY <1>1, <1>4 DEF InHand
  <1>6. /\ RecvsIn(a) \subseteq RecvsIn(s) /\ RecvsIn(b) = RecvsIn(s) \ RecvsIn(a)
        /\ DistinctRecvs(a) /\ DistinctRecvs(b)
    <2>1. DistinctRecvs(s)
      BY <1>1 DEF NoRepeats
    <2> HIDE DEF s, n
    <2> QED
      BY <1>1, <1>2, <2>1, RecvsSplit
  <1>7. RecvsIn(wc[t]) = {}
    BY <1>1 DEF RecvsIn
  <1> HIDE DEF q, a, b, s, n
  <1>8. NoRepeats'
    BY <1>1, <1>4, <1>6 DEF NoRepeats, DistinctRecvs, IsRecv
  <1>9. Moved(x, y, RecvsIn(a))
    <2>1. /\ RecvsIn(a) \subseteq Held(x) /\ Held(x)' = Held(x) \ RecvsIn(a)
          /\ Held(y)' = Held(y) \cup RecvsIn(a)
      BY <1>1, <1>4, <1>6, <1>7, HeldAt DEF s, q
    <2>2. ASSUME NEW z \in Places, z # x, z # y
          PROVE  Held(z)' = Held(z)
      BY <1>1, <1>4, <1>5, <2>2, HeldAt, PlaceKinds
    <2> QED
      BY <1>3, <2>1, <2>2 DEF Moved
  <1> QED
    BY <1>1, <1>3, <1>8, <1>9, MoveConserves DEF Conserving, BuffersConserved

LEMMA ConserveSendCompletion ==
  ASSUME TypeOK, Conserving, NEW t \in Threads, SendCompletion(t)
  PROVE  Conserving'
  <1>1. /\ wc[t] \in Seq(Completion) /\ wc[t] # <<>> /\ ~IsRecv(Head(wc[t]))
        /\ wc \in [Threads -> Seq(Completion)]
        /\ wc' = [wc EXCEPT ![t] = Tail(wc[t])]
        /\ NoRepeats /\ Apart /\ Complete /\ BuffersStayHome
        /\ UNCHANGED <<rq, cq, pc, metaCQ, cur>>
    BY DEF TypeOK, ServerTypeOK, ThreadsTypeOK, Conserving, BuffersConserved, SendCompletion, verbsVars
  <1>2. RecvsIn(Tail(wc[t])) = RecvsIn(wc[t]) /\ DistinctRecvs(Tail(wc[t]))
    BY <1>1, RecvsTail DEF NoRepeats
  <1>3. \A u \in Threads : InHand(u)' = InHand(u)
    BY <1>1 DEF InHand
  <1>4. NoRepeats'
    BY <1>1, <1>2 DEF NoRepeats, DistinctRecvs, IsRecv
  <1>5. ASSUME NEW z \in Places PROVE Held(z)' = Held(z)
    BY <1>1, <1>2, <1>3, HeldAt, PlaceKinds
  <1> QED
    BY <1>1, <1>4, <1>5, StayConserves DEF Conserving, BuffersConserved

LEMMA ConserveRecvCompletion ==
  ASSUME TypeOK, Conserving, NEW t \in Threads, RecvCompletion(t)
  PROVE  Conserving'
  <1>1. PICK p \in Priorities, r \in Req : FiledAs(t, p, r)
    BY Filing
  <1> DEFINE x == <<"wc", t, 0>>
             y == <<"meta", t, p>>
             m == metaCQ[t][p]
  <1>2. /\ wc[t] \in Seq(Completion) /\ wc[t] # <<>> /\ IsRecv(Head(wc[t]))
        /\ r.bufID = Head(wc[t]).wr_id
        /\ wc \in [Threads -> Seq(Completion)] /\ m \in Seq(Req)
        /\ NoRepeats /\ Apart /\ Complete /\ BuffersStayHome
    BY <1>1 DEF FiledAs, TypeOK, ServerTypeOK, ThreadsTypeOK, Conserving, BuffersConserved
  <1>3. /\ wc' = [wc EXCEPT ![t] = Tail(wc[t])]
        /\ \A u \in Threads : \A o \in Priorities : metaCQ'[u][o] =
             IF u = t /\ o = p THEN Append(m, r) ELSE metaCQ[u][o]
        /\ UNCHANGED <<rq, cq, pc, cur>>
        /\ \A u \in Threads : InHand(u)' = InHand(u)
    BY <1>1 DEF FiledAs, verbsVars, InHand
  <1>4. x \in Places /\ y \in Places /\ x # y /\ ConnAt(x) = ConnAt(y)
    BY PlaceMembers DEF ConnAt
  <1>5. DistinctRecvs(wc[t]) /\ DistinctBufs(m)
    BY <1>2 DEF NoRepeats
  <1>6. /\ r.bufID \in RecvsIn(wc[t]) /\ DistinctRecvs(Tail(wc[t]))
        /\ RecvsIn(Tail(wc[t])) = RecvsIn(wc[t]) \ {r.bufID}
    BY <1>2, <1>5, RecvsTail
  <1>7. r.bufID \notin BufsIn(m)
    BY <1>2, <1>4, <1>6, HeldAt DEF Apart
  <1> HIDE DEF m
  <1>8. BufsIn(Append(m, r)) = BufsIn(m) \cup {r.bufID} /\ DistinctBufs(Append(m, r))
    BY <1>2, <1>5, <1>7, BufsAppend
  <1>9. NoRepeats'
    <2>1. \A u \in Threads : DistinctRecvs(wc'[u])
      BY <1>2, <1>3, <1>6 DEF NoRepeats
    <2>2. \A u \in Threads : \A o \in Priorities : DistinctBufs(metaCQ'[u][o])
      <3> TAKE u \in Threads
      <3> TAKE o \in Priorities
      <3>1. CASE u = t /\ o = p
        BY <1>3, <1>8, <3>1
      <3>2. CASE ~(u = t /\ o = p)
        BY <1>2, <1>3, <3>2 DEF NoRepeats
      <3> QED
        BY <3>1, <3>2
    <2> QED
      BY <1>2, <1>3, <2>1, <2>2 DEF NoRepeats, DistinctRecvs, IsRecv, DistinctBufs
  <1>10. Moved(x, y, {r.bufID})
    <2>1. /\ {r.bufID} \subseteq Held(x) /\ Held(x)' = Held(x) \ {r.bufID}
          /\ Held(y)' = Held(y) \cup {r.bufID}
      <3>1. wc'[t] = Tail(wc[t]) /\ metaCQ'[t][p] = Append(m, r)
        BY <1>2, <1>3
      <3>2. Held(x) = RecvsIn(wc[t]) /\ Held(x)' = RecvsIn(wc'[t])
        BY HeldAt
      <3>3. Held(y) = BufsIn(m) /\ Held(y)' = BufsIn(metaCQ'[t][p])
        BY HeldAt DEF m
      <3> QED
        BY <1>6, <1>8, <3>1, <3>2, <3>3
    <2>2. ASSUME NEW z \in Places, z # x, z # y
          PROVE  Held(z)' = Held(z)
      BY <1>2, <1>3, <2>2, HeldAt, PlaceKinds
    <2> QED
      BY <1>4, <2>1, <2>2 DEF Moved
  <1> QED
    BY <1>2, <1>4, <1>9, <1>10, MoveConserves DEF Conserving, BuffersConserved

LEMMA ConserveTake ==
  ASSUME TypeOK, Conserving, NEW t \in Threads, TakeRequest(t),
         NEW l \in {"exit", "postRecv"}, pc' = [pc EXCEPT ![t] = l],
         UNCHANGED <<rq, cq, wc>>
  PROVE  Conserving'
  <1>1. PICK p \in Priorities : TakenFrom(t, p)
    BY Taking
  <1> DEFINE x == <<"meta", t, p>>
             y == <<"cur", t, 0>>
             m == metaCQ[t][p]
             r == Head(m)
  <1>2. /\ pc \in [Threads -> Locations] /\ cur \in [Threads -> Req \cup {NoReq}]
        /\ m \in Seq(Req) /\ m # <<>>
        /\ cur[t] = NoReq
        /\ NoRepeats /\ Apart /\ Complete /\ BuffersStayHome
    <2>1. pc[t] = "drain"
      BY DEF TakeRequest
    <2>2. /\ pc \in [Threads -> Locations] /\ cur \in [Threads -> Req \cup {NoReq}]
          /\ metaCQ \in [Threads -> [Priorities -> Seq(Req)]] /\ HoldsWhileServing
      BY DEF TypeOK, ServerTypeOK, ThreadsTypeOK
    <2>3. m # <<>>
      BY <1>1 DEF TakenFrom
    <2>4. cur[t] = NoReq
      BY <2>1, <2>2 DEF HoldsWhileServing
    <2> QED
      BY <2>2, <2>3, <2>4 DEF Conserving, BuffersConserved
  <1>3. DistinctBufs(m)
    BY <1>2 DEF NoRepeats
  <1>4. /\ r \in Req /\ r.bufID \in BufsIn(m) /\ DistinctBufs(Tail(m))
        /\ BufsIn(Tail(m)) = BufsIn(m) \ {r.bufID}
    BY <1>2, <1>3, BufsTail
  <1>5. /\ cur' = [cur EXCEPT ![t] = r] /\ r # NoReq
        /\ \A u \in Threads : \A o \in Priorities : metaCQ'[u][o] =
             IF u = t /\ o = p THEN Tail(m) ELSE metaCQ[u][o]
    BY <1>1, <1>4, ServerAssumption DEF TakenFrom, Req
  <1>6. x \in Places /\ y \in Places /\ x # y /\ ConnAt(x) = ConnAt(y)
    BY PlaceMembers DEF ConnAt
  <1> HIDE DEF m, r
  <1>7. /\ InHand(t) = {} /\ InHand(t)' = {r.bufID}
        /\ \A u \in Threads : u # t => InHand(u)' = InHand(u)
    BY <1>2, <1>5 DEF InHand
  <1>8. NoRepeats'
    <2>1. \A u \in Threads : \A o \in Priorities : DistinctBufs(metaCQ'[u][o])
      <3> TAKE u \in Threads
      <3> TAKE o \in Priorities
      <3>1. CASE u = t /\ o = p
        BY <1>4, <1>5, <3>1
      <3>2. CASE ~(u = t /\ o = p)
        BY <1>2, <1>5, <3>2 DEF NoRepeats
      <3> QED
        BY <3>1, <3>2
    <2> QED
      BY <1>2, <2>1 DEF NoRepeats, DistinctRecvs, IsRecv, DistinctBufs
  <1>9. Moved(x, y, {r.bufID})
    <2>1. /\ {r.bufID} \subseteq Held(x) /\ Held(x)' = Held(x) \ {r.bufID}
          /\ Held(y)' = Held(y) \cup {r.bufID}
      <3>1. metaCQ'[t][p] = Tail(m)
        BY <1>5
      <3>2. Held(x) = BufsIn(m) /\ Held(x)' = BufsIn(metaCQ'[t][p])
        BY HeldAt DEF m
      <3>3. Held(y) = InHand(t) /\ Held(y)' = InHand(t)'
        BY HeldAt
      <3> QED
        BY <1>4, <1>7, <3>1, <3>2, <3>3
    <2>2. ASSUME NEW z \in Places, z # x, z # y
          PROVE  Held(z)' = Held(z)
      BY <1>5, <1>7, <2>2, HeldAt, PlaceKinds
    <2> QED
      BY <1>6, <2>1, <2>2 DEF Moved
  <1> QED
    BY <1>2, <1>6, <1>8, <1>9, MoveConserves DEF Conserving, BuffersConserved

LEMMA ConservePostRecv ==
  ASSUME TypeOK, Conserving, NEW t \in Threads, PostRecv(t)
  PROVE  Conserving'
  <1> DEFINE q == ConnOf(t)
             b == cur[t].bufID
             x == <<"cur", t, 0>>
             y == <<"rq", q, 0>>
  <1>1. /\ pc[t] = "postRecv" /\ pc' = [pc EXCEPT ![t] = "postSend"]
        /\ rq' = [rq EXCEPT ![q] = Append(rq[q], b)]
        /\ UNCHANGED <<cq, wc, metaCQ, cur>>
    BY DEF PostRecv, Goto, PostRecvWR
  <1>2. /\ pc \in [Threads -> Locations] /\ rq \in [Queues -> Seq(RecvIds)]
        /\ NoRepeats /\ Apart /\ Complete /\ BuffersStayHome
        /\ b \in RecvIds /\ q \in Queues /\ cur[t] # NoReq
    BY <1>1, Serving DEF TypeOK, ServerTypeOK, ThreadsTypeOK, VerbsTypeOK, Conserving, BuffersConserved
  <1>3. /\ InHand(t) = {b} /\ InHand(t)' = {}
        /\ \A u \in Threads : u # t => InHand(u)' = InHand(u)
    BY <1>1, <1>2 DEF InHand
  <1>4. x \in Places /\ y \in Places /\ x # y /\ ConnAt(x) = ConnAt(y)
    BY <1>2, PlaceMembers DEF ConnAt
  <1>5. b \notin Range(rq[q]) /\ IsInjective(rq[q]) /\ rq[q] \in Seq(RecvIds)
    BY <1>2, <1>3, <1>4, HeldAt DEF Apart, NoRepeats
  <1> HIDE DEF q, b
  <1>6. Range(Append(rq[q], b)) = Range(rq[q]) \cup {b} /\ IsInjective(Append(rq[q], b))
    BY <1>2, <1>5, PostedAppend
  <1>7. NoRepeats'
    BY <1>1, <1>2, <1>6 DEF NoRepeats, DistinctRecvs, IsRecv
  <1>8. Moved(x, y, {b})
    <2>1. /\ {b} \subseteq Held(x) /\ Held(x)' = Held(x) \ {b}
          /\ Held(y)' = Held(y) \cup {b}
      BY <1>1, <1>2, <1>3, <1>6, HeldAt DEF q
    <2>2. ASSUME NEW z \in Places, z # x, z # y
          PROVE  Held(z)' = Held(z)
      BY <1>1, <1>2, <1>3, <2>2, HeldAt, PlaceKinds
    <2> QED
      BY <1>4, <2>1, <2>2 DEF Moved
  <1> QED
    BY <1>2, <1>4, <1>7, <1>8, MoveConserves DEF Conserving, BuffersConserved

LEMMA ConserveThread ==
  ASSUME TypeOK, Conserving, NEW t \in Threads, Thread(t)
  PROVE  Conserving'
  <1>1. pc \in [Threads -> Locations] /\ cur \in [Threads -> Req \cup {NoReq}]
    BY DEF TypeOK, ServerTypeOK, ThreadsTypeOK
  <1>2. CASE EnterBarrier(t) \/ LeaveBarrier(t) \/ LoopTest(t) \/ Idle(t) \/ Exit(t)
    <2>1. /\ UNCHANGED <<rq, cq, wc, metaCQ, cur>>
          /\ pc[t] # "postSend"
          /\ \E l \in Locations \ {"postSend"} : pc' = [pc EXCEPT ![t] = l]
      BY <1>2 DEF EnterBarrier, LeaveBarrier, LoopTest, Idle, Exit, Goto, verbsVars, Locations
    <2>2. \A u \in Threads : InHand(u)' = InHand(u)
      BY <1>1, <2>1 DEF InHand
    <2> QED
      BY <2>1, <2>2, ConserveStay
  <1>3. CASE Crash(t)
    BY <1>3, ConserveStay DEF Crash, verbsVars, InHand
  <1>4. CASE PostSend(t)
    <2>1. /\ UNCHANGED <<rq, cq, wc, metaCQ>>
          /\ pc[t] = "postSend" /\ cur' = [cur EXCEPT ![t] = NoReq]
          /\ pc' = [pc EXCEPT ![t] = "test"]
      BY <1>4 DEF PostSend, Goto
    <2>2. \A u \in Threads : InHand(u)' = InHand(u)
      BY <1>1, <2>1 DEF InHand
    <2> QED
      BY <2>1, <2>2, ConserveStay
  <1>5. CASE Terminate(t)
    BY <1>5, ConserveTake DEF Terminate, Goto, verbsVars
  <1>6. CASE Serve(t)
    BY <1>6, ConserveTake DEF Serve, Goto
  <1> QED
    BY <1>2, <1>3, <1>4, <1>5, <1>6, ConservePoll, ConserveSendCompletion,
       ConserveRecvCompletion, ConservePostRecv DEF Thread

LEMMA ConserveNext == TypeOK /\ Conserving /\ [Next]_vars => Conserving'
  <1> SUFFICES ASSUME TypeOK, Conserving, [Next]_vars
               PROVE  Conserving'
    OBVIOUS
  <1>1. ASSUME NEW q \in Queues, NEW pkt \in Packet, NicDrop(q, pkt), UNCHANGED serverVars
        PROVE  Conserving'
    BY <1>1, ConserveStay DEF NicDrop, serverVars, threadVars, InHand
  <1>2. CASE Device
    BY <1>1, <1>2, ConserveReceive, ConserveSend DEF Device
  <1>3. CASE \E t \in Threads : Thread(t)
    BY <1>3, ConserveThread
  <1>4. CASE UNCHANGED vars
    BY <1>4, ConserveStay DEF vars, serverVars, threadVars, verbsVars, InHand
  <1> QED
    BY <1>2, <1>3, <1>4 DEF Next, AtRest

LEMMA ConserveInit == Init => Conserving
  <1> SUFFICES ASSUME Init
               PROVE  Conserving
    OBVIOUS
  <1>1. /\ \A q \in Queues : rq[q] = InitialRecvs(q) /\ cq[q] = <<>>
        /\ \A t \in Threads : wc[t] = <<>> /\ \A p \in Priorities : metaCQ[t][p] = <<>>
        /\ \A t \in Threads : InHand(t) = {}
    BY DEF Init, ThreadsInit, VerbsInit, InHand
  <1>2. RecvsIn(<<>>) = {} /\ BufsIn(<<>>) = {} /\ DistinctRecvs(<<>>) /\ DistinctBufs(<<>>)
    BY DEF RecvsIn, BufsIn, DistinctRecvs, DistinctBufs
  <1>3. \A q \in Queues : Held(<<"rq", q, 0>>) = OwnBuffers(q)
    BY <1>1, HeldAt, InitialSplit
  <1>4. ASSUME NEW x \in Places
        PROVE  Held(x) = {} \/ \E q \in Queues : x = <<"rq", q, 0>>
    BY <1>1, <1>2, HeldAt, PlaceKinds
  <1>5. NoRepeats
    BY <1>1, <1>2, InitialSplit DEF NoRepeats
  <1>6. Apart
    <2> SUFFICES ASSUME NEW x \in Places, NEW y \in Places, x # y
                 PROVE  Held(x) \cap Held(y) = {}
      BY DEF Apart
    <2>1. CASE Held(x) = {} \/ Held(y) = {}
      BY <2>1
    <2>2. CASE Held(x) # {} /\ Held(y) # {}
      BY <1>3, <1>4, <2>2, InitialSplit
    <2> QED
      BY <2>1, <2>2
  <1>7. Complete
    <2> SUFFICES ASSUME NEW b \in RecvIds
                 PROVE  \E x \in Places : b \in Held(x)
      BY DEF Complete
    <2>1. PICK q \in Queues : b \in OwnBuffers(q)
      BY InitialSplit
    <2> QED
      BY <1>3, <2>1, PlaceMembers
  <1>8. BuffersStayHome
    <2> SUFFICES ASSUME NEW x \in Places
                 PROVE  Held(x) \subseteq OwnBuffers(ConnAt(x))
      BY DEF BuffersStayHome
    <2>1. CASE Held(x) = {}
      BY <2>1
    <2>2. ASSUME NEW q \in Queues, x = <<"rq", q, 0>>
          PROVE  Held(x) \subseteq OwnBuffers(ConnAt(x))
      BY <1>3, <2>2 DEF ConnAt
    <2> QED
      BY <1>4, <2>1, <2>2
  <1> QED
    BY <1>5, <1>6, <1>7, <1>8 DEF Conserving, BuffersConserved

LEMMA ConservingAlways == Spec => []Conserving
  <1>1. Init => TypeOK /\ Conserving
    BY TypeInit, ConserveInit
  <1>2. TypeOK /\ Conserving /\ [Next]_vars => (TypeOK /\ Conserving)'
    BY TypeNext, ConserveNext
  <1> QED
    BY <1>1, <1>2, PTL DEF Spec

\* Receive buffers are conserved, however many threads and connections there are and
\* whether or not threads share one: every buffer is posted, completed, polled, filed
\* or in service, in exactly one place and once.
THEOREM Conservation == Spec => []BuffersConserved
  <1>1. Conserving => BuffersConserved
    BY DEF Conserving
  <1> QED
    BY <1>1, ConservingAlways, PTL

\* A receive buffer always belongs to the connection whose constructor posted it, which
\* is what the disabled assertion on (bufID-num_bufs)/bufsPerQP would have checked.
THEOREM StayHome == Spec => []BuffersStayHome
  <1>1. Conserving => BuffersStayHome
    BY DEF Conserving
  <1> QED
    BY <1>1, ConservingAlways, PTL

-----------------------------------------------------------------------------
(* Priority and order. *)

\* Only the device writes buf_recv.
LEMMA Writes ==
  ASSUME [Next]_vars
  PROVE  Written
  <1>1. CASE Device
    BY <1>1 DEF Device, Written, NicSend
  <1>2. ASSUME NEW t \in Threads, Thread(t)
        PROVE  UNCHANGED <<bufRecv, sent>>
    BY <1>2 DEF Thread, EnterBarrier, LeaveBarrier, LoopTest, Poll, SendCompletion,
       RecvCompletion, Idle, Terminate, Serve, PostRecv, PostSend, Exit, Crash, verbsVars
  <1>3. CASE UNCHANGED vars
    BY <1>3 DEF vars, verbsVars, Written
  <1> QED
    BY <1>1, <1>2, <1>3 DEF Next, AtRest, Written

\* A buffer that is in another place is not posted.
LEMMA NotPosted ==
  ASSUME TypeOK, Conserving, NEW x \in Places, x[1] # "rq", NEW b \in Held(x)
  PROVE  b \in Filled /\ b \in RecvIds /\ b \notin PostedBufs
  <1>1. b \in Filled
    BY DEF TypeOK
  <1>2. ASSUME NEW q \in Queues, b \in Range(rq[q])
        PROVE  FALSE
    <2> DEFINE y == <<"rq", q, 0>>
    <2>1. y \in Places /\ y[1] = "rq" /\ Held(y) = Range(rq[q])
      BY PlaceMembers, HeldAt
    <2> QED
      BY <1>2, <2>1 DEF Conserving, BuffersConserved, Apart
  <1> QED
    BY <1>1, <1>2 DEF PostedBufs, Filled

\* A request whose buffer is in place does not change its packet.
LEMMA SteadyPackets ==
  ASSUME TypeOK, Conserving, [Next]_vars, NEW x \in Places, x[1] # "rq", NEW b \in Held(x)
  PROVE  /\ b \in Filled
         /\ bufRecv'[b - NumBufs] = bufRecv[b - NumBufs]
         /\ sent'[bufRecv'[b - NumBufs]] = PacketIn(b)
  BY NotPosted, Writes, WrittenStays DEF TypeOK

\* Only three steps change what waits: filing, and serving or ending.
LEMMA ListSteps ==
  ASSUME [Next]_vars
  PROVE  \/ UNCHANGED metaCQ
         \/ \E t \in Threads : RecvCompletion(t)
         \/ \E t \in Threads : TakeRequest(t) /\ UNCHANGED <<bufRecv, sent>>
  BY DEF Next, Device, Thread, AtRest, EnterBarrier, LeaveBarrier, LoopTest, Poll,
     SendCompletion, Idle, Terminate, Serve, PostRecv, PostSend, Exit, Crash, vars,
     serverVars, threadVars, verbsVars

LEMMA FiledInit == Init => FiledUnderPriority
  BY DEF Init, FiledUnderPriority

LEMMA FiledNext ==
  ASSUME TypeOK, Conserving, FiledUnderPriority, [Next]_vars
  PROVE  FiledUnderPriority'
  <1> SUFFICES ASSUME NEW t \in Threads, NEW p \in Priorities, NEW i \in DOMAIN metaCQ'[t][p]
               PROVE  sent'[bufRecv'[metaCQ'[t][p][i].bufID - NumBufs]].prio = p
    BY DEF FiledUnderPriority, PacketIn
  <1>1. metaCQ[t][p] \in Seq(Req)
    BY DEF TypeOK, ServerTypeOK
  <1>2. ASSUME NEW j \in DOMAIN metaCQ[t][p], metaCQ'[t][p][i] = metaCQ[t][p][j]
        PROVE  sent'[bufRecv'[metaCQ'[t][p][i].bufID - NumBufs]].prio = p
    <2> DEFINE b == metaCQ[t][p][j].bufID
    <2>1. b \in Held(<<"meta", t, p>>) /\ <<"meta", t, p>> \in Places
      BY HeldAt, PlaceMembers DEF BufsIn
    <2> HIDE DEF b
    <2>2. sent'[bufRecv'[b - NumBufs]] = PacketIn(b)
      BY <2>1, SteadyPackets
    <2> QED
      BY <1>2, <2>2 DEF FiledUnderPriority, b
  <1>3. CASE UNCHANGED metaCQ
    BY <1>2, <1>3
  <1>4. ASSUME NEW u \in Threads, RecvCompletion(u)
        PROVE  sent'[bufRecv'[metaCQ'[t][p][i].bufID - NumBufs]].prio = p
    <2>1. PICK o \in Priorities, r \in Req : FiledAs(u, o, r)
      BY <1>4, Filing
    <2>2. CASE u = t /\ o = p
      <3>1. metaCQ'[t][p] = Append(metaCQ[t][p], r)
        BY <2>1, <2>2 DEF FiledAs
      <3>2. CASE i \in DOMAIN metaCQ[t][p]
        BY <1>1, <1>2, <3>1, <3>2, AppendProperties
      <3>3. CASE i = Len(metaCQ[t][p]) + 1
        <4>1. metaCQ'[t][p][i] = r
          BY <1>1, <3>1, <3>3, AppendProperties
        <4>2. sent'[bufRecv'[r.bufID - NumBufs]].prio = p
          BY <2>1, <2>2 DEF FiledAs, PacketIn, verbsVars
        <4> QED
          BY <4>1, <4>2
      <3> QED
        BY <1>1, <3>1, <3>2, <3>3, AppendProperties
    <2>3. CASE ~(u = t /\ o = p)
      BY <1>2, <2>1, <2>3 DEF FiledAs
    <2> QED
      BY <2>2, <2>3
  <1>5. ASSUME NEW u \in Threads, TakeRequest(u)
        PROVE  sent'[bufRecv'[metaCQ'[t][p][i].bufID - NumBufs]].prio = p
    <2>1. PICK o \in Priorities : TakenFrom(u, o)
      BY <1>5, Taking
    <2>2. CASE u = t /\ o = p
      <3>1. metaCQ'[t][p] = Tail(metaCQ[t][p]) /\ metaCQ[t][p] # <<>>
        BY <2>1, <2>2 DEF TakenFrom
      <3> QED
        BY <1>1, <1>2, <3>1, TailProperties
    <2>3. CASE ~(u = t /\ o = p)
      BY <1>2, <2>1, <2>3 DEF TakenFrom
    <2> QED
      BY <2>2, <2>3
  <1> QED
    BY <1>3, <1>4, <1>5, ListSteps

\* A waiting request is always filed under the priority its buffer holds, although the
\* device writes into buffers at any time: it only writes into posted ones.
THEOREM FiledCorrect == Spec => []FiledUnderPriority
  <1>1. Init => TypeOK /\ Conserving /\ FiledUnderPriority
    BY TypeInit, ConserveInit, FiledInit
  <1>2. TypeOK /\ Conserving /\ FiledUnderPriority /\ [Next]_vars
          => (TypeOK /\ Conserving /\ FiledUnderPriority)'
    BY TypeNext, ConserveNext, FiledNext
  <1> QED
    BY <1>1, <1>2, PTL DEF Spec

-----------------------------------------------------------------------------
(* Order of arrival.  The number of the packet in a buffer says when it came.  The *)
(* receives of a connection pass through its completion queue, the batch a thread  *)
(* has polled and the lists of that thread without overtaking one another.         *)

Stamp(f, b) == f[b - NumBufs]

\* Everything in A arrived before everything in B.
Earlier(A, B, f) == \A a \in A : \A b \in B : Stamp(f, a) < Stamp(f, b)

\* The receives of s, and the requests of s, are in order of arrival.
RecvsRise(s, f) ==
  \A i, j \in DOMAIN s : i < j /\ IsRecv(s[i]) /\ IsRecv(s[j]) =>
    Stamp(f, s[i].wr_id) < Stamp(f, s[j].wr_id)
BufsRise(s, f) ==
  \A i, j \in DOMAIN s : i < j => Stamp(f, s[i].bufID) < Stamp(f, s[j].bufID)

ArrivalBy(f) ==
  /\ \A q \in Queues : RecvsRise(cq[q], f)
  /\ \A t \in Threads : RecvsRise(wc[t], f)
  /\ \A t \in Threads : Earlier(RecvsIn(wc[t]), RecvsIn(cq[ConnOf(t)]), f)
  /\ \A t \in Threads : \A p \in Priorities :
       /\ BufsRise(metaCQ[t][p], f)
       /\ Earlier(BufsIn(metaCQ[t][p]), RecvsIn(wc[t]), f)
       /\ Earlier(BufsIn(metaCQ[t][p]), RecvsIn(cq[ConnOf(t)]), f)

Arrival == NoneAhead /\ ArrivalBy(bufRecv)

LEMMA RecvsRiseAppend ==
  ASSUME NEW f, NEW s \in Seq(Completion), NEW c \in Completion, RecvsRise(s, f),
         IsRecv(c) => Earlier(RecvsIn(s), {c.wr_id}, f)
  PROVE  RecvsRise(Append(s, c), f)
  <1> DEFINE t == Append(s, c)
  <1>1. /\ DOMAIN t = DOMAIN s \cup {Len(s) + 1}
        /\ \A i \in DOMAIN s : t[i] = s[i] /\ i <= Len(s) /\ i \in Nat
        /\ t[Len(s) + 1] = c /\ Len(s) \in Nat
    BY AppendProperties
  <1> HIDE DEF t
  <1> SUFFICES ASSUME NEW i \in DOMAIN t, NEW j \in DOMAIN t, i < j, IsRecv(t[i]), IsRecv(t[j])
               PROVE  Stamp(f, t[i].wr_id) < Stamp(f, t[j].wr_id)
    BY DEF RecvsRise, t
  <1>2. i \in DOMAIN s
    BY <1>1
  <1>3. CASE j \in DOMAIN s
    BY <1>1, <1>2, <1>3 DEF RecvsRise
  <1>4. CASE j = Len(s) + 1
    <2>1. t[i].wr_id \in RecvsIn(s)
      BY <1>1, <1>2 DEF RecvsIn
    <2> QED
      BY <1>1, <1>4, <2>1 DEF Earlier
  <1> QED
    BY <1>1, <1>3, <1>4

LEMMA RecvsRiseTail ==
  ASSUME NEW f, NEW s \in Seq(Completion), s # <<>>, RecvsRise(s, f)
  PROVE  /\ RecvsRise(Tail(s), f)
         /\ IsRecv(Head(s)) => Earlier({Head(s).wr_id}, RecvsIn(Tail(s)), f)
  <1>1. /\ \A i \in DOMAIN Tail(s) : Tail(s)[i] = s[i + 1] /\ i + 1 \in DOMAIN s
        /\ \A i \in DOMAIN Tail(s) : i \in Nat /\ 1 < i + 1
        /\ Head(s) = s[1] /\ 1 \in DOMAIN s
    OBVIOUS
  <1>2. RecvsRise(Tail(s), f)
    <2> SUFFICES ASSUME NEW i \in DOMAIN Tail(s), NEW j \in DOMAIN Tail(s), i < j,
                        IsRecv(Tail(s)[i]), IsRecv(Tail(s)[j])
                 PROVE  Stamp(f, Tail(s)[i].wr_id) < Stamp(f, Tail(s)[j].wr_id)
      BY DEF RecvsRise
    <2>1. i + 1 < j + 1
      BY <1>1
    <2> QED
      BY <1>1, <2>1 DEF RecvsRise
  <1>3. ASSUME IsRecv(Head(s)), NEW i \in DOMAIN Tail(s), IsRecv(Tail(s)[i])
        PROVE  Stamp(f, Head(s).wr_id) < Stamp(f, Tail(s)[i].wr_id)
    BY <1>1, <1>3 DEF RecvsRise
  <1> QED
    BY <1>2, <1>3 DEF Earlier, RecvsIn

LEMMA RecvsRiseSplit ==
  ASSUME NEW f, NEW s \in Seq(Completion), NEW n \in 0 .. Len(s), RecvsRise(s, f)
  PROVE  LET a == SubSeq(s, 1, n)
             b == SubSeq(s, n + 1, Len(s))
         IN  RecvsRise(a, f) /\ RecvsRise(b, f) /\ Earlier(RecvsIn(a), RecvsIn(b), f)
  <1> DEFINE a == SubSeq(s, 1, n)
             b == SubSeq(s, n + 1, Len(s))
  <1>1. /\ \A i \in DOMAIN a : i \in DOMAIN s /\ a[i] = s[i] /\ i <= n
        /\ \A i \in DOMAIN b : n + i \in DOMAIN s /\ b[i] = s[n + i] /\ i > 0
        /\ DOMAIN s \subseteq Int /\ DOMAIN a \subseteq Int /\ DOMAIN b \subseteq Int
    OBVIOUS
  <1> HIDE DEF a, b
  <1>2. RecvsRise(a, f)
    BY <1>1 DEF RecvsRise
  <1>3. RecvsRise(b, f)
    <2> SUFFICES ASSUME NEW i \in DOMAIN b, NEW j \in DOMAIN b, i < j, IsRecv(b[i]), IsRecv(b[j])
                 PROVE  Stamp(f, b[i].wr_id) < Stamp(f, b[j].wr_id)
      BY DEF RecvsRise
    <2>1. n + i < n + j
      BY <1>1
    <2> QED
      BY <1>1, <2>1 DEF RecvsRise
  <1>4. ASSUME NEW i \in DOMAIN a, NEW j \in DOMAIN b, IsRecv(a[i]), IsRecv(b[j])
        PROVE  Stamp(f, a[i].wr_id) < Stamp(f, b[j].wr_id)
    <2>1. i < n + j
      BY <1>1
    <2> QED
      BY <1>1, <1>4, <2>1 DEF RecvsRise
  <1>5. Earlier(RecvsIn(a), RecvsIn(b), f)
    BY <1>4 DEF Earlier, RecvsIn
  <1> QED
    BY <1>2, <1>3, <1>5 DEF a, b

LEMMA BufsRiseAppend ==
  ASSUME NEW f, NEW s \in Seq(Req), NEW r \in Req, BufsRise(s, f),
         Earlier(BufsIn(s), {r.bufID}, f)
  PROVE  BufsRise(Append(s, r), f)
  <1> DEFINE t == Append(s, r)
  <1>1. /\ DOMAIN t = DOMAIN s \cup {Len(s) + 1}
        /\ \A i \in DOMAIN s : t[i] = s[i] /\ i <= Len(s) /\ i \in Nat
        /\ t[Len(s) + 1] = r /\ Len(s) \in Nat
    BY AppendProperties
  <1> HIDE DEF t
  <1> SUFFICES ASSUME NEW i \in DOMAIN t, NEW j \in DOMAIN t, i < j
               PROVE  Stamp(f, t[i].bufID) < Stamp(f, t[j].bufID)
    BY DEF BufsRise, t
  <1>2. i \in DOMAIN s
    BY <1>1
  <1>3. CASE j \in DOMAIN s
    BY <1>1, <1>2, <1>3 DEF BufsRise
  <1>4. CASE j = Len(s) + 1
    <2>1. t[i].bufID \in BufsIn(s)
      BY <1>1, <1>2 DEF BufsIn
    <2> QED
      BY <1>1, <1>4, <2>1 DEF Earlier
  <1> QED
    BY <1>1, <1>3, <1>4

LEMMA BufsRiseTail ==
  ASSUME NEW f, NEW s \in Seq(Req), s # <<>>, BufsRise(s, f)
  PROVE  BufsRise(Tail(s), f) /\ Earlier({Head(s).bufID}, BufsIn(Tail(s)), f)
  <1>1. /\ \A i \in DOMAIN Tail(s) : Tail(s)[i] = s[i + 1] /\ i + 1 \in DOMAIN s
        /\ \A i \in DOMAIN Tail(s) : i \in Nat /\ 1 < i + 1
        /\ Head(s) = s[1] /\ 1 \in DOMAIN s
    OBVIOUS
  <1>2. BufsRise(Tail(s), f)
    <2> SUFFICES ASSUME NEW i \in DOMAIN Tail(s), NEW j \in DOMAIN Tail(s), i < j
                 PROVE  Stamp(f, Tail(s)[i].bufID) < Stamp(f, Tail(s)[j].bufID)
      BY DEF BufsRise
    <2>1. i + 1 < j + 1
      BY <1>1
    <2> QED
      BY <1>1, <2>1 DEF BufsRise
  <1>3. ASSUME NEW i \in DOMAIN Tail(s)
        PROVE  Stamp(f, Head(s).bufID) < Stamp(f, Tail(s)[i].bufID)
    BY <1>1 DEF BufsRise
  <1> QED
    BY <1>2, <1>3 DEF Earlier, BufsIn

\* New stamps in the buffers that are not waiting do not disturb the order of the others.
LEMMA StampsSteady ==
  ASSUME TypeOK, Conserving, ArrivalBy(bufRecv), [Next]_vars
  PROVE  ArrivalBy(bufRecv')
  <1>1. ASSUME NEW x \in Places, x[1] # "rq", NEW b \in Held(x)
        PROVE  Stamp(bufRecv', b) = Stamp(bufRecv, b)
    BY <1>1, SteadyPackets DEF Stamp
  <1>2. /\ \A q \in Queues : \A b \in RecvsIn(cq[q]) : Stamp(bufRecv', b) = Stamp(bufRecv, b)
        /\ \A t \in Threads : \A b \in RecvsIn(wc[t]) : Stamp(bufRecv', b) = Stamp(bufRecv, b)
        /\ \A t \in Threads : \A p \in Priorities : \A b \in BufsIn(metaCQ[t][p]) :
             Stamp(bufRecv', b) = Stamp(bufRecv, b)
    BY <1>1, HeldAt, PlaceMembers
  <1>3. \A q \in Queues : RecvsRise(cq[q], bufRecv')
    BY <1>2 DEF ArrivalBy, RecvsRise, RecvsIn
  <1>4. \A t \in Threads : RecvsRise(wc[t], bufRecv')
    BY <1>2 DEF ArrivalBy, RecvsRise, RecvsIn
  <1>5. \A t \in Threads : Earlier(RecvsIn(wc[t]), RecvsIn(cq[ConnOf(t)]), bufRecv')
    BY <1>2, ConnInRange DEF ArrivalBy, Earlier
  <1>6. \A t \in Threads : \A p \in Priorities : BufsRise(metaCQ[t][p], bufRecv')
    BY <1>2 DEF ArrivalBy, BufsRise, BufsIn
  <1>7. \A t \in Threads : \A p \in Priorities :
          /\ Earlier(BufsIn(metaCQ[t][p]), RecvsIn(wc[t]), bufRecv')
          /\ Earlier(BufsIn(metaCQ[t][p]), RecvsIn(cq[ConnOf(t)]), bufRecv')
    BY <1>2, ConnInRange DEF ArrivalBy, Earlier
  <1> QED
    BY <1>3, <1>4, <1>5, <1>6, <1>7 DEF ArrivalBy

LEMMA ArrivalInit == Init => Arrival
  <1> SUFFICES ASSUME Init
               PROVE  Arrival
    OBVIOUS
  <1>1. NoneAhead
    BY DEF Init, VerbsInit, NoneAhead
  <1>2. /\ \A q \in Queues : cq[q] = <<>>
        /\ \A t \in Threads : wc[t] = <<>> /\ \A p \in Priorities : metaCQ[t][p] = <<>>
    BY DEF Init, VerbsInit, ThreadsInit
  <1>3. /\ RecvsRise(<<>>, bufRecv) /\ BufsRise(<<>>, bufRecv)
        /\ RecvsIn(<<>>) = {} /\ BufsIn(<<>>) = {}
    BY DEF RecvsRise, BufsRise, RecvsIn, BufsIn
  <1>4. ArrivalBy(bufRecv)
    BY <1>2, <1>3, ConnInRange DEF ArrivalBy, Earlier
  <1> QED
    BY <1>1, <1>4 DEF Arrival

\* The stamps of the receives that wait somewhere.
LEMMA StampsBounded ==
  ASSUME TypeOK, NoneAhead, NEW x \in Places, x[1] # "rq", NEW b \in Held(x)
  PROVE  Stamp(bufRecv, b) \in Nat /\ Stamp(bufRecv, b) <= Len(sent)
  <1>1. b \in RecvIds /\ bufRecv \in [SendIds -> 0 .. MaxPackets]
    BY DEF TypeOK, VerbsTypeOK, Filled
  <1>2. b - NumBufs \in SendIds
    BY <1>1, RecvToSend
  <1> QED
    BY <1>1, <1>2 DEF NoneAhead, Stamp

LEMMA ArrivalReceive ==
  ASSUME TypeOK, Conserving, NoneAhead, ArrivalBy(bufRecv'), [Next]_vars,
         NEW q \in Queues, NEW pkt \in Packet, NicReceive(q, pkt), UNCHANGED serverVars
  PROVE  ArrivalBy(bufRecv)'
  <1> DEFINE h == Head(rq[q])
             c == [wr_id |-> h, src_qp |-> pkt.src]
             f == bufRecv'
  <1>1. VerbsTypeOK /\ cq[q] \in Seq(Completion) /\ cq \in [Queues -> Seq(Completion)]
    BY DEF TypeOK, VerbsTypeOK
  <1>2. /\ h \in RecvIds /\ f[h - NumBufs] = Len(sent) + 1 /\ Len(sent) \in Nat
        /\ \A r \in Queues : RecvsIn(cq'[r]) =
             IF r = q THEN RecvsIn(cq[q]) \cup {h} ELSE RecvsIn(cq[r])
    <2>1. Len(sent) \in Nat
      BY <1>1 DEF VerbsTypeOK
    <2> QED
      BY <1>1, <2>1, VerbsReceive
  <1>3. c \in Completion /\ IsRecv(c) /\ c.wr_id = h
    BY <1>2, BufCount DEF Completion, Packet, RecvIds, IsRecv
  <1>4. ASSUME NEW x \in Places, x[1] # "rq"
        PROVE  Earlier(Held(x), {h}, f)
    <2> SUFFICES ASSUME NEW b \in Held(x)
                 PROVE  Stamp(f, b) < Stamp(f, h)
      BY DEF Earlier
    <2>1. Stamp(bufRecv, b) \in Nat /\ Stamp(bufRecv, b) <= Len(sent)
      BY <1>4, StampsBounded
    <2>2. Stamp(f, b) = Stamp(bufRecv, b)
      BY <1>4, SteadyPackets DEF Stamp
    <2> HIDE DEF h, f
    <2> QED
      BY <1>2, <2>1, <2>2 DEF Stamp
  <1>5. /\ \A r \in Queues : Earlier(RecvsIn(cq[r]), {h}, f)
        /\ \A t \in Threads : Earlier(RecvsIn(wc[t]), {h}, f)
        /\ \A t \in Threads : \A p \in Priorities : Earlier(BufsIn(metaCQ[t][p]), {h}, f)
    <2> HIDE DEF h, f
    <2> QED
      BY <1>4, HeldAt, PlaceMembers
  <1>6. cq' = [cq EXCEPT ![q] = Append(cq[q], c)] /\ UNCHANGED <<wc, metaCQ>>
    BY DEF NicReceive, serverVars, threadVars
  <1> HIDE DEF h, c, f
  <1>7. RecvsRise(Append(cq[q], c), f)
    BY <1>1, <1>3, <1>5, RecvsRiseAppend DEF ArrivalBy, f
  <1>8. \A r \in Queues : RecvsRise(cq'[r], f)
    BY <1>1, <1>6, <1>7 DEF ArrivalBy, f
  <1>9. \A t \in Threads : Earlier(RecvsIn(wc[t]), RecvsIn(cq'[ConnOf(t)]), f)
    BY <1>2, <1>5, ConnInRange DEF ArrivalBy, Earlier, f
  <1>10. \A t \in Threads : \A p \in Priorities :
           Earlier(BufsIn(metaCQ[t][p]), RecvsIn(cq'[ConnOf(t)]), f)
    BY <1>2, <1>5, ConnInRange DEF ArrivalBy, Earlier, f
  <1> QED
    BY <1>6, <1>8, <1>9, <1>10 DEF ArrivalBy, f

\* The completion of a send does not count.
LEMMA ArrivalSend ==
  ASSUME TypeOK, ArrivalBy(bufRecv), NEW q \in Queues, NicSend(q), UNCHANGED serverVars
  PROVE  ArrivalBy(bufRecv)'
  <1> DEFINE wr == Head(sq[q])
             c == [wr_id |-> wr.wr_id, src_qp |-> wr.qpn]
  <1>1. VerbsTypeOK /\ cq[q] \in Seq(Completion) /\ cq \in [Queues -> Seq(Completion)]
    BY DEF TypeOK, VerbsTypeOK
  <1>2. /\ wr \in SendRequest /\ UNCHANGED bufRecv
        /\ \A r \in Queues : RecvsIn(cq'[r]) = RecvsIn(cq[r])
    BY <1>1, VerbsSend
  <1>3. wr.wr_id \in SendIds /\ wr.qpn \in Sources
    BY <1>2 DEF SendRequest
  <1>4. c \in Completion /\ ~IsRecv(c)
    BY <1>3, BufCount DEF Completion, SendIds, IsRecv
  <1>5. /\ cq' = (IF wr.signal THEN [cq EXCEPT ![q] = Append(cq[q], c)] ELSE cq)
        /\ UNCHANGED <<wc, metaCQ>>
    BY DEF NicSend, serverVars, threadVars
  <1> HIDE DEF wr, c
  <1>6. RecvsRise(Append(cq[q], c), bufRecv)
    BY <1>1, <1>4, RecvsRiseAppend DEF ArrivalBy
  <1>7. \A r \in Queues : RecvsRise(cq'[r], bufRecv)
    BY <1>1, <1>5, <1>6 DEF ArrivalBy
  <1> QED
    BY <1>2, <1>5, <1>7, ConnInRange DEF ArrivalBy

LEMMA ArrivalPoll ==
  ASSUME TypeOK, ArrivalBy(bufRecv), NEW t \in Threads, Poll(t)
  PROVE  ArrivalBy(bufRecv)'
  <1> DEFINE q == ConnOf(t)
             s == cq[q]
             n == PollCount(q)
             a == SubSeq(s, 1, n)
             b == SubSeq(s, n + 1, Len(s))
  <1>1. /\ q \in Queues /\ s \in Seq(Completion)
        /\ cq \in [Queues -> Seq(Completion)] /\ wc \in [Threads -> Seq(Completion)]
    BY ConnInRange DEF TypeOK, VerbsTypeOK, ServerTypeOK, ThreadsTypeOK
  <1>2. n \in 0 .. Len(s)
    BY <1>1, BufCount DEF PollCount
  <1>3. /\ cq' = [cq EXCEPT ![q] = b] /\ wc' = [wc EXCEPT ![t] = a]
        /\ UNCHANGED <<metaCQ, bufRecv>>
    BY DEF Poll, PollCq, Polled
  <1>4. RecvsIn(s) = RecvsIn(a) \cup RecvsIn(b)
    <2> HIDE DEF s, n
    <2> QED
      BY <1>1, <1>2, RecvsSplit
  <1>5. /\ RecvsRise(a, bufRecv) /\ RecvsRise(b, bufRecv)
        /\ Earlier(RecvsIn(a), RecvsIn(b), bufRecv)
    <2>1. RecvsRise(s, bufRecv)
      BY <1>1 DEF ArrivalBy
    <2> HIDE DEF s, n
    <2> QED
      BY <1>1, <1>2, <2>1, RecvsRiseSplit
  <1> HIDE DEF a, b, n
  <1>6. /\ \A r \in Queues : RecvsRise(cq'[r], bufRecv)
        /\ \A u \in Threads : RecvsRise(wc'[u], bufRecv)
    BY <1>1, <1>3, <1>5 DEF ArrivalBy
  <1>7. /\ \A r \in Queues : RecvsIn(cq'[r]) \subseteq RecvsIn(cq[r])
        /\ \A u \in Threads : RecvsIn(wc'[u]) = IF u = t THEN RecvsIn(a) ELSE RecvsIn(wc[u])
        /\ RecvsIn(a) \subseteq RecvsIn(cq[q]) /\ cq'[q] = b
    BY <1>1, <1>3, <1>4
  <1>8. \A u \in Threads : Earlier(RecvsIn(wc'[u]), RecvsIn(cq'[ConnOf(u)]), bufRecv)
    BY <1>5, <1>7, ConnInRange DEF ArrivalBy, Earlier
  <1>9. \A u \in Threads : \A p \in Priorities :
          /\ Earlier(BufsIn(metaCQ[u][p]), RecvsIn(wc'[u]), bufRecv)
          /\ Earlier(BufsIn(metaCQ[u][p]), RecvsIn(cq'[ConnOf(u)]), bufRecv)
    BY <1>7, ConnInRange DEF ArrivalBy, Earlier
  <1> QED
    BY <1>3, <1>6, <1>8, <1>9 DEF ArrivalBy

LEMMA ArrivalSendCompletion ==
  ASSUME TypeOK, ArrivalBy(bufRecv), NEW t \in Threads, SendCompletion(t)
  PROVE  ArrivalBy(bufRecv)'
  <1>1. /\ wc[t] \in Seq(Completion) /\ wc[t] # <<>>
        /\ wc \in [Threads -> Seq(Completion)]
        /\ wc' = [wc EXCEPT ![t] = Tail(wc[t])] /\ UNCHANGED <<cq, metaCQ, bufRecv>>
    BY DEF TypeOK, ServerTypeOK, ThreadsTypeOK, SendCompletion, verbsVars
  <1>2. RecvsRise(Tail(wc[t]), bufRecv) /\ RecvsIn(Tail(wc[t])) \subseteq RecvsIn(wc[t])
    BY <1>1, RecvsTail, RecvsRiseTail DEF ArrivalBy
  <1>3. \A u \in Threads : /\ RecvsRise(wc'[u], bufRecv)
                           /\ RecvsIn(wc'[u]) \subseteq RecvsIn(wc[u])
    BY <1>1, <1>2 DEF ArrivalBy
  <1>4. \A u \in Threads : Earlier(RecvsIn(wc'[u]), RecvsIn(cq[ConnOf(u)]), bufRecv)
    BY <1>3 DEF ArrivalBy, Earlier
  <1>5. \A u \in Threads : \A p \in Priorities :
          Earlier(BufsIn(metaCQ[u][p]), RecvsIn(wc'[u]), bufRecv)
    BY <1>3 DEF ArrivalBy, Earlier
  <1> QED
    BY <1>1, <1>3, <1>4, <1>5 DEF ArrivalBy

LEMMA ArrivalRecvCompletion ==
  ASSUME TypeOK, ArrivalBy(bufRecv), NEW t \in Threads, RecvCompletion(t)
  PROVE  ArrivalBy(bufRecv)'
  <1>1. PICK p \in Priorities, r \in Req : FiledAs(t, p, r)
    BY Filing
  <1> DEFINE m == metaCQ[t][p]
  <1>2. /\ wc[t] \in Seq(Completion) /\ wc[t] # <<>> /\ IsRecv(Head(wc[t]))
        /\ r.bufID = Head(wc[t]).wr_id
        /\ wc \in [Threads -> Seq(Completion)] /\ m \in Seq(Req)
        /\ wc' = [wc EXCEPT ![t] = Tail(wc[t])] /\ UNCHANGED <<cq, bufRecv>>
        /\ \A u \in Threads : \A o \in Priorities : metaCQ'[u][o] =
             IF u = t /\ o = p THEN Append(m, r) ELSE metaCQ[u][o]
    BY <1>1 DEF FiledAs, TypeOK, ServerTypeOK, ThreadsTypeOK, verbsVars
  <1>3. /\ RecvsRise(Tail(wc[t]), bufRecv) /\ RecvsIn(Tail(wc[t])) \subseteq RecvsIn(wc[t])
        /\ r.bufID \in RecvsIn(wc[t])
        /\ Earlier({r.bufID}, RecvsIn(Tail(wc[t])), bufRecv)
    BY <1>2, RecvsTail, RecvsRiseTail DEF ArrivalBy
  <1>4. BufsIn(Append(m, r)) = BufsIn(m) \cup {r.bufID}
    BY <1>2, BufsAppend
  <1>5. BufsRise(Append(m, r), bufRecv)
    <2>1. BufsRise(m, bufRecv) /\ Earlier(BufsIn(m), {r.bufID}, bufRecv)
      BY <1>3 DEF ArrivalBy, Earlier
    <2> QED
      BY <1>2, <2>1, BufsRiseAppend
  <1> HIDE DEF m
  <1>6. \A u \in Threads : /\ RecvsRise(wc'[u], bufRecv)
                           /\ RecvsIn(wc'[u]) \subseteq RecvsIn(wc[u])
    BY <1>2, <1>3 DEF ArrivalBy
  <1>7. \A u \in Threads : Earlier(RecvsIn(wc'[u]), RecvsIn(cq[ConnOf(u)]), bufRecv)
    BY <1>6 DEF ArrivalBy, Earlier
  <1>8. ASSUME NEW u \in Threads, NEW o \in Priorities
        PROVE  /\ BufsRise(metaCQ'[u][o], bufRecv)
               /\ Earlier(BufsIn(metaCQ'[u][o]), RecvsIn(wc'[u]), bufRecv)
               /\ Earlier(BufsIn(metaCQ'[u][o]), RecvsIn(cq[ConnOf(u)]), bufRecv)
    <2>1. CASE u = t /\ o = p
      <3>1. metaCQ'[u][o] = Append(m, r) /\ wc'[u] = Tail(wc[t])
        BY <1>2, <2>1
      <3>2. Earlier(BufsIn(m), RecvsIn(wc[t]), bufRecv)
            /\ Earlier(BufsIn(m), RecvsIn(cq[ConnOf(t)]), bufRecv)
            /\ Earlier(RecvsIn(wc[t]), RecvsIn(cq[ConnOf(t)]), bufRecv)
        BY DEF ArrivalBy, m
      <3>3. Earlier(BufsIn(metaCQ'[u][o]), RecvsIn(wc'[u]), bufRecv)
        BY <1>3, <1>4, <3>1, <3>2 DEF Earlier
      <3>4. Earlier(BufsIn(metaCQ'[u][o]), RecvsIn(cq[ConnOf(u)]), bufRecv)
        BY <1>3, <1>4, <2>1, <3>1, <3>2 DEF Earlier
      <3> QED
        BY <1>5, <3>1, <3>3, <3>4
    <2>2. CASE ~(u = t /\ o = p)
      <3>1. metaCQ'[u][o] = metaCQ[u][o]
        BY <1>2, <2>2
      <3> QED
        BY <1>6, <3>1 DEF ArrivalBy, Earlier
    <2> QED
      BY <2>1, <2>2
  <1> QED
    BY <1>2, <1>6, <1>7, <1>8 DEF ArrivalBy

LEMMA ArrivalTake ==
  ASSUME TypeOK, ArrivalBy(bufRecv), NEW t \in Threads, TakeRequest(t),
         UNCHANGED <<cq, wc, bufRecv>>
  PROVE  ArrivalBy(bufRecv)'
  <1>1. PICK p \in Priorities : TakenFrom(t, p)
    BY Taking
  <1> DEFINE m == metaCQ[t][p]
  <1>2. /\ m \in Seq(Req) /\ m # <<>>
        /\ \A u \in Threads : \A o \in Priorities : metaCQ'[u][o] =
             IF u = t /\ o = p THEN Tail(m) ELSE metaCQ[u][o]
    BY <1>1 DEF TakenFrom, TypeOK, ServerTypeOK
  <1>3. BufsRise(Tail(m), bufRecv) /\ BufsIn(Tail(m)) \subseteq BufsIn(m)
    BY <1>2, BufsTail, BufsRiseTail DEF ArrivalBy
  <1> HIDE DEF m
  <1>4. ASSUME NEW u \in Threads, NEW o \in Priorities
        PROVE  /\ BufsRise(metaCQ'[u][o], bufRecv)
               /\ BufsIn(metaCQ'[u][o]) \subseteq BufsIn(metaCQ[u][o])
    <2>1. CASE u = t /\ o = p
      BY <1>2, <1>3, <2>1 DEF m
    <2>2. CASE ~(u = t /\ o = p)
      BY <1>2, <2>2 DEF ArrivalBy
    <2> QED
      BY <2>1, <2>2
  <1>5. \A u \in Threads : \A o \in Priorities :
          /\ Earlier(BufsIn(metaCQ'[u][o]), RecvsIn(wc[u]), bufRecv)
          /\ Earlier(BufsIn(metaCQ'[u][o]), RecvsIn(cq[ConnOf(u)]), bufRecv)
    BY <1>4 DEF ArrivalBy, Earlier
  <1> QED
    BY <1>4, <1>5 DEF ArrivalBy

LEMMA ArrivalNext ==
  ASSUME TypeOK, Conserving, Arrival, [Next]_vars
  PROVE  Arrival'
  <1>1. NoneAhead'
    BY Writes, WrittenStamps DEF Arrival, TypeOK
  <1> SUFFICES ArrivalBy(bufRecv)'
    BY <1>1 DEF Arrival
  <1>2. ArrivalBy(bufRecv) /\ ArrivalBy(bufRecv') /\ NoneAhead
    BY StampsSteady DEF Arrival
  <1>3. CASE UNCHANGED <<cq, wc, metaCQ>>
    BY <1>2, <1>3 DEF ArrivalBy
  <1>4. ASSUME NEW q \in Queues, NEW pkt \in Packet, NicDrop(q, pkt), UNCHANGED serverVars
        PROVE  ArrivalBy(bufRecv)'
    BY <1>3, <1>4 DEF NicDrop, serverVars, threadVars
  <1>5. CASE Device
    BY <1>2, <1>4, <1>5, ArrivalReceive, ArrivalSend DEF Device
  <1>6. ASSUME NEW t \in Threads, Thread(t)
        PROVE  ArrivalBy(bufRecv)'
    <2>1. CASE Terminate(t) \/ Serve(t)
      BY <1>2, <2>1, ArrivalTake DEF Terminate, Serve, verbsVars
    <2>2. CASE \/ EnterBarrier(t) \/ LeaveBarrier(t) \/ LoopTest(t) \/ Idle(t)
               \/ PostRecv(t) \/ PostSend(t) \/ Exit(t) \/ Crash(t)
      BY <1>3, <2>2 DEF EnterBarrier, LeaveBarrier, LoopTest, Idle, PostRecv, PostSend, Exit,
         Crash, verbsVars
    <2> QED
      BY <1>2, <1>6, <2>1, <2>2, ArrivalPoll, ArrivalSendCompletion, ArrivalRecvCompletion
      DEF Thread
  <1>7. CASE UNCHANGED vars
    BY <1>3, <1>7 DEF vars, verbsVars, serverVars, threadVars
  <1> QED
    BY <1>5, <1>6, <1>7 DEF Next, AtRest

\* What a step that takes a request leaves waiting.
LEMMA TakenIsFirst ==
  ASSUME TypeOK, SkipListExact, FiledUnderPriority, Arrival,
         NEW t \in Threads, TakeRequest(t), UNCHANGED <<bufRecv, sent>>,
         NEW o \in Priorities, NEW i \in DOMAIN metaCQ'[t][o]
  PROVE  LET taken == bufRecv[cur'[t].bufID - NumBufs]
             left == bufRecv[metaCQ'[t][o][i].bufID - NumBufs]
         IN  \/ sent[taken].prio < sent[left].prio
             \/ sent[taken].prio = sent[left].prio /\ taken < left
  <1>1. PICK p \in Priorities : TakenFrom(t, p)
    BY Taking
  <1> DEFINE m == metaCQ[t][p]
  <1>2. /\ m \in Seq(Req) /\ m # <<>> /\ cur'[t] = Head(m)
        /\ \A x \in skipList[t] : p <= x
        /\ metaCQ'[t][o] = IF o = p THEN Tail(m) ELSE metaCQ[t][o]
        /\ metaCQ[t][o] \in Seq(Req)
    BY <1>1 DEF TakenFrom, TypeOK, ServerTypeOK, ThreadsTypeOK
  <1>3. 1 \in DOMAIN m /\ Head(m) = m[1]
    BY <1>2, TailProperties
  <1>4. sent[bufRecv[cur'[t].bufID - NumBufs]].prio = p
    BY <1>2, <1>3 DEF FiledUnderPriority, PacketIn
  <1>5. CASE o = p
    <2>1. /\ i \in DOMAIN Tail(m) /\ metaCQ'[t][o][i] = Tail(m)[i]
          /\ Tail(m)[i] = m[i + 1] /\ i + 1 \in DOMAIN m
      BY <1>2, <1>5, TailProperties
    <2>2. sent[bufRecv[metaCQ'[t][o][i].bufID - NumBufs]].prio = p
      BY <2>1 DEF FiledUnderPriority, PacketIn
    <2>3. Earlier({Head(m).bufID}, BufsIn(Tail(m)), bufRecv)
      BY <1>2, BufsRiseTail DEF Arrival, ArrivalBy
    <2>4. bufRecv[cur'[t].bufID - NumBufs] < bufRecv[metaCQ'[t][o][i].bufID - NumBufs]
      BY <1>2, <2>1, <2>3 DEF Earlier, Stamp, BufsIn
    <2> QED
      BY <1>4, <2>2, <2>4
  <1>6. CASE o # p
    <2>1. metaCQ'[t][o] = metaCQ[t][o] /\ metaCQ[t][o] # <<>> /\ i \in DOMAIN metaCQ[t][o]
      BY <1>2, <1>6
    <2>2. o \in skipList[t] /\ p <= o
      BY <1>2, <2>1 DEF SkipListExact
    <2>3. p < o
      BY <1>6, <2>2, VerbsAssumption DEF Priorities
    <2>4. sent[bufRecv[metaCQ'[t][o][i].bufID - NumBufs]].prio = o
      BY <2>1 DEF FiledUnderPriority, PacketIn
    <2> QED
      BY <1>4, <2>3, <2>4
  <1> QED
    BY <1>5, <1>6

\* Only serving and ending give a thread a new request.
LEMMA CurSteps ==
  ASSUME TypeOK, [Next]_vars, NEW t \in Threads, cur'[t] # cur[t], cur'[t] # NoReq
  PROVE  TakeRequest(t) /\ UNCHANGED <<bufRecv, sent>>
  <1>1. cur \in [Threads -> Req \cup {NoReq}]
    BY DEF TypeOK, ServerTypeOK, ThreadsTypeOK
  <1>2. cur' # cur
    OBVIOUS
  <1>3. PICK u \in Threads : Serve(u) \/ Terminate(u) \/ PostSend(u)
    BY <1>2 DEF Next, Device, Thread, AtRest, EnterBarrier, LeaveBarrier, LoopTest, Poll,
       SendCompletion, RecvCompletion, Idle, PostRecv, Exit, Crash, vars, serverVars, threadVars
  <1>4. CASE PostSend(u)
    BY <1>1, <1>4 DEF PostSend
  <1>5. CASE Serve(u) \/ Terminate(u)
    <2>1. TakeRequest(u) /\ UNCHANGED <<bufRecv, sent>>
      BY <1>5 DEF Serve, Terminate, verbsVars
    <2>2. u = t
      BY <1>1, <2>1 DEF TakeRequest
    <2> QED
      BY <2>1, <2>2
  <1> QED
    BY <1>3, <1>4, <1>5

\* Strict priority and, within a priority, order of arrival, for every number of threads
\* and whether or not they share connections: whenever a thread takes a request, all
\* that it leaves waiting is less urgent, or equally urgent and came later.
THEOREM OrderCorrect == Spec => ServedInOrder
  <1> DEFINE Inv == TypeOK /\ SkipListExact /\ Conserving /\ FiledUnderPriority /\ Arrival
             InOrder == \A t \in Threads : cur'[t] # cur[t] /\ cur'[t] # NoReq =>
               \A p \in Priorities : \A i \in DOMAIN metaCQ'[t][p] :
                 LET taken == bufRecv[cur'[t].bufID - NumBufs]
                     left == bufRecv[metaCQ'[t][p][i].bufID - NumBufs]
                 IN  \/ sent[taken].prio < sent[left].prio
                     \/ sent[taken].prio = sent[left].prio /\ taken < left
  <1>1. Init => Inv
    BY TypeInit, SkipListInit, ConserveInit, FiledInit, ArrivalInit
  <1>2. Inv /\ [Next]_vars => Inv'
    BY TypeNext, SkipListNext, ConserveNext, FiledNext, ArrivalNext
  <1>3. Inv /\ [Next]_vars => InOrder
    <2> SUFFICES ASSUME Inv, [Next]_vars
                 PROVE  InOrder
      OBVIOUS
    <2> QED
      BY CurSteps, TakenIsFirst
  <1>4. Inv /\ [Next]_vars => [InOrder]_vars
    BY <1>3
  <1> HIDE DEF Inv, InOrder
  <1>5. Spec => [][InOrder]_vars
    BY <1>1, <1>2, <1>4, PTL DEF Spec
  <1> QED
    BY <1>5 DEF ServedInOrder, InOrder

-----------------------------------------------------------------------------
(* Responses. *)

OriginBy(f, l) ==
  /\ \A q \in Queues : RecvsFrom(cq[q], f, l)
  /\ \A t \in Threads : RecvsFrom(wc[t], f, l)
  /\ \A t \in Threads : \A p \in Priorities : BufsFrom(metaCQ[t][p], f, l)

\* A thread serves a buffer of its own connection, and answers who sent the packet.
InServiceOf(t) ==
  /\ cur[t] # NoReq => cur[t].bufID \in OwnBuffers(ConnOf(t))
  /\ pc[t] = "postRecv" =>
       /\ bufSend[cur[t].bufID - NumBufs] = bufRecv[cur[t].bufID - NumBufs]
       /\ Answerable(bufRecv[cur[t].bufID - NumBufs], cur[t].srcQP)
  /\ pc[t] = "postSend" => Answerable(bufSend[cur[t].bufID - NumBufs], cur[t].srcQP)
InService == \A t \in Threads : InServiceOf(t)

Echo ==
  /\ NoneAhead /\ Unique /\ OriginBy(bufRecv, sent)
  /\ InService /\ Outgoing /\ OneState

\* Threads with connections of their own never have the same buffer in service.
LEMMA OwnConnections ==
  ASSUME NumThreads <= NumQueues, InService, NEW t \in Threads, NEW u \in Threads, t # u,
         NEW b \in OwnBuffers(ConnOf(t)), cur[u] # NoReq
  PROVE  cur[u].bufID # b
  <1>1. ConnOf(t) = t /\ ConnOf(u) = u
    BY VerbsAssumption, ServerAssumption DEF ConnOf, Threads
  <1>2. OwnBuffers(ConnOf(t)) \cap OwnBuffers(ConnOf(u)) = {}
    BY <1>1, ConnInRange, InitialSplit
  <1> QED
    BY <1>2 DEF InService, InServiceOf

\* The sources travel with the requests.
LEMMA OriginNext ==
  ASSUME TypeOK, Conserving, OriginBy(bufRecv, sent), [Next]_vars
  PROVE  OriginBy(bufRecv, sent)'
  <1> DEFINE f == bufRecv'
             l == sent'
  <1>1. /\ VerbsTypeOK /\ cq \in [Queues -> Seq(Completion)]
        /\ wc \in [Threads -> Seq(Completion)]
        /\ metaCQ \in [Threads -> [Priorities -> Seq(Req)]]
    BY DEF TypeOK, VerbsTypeOK, ServerTypeOK, ThreadsTypeOK
  <1>2. /\ \A q \in Queues : RecvsFrom(cq[q], f, l)
        /\ \A t \in Threads : RecvsFrom(wc[t], f, l)
        /\ \A t \in Threads : \A p \in Priorities : BufsFrom(metaCQ[t][p], f, l)
    <2>1. ASSUME NEW x \in Places, x[1] # "rq", NEW b \in Held(x)
          PROVE  l[f[b - NumBufs]] = sent[bufRecv[b - NumBufs]]
      BY <2>1, SteadyPackets DEF PacketIn
    <2> HIDE DEF f, l
    <2>2. /\ \A q \in Queues : \A b \in RecvsIn(cq[q]) :
               l[f[b - NumBufs]] = sent[bufRecv[b - NumBufs]]
          /\ \A t \in Threads : \A b \in RecvsIn(wc[t]) :
               l[f[b - NumBufs]] = sent[bufRecv[b - NumBufs]]
          /\ \A t \in Threads : \A p \in Priorities : \A b \in BufsIn(metaCQ[t][p]) :
               l[f[b - NumBufs]] = sent[bufRecv[b - NumBufs]]
      BY <2>1, HeldAt, PlaceMembers
    <2>3. \A q \in Queues : RecvsFrom(cq[q], f, l)
      BY <2>2 DEF OriginBy, RecvsFrom, RecvsIn
    <2>4. \A t \in Threads : RecvsFrom(wc[t], f, l)
      BY <2>2 DEF OriginBy, RecvsFrom, RecvsIn
    <2>5. \A t \in Threads : \A p \in Priorities : BufsFrom(metaCQ[t][p], f, l)
      BY <2>2 DEF OriginBy, BufsFrom, BufsIn
    <2> QED
      BY <2>3, <2>4, <2>5
  <1>5. CASE UNCHANGED <<cq, wc, metaCQ>>
    BY <1>2, <1>5 DEF OriginBy
  <1>6. ASSUME NEW q \in Queues, NEW pkt \in Packet, NicReceive(q, pkt), UNCHANGED serverVars
        PROVE  OriginBy(bufRecv, sent)'
    <2>1. \A r \in Queues : RecvsFrom(cq'[r], f, l)
      BY <1>1, <1>2, <1>6, ReceiveFrom
    <2> QED
      BY <1>2, <1>6, <2>1 DEF OriginBy, serverVars, threadVars
  <1>7. ASSUME NEW q \in Queues, NicSend(q), UNCHANGED serverVars
        PROVE  OriginBy(bufRecv, sent)'
    <2>1. \A r \in Queues : RecvsFrom(cq'[r], f, l)
      <3> HIDE DEF f, l
      <3> QED
        BY <1>1, <1>2, <1>7, SendFrom
    <2> QED
      BY <1>2, <1>7, <2>1 DEF OriginBy, serverVars, threadVars
  <1>8. ASSUME NEW t \in Threads, Poll(t)
        PROVE  OriginBy(bufRecv, sent)'
    <2>1. /\ ConnOf(t) \in Queues /\ PollCq(ConnOf(t)) /\ UNCHANGED metaCQ
          /\ wc' = [wc EXCEPT ![t] = Polled(ConnOf(t))]
      BY <1>8, ConnInRange DEF Poll
    <2>2. /\ RecvsFrom(Polled(ConnOf(t)), f, l)
          /\ \A r \in Queues : RecvsFrom(cq'[r], f, l)
      <3> HIDE DEF f, l
      <3> QED
        BY <1>1, <1>2, <2>1, PollFrom
    <2>3. \A u \in Threads : RecvsFrom(wc'[u], f, l)
      BY <1>1, <1>2, <2>1, <2>2
    <2> QED
      BY <1>2, <2>1, <2>2, <2>3 DEF OriginBy
  <1>9. ASSUME NEW t \in Threads, wc[t] # <<>>, wc' = [wc EXCEPT ![t] = Tail(wc[t])]
        PROVE  \A u \in Threads : RecvsFrom(wc'[u], f, l)
    <2>1. RecvsFrom(Tail(wc[t]), f, l)
      <3> HIDE DEF f, l
      <3> QED
        BY <1>1, <1>2, <1>9, RecvsFromTail
    <2> QED
      BY <1>1, <1>2, <1>9, <2>1
  <1>10. ASSUME NEW t \in Threads, SendCompletion(t)
         PROVE  OriginBy(bufRecv, sent)'
    BY <1>2, <1>9, <1>10 DEF OriginBy, SendCompletion, verbsVars
  <1>11. ASSUME NEW t \in Threads, RecvCompletion(t)
         PROVE  OriginBy(bufRecv, sent)'
    <2>1. PICK p \in Priorities, r \in Req : FiledAs(t, p, r)
      BY <1>11, Filing
    <2>2. /\ wc[t] # <<>> /\ IsRecv(Head(wc[t])) /\ wc' = [wc EXCEPT ![t] = Tail(wc[t])]
          /\ r.bufID = Head(wc[t]).wr_id /\ r.srcQP = Head(wc[t]).src_qp
          /\ \A u \in Threads : \A o \in Priorities : metaCQ'[u][o] =
               IF u = t /\ o = p THEN Append(metaCQ[t][p], r) ELSE metaCQ[u][o]
          /\ UNCHANGED <<cq, bufRecv, sent>>
      BY <2>1 DEF FiledAs, verbsVars
    <2>3. r.srcQP = l[f[r.bufID - NumBufs]].src
      <3> HIDE DEF f, l
      <3>1. wc[t] \in Seq(Completion) /\ RecvsFrom(wc[t], f, l) /\ wc[t] # <<>>
        BY <1>1, <1>2, <2>2
      <3>2. IsRecv(Head(wc[t])) => Head(wc[t]).src_qp = l[f[Head(wc[t]).wr_id - NumBufs]].src
        BY <3>1, RecvsFromTail
      <3> QED
        BY <2>2, <3>2
    <2>4. BufsFrom(Append(metaCQ[t][p], r), f, l)
      <3> HIDE DEF f, l
      <3> QED
        BY <1>1, <1>2, <2>3, BufsFromAppend
    <2>5. ASSUME NEW u \in Threads, NEW o \in Priorities
          PROVE  BufsFrom(metaCQ'[u][o], f, l)
      <3>1. CASE u = t /\ o = p
        BY <2>2, <2>4, <3>1
      <3>2. CASE ~(u = t /\ o = p)
        BY <1>2, <2>2, <3>2
      <3> QED
        BY <3>1, <3>2
    <2> QED
      BY <1>2, <1>9, <2>2, <2>5 DEF OriginBy
  <1>12. ASSUME NEW t \in Threads, TakeRequest(t), UNCHANGED <<cq, wc>>
         PROVE  OriginBy(bufRecv, sent)'
    <2>1. PICK p \in Priorities : TakenFrom(t, p)
      BY <1>12, Taking
    <2>2. ASSUME NEW u \in Threads, NEW o \in Priorities
          PROVE  BufsFrom(metaCQ'[u][o], f, l)
      <3>1. CASE u = t /\ o = p
        <4>1. metaCQ'[u][o] = Tail(metaCQ[t][p]) /\ metaCQ[t][p] # <<>>
          BY <2>1, <3>1 DEF TakenFrom
        <4> HIDE DEF f, l
        <4> QED
          BY <1>1, <1>2, <4>1, BufsFromTail
      <3>2. CASE ~(u = t /\ o = p)
        BY <1>2, <2>1, <3>2 DEF TakenFrom
      <3> QED
        BY <3>1, <3>2
    <2> QED
      BY <1>2, <1>12, <2>2 DEF OriginBy
  <1>13. CASE Device
    BY <1>5, <1>6, <1>7, <1>13 DEF Device, NicDrop, serverVars, threadVars
  <1>14. ASSUME NEW t \in Threads, Thread(t)
         PROVE  OriginBy(bufRecv, sent)'
    <2>1. CASE Terminate(t) \/ Serve(t)
      BY <1>12, <2>1 DEF Terminate, Serve, verbsVars
    <2>2. CASE \/ EnterBarrier(t) \/ LeaveBarrier(t) \/ LoopTest(t) \/ Idle(t)
               \/ PostRecv(t) \/ PostSend(t) \/ Exit(t) \/ Crash(t)
      BY <1>5, <2>2 DEF EnterBarrier, LeaveBarrier, LoopTest, Idle, PostRecv, PostSend, Exit,
         Crash, verbsVars
    <2> QED
      BY <1>8, <1>10, <1>11, <1>14, <2>1, <2>2 DEF Thread
  <1>15. CASE UNCHANGED vars
    BY <1>5, <1>15 DEF vars, verbsVars, serverVars, threadVars
  <1> QED
    BY <1>13, <1>14, <1>15 DEF Next, AtRest


\* What does not touch a thread or its send buffer leaves its service as it is.
LEMMA ServiceStays ==
  ASSUME TypeOK, Conserving, InService, [Next]_vars, NEW t \in Threads,
         pc'[t] = pc[t], cur'[t] = cur[t],
         cur[t] # NoReq => bufSend'[cur[t].bufID - NumBufs] = bufSend[cur[t].bufID - NumBufs]
  PROVE  InServiceOf(t)'
  <1> DEFINE x == <<"cur", t, 0>>
             b == cur[t].bufID - NumBufs
  <1>1. InServiceOf(t)
    BY DEF InService
  <1>2. pc[t] \in {"postRecv", "postSend"} => cur[t] # NoReq
    BY Serving
  <1>3. ASSUME pc[t] = "postRecv"
        PROVE  bufRecv'[b] = bufRecv[b]
    <2>1. x \in Places /\ x[1] # "rq" /\ Held(x) = InHand(t)
      BY PlaceMembers, HeldAt
    <2>2. cur[t].bufID \in Held(x)
      BY <1>2, <1>3, <2>1 DEF InHand
    <2> QED
      BY <2>1, <2>2, SteadyPackets
  <1> HIDE DEF b
  <1>4. \A i, d : Answerable(i, d) => Answerable(i, d)'
    BY Writes, WrittenStamps, AnswerableStays DEF TypeOK
  <1>5. ASSUME pc[t] = "postRecv"
        PROVE  bufSend'[b] = bufRecv'[b] /\ Answerable(bufRecv[b], cur[t].srcQP)'
    BY <1>1, <1>2, <1>3, <1>4, <1>5 DEF InServiceOf, b
  <1>6. ASSUME pc[t] = "postSend"
        PROVE  Answerable(bufSend[b], cur[t].srcQP)'
    BY <1>1, <1>2, <1>4, <1>6 DEF InServiceOf, b
  <1> QED
    BY <1>1, <1>5, <1>6 DEF InServiceOf, b

\* The request that a thread takes is one of its connection, of the sender of the packet.
LEMMA TakenFromSender ==
  ASSUME TypeOK, Conserving, OriginBy(bufRecv, sent), NEW t \in Threads, TakeRequest(t)
  PROVE  /\ cur'[t] \in Req /\ cur'[t].bufID \in OwnBuffers(ConnOf(t))
         /\ cur'[t].bufID \in Filled /\ cur'[t].srcQP = PacketIn(cur'[t].bufID).src
         /\ \A u \in Threads : u # t => cur'[u] = cur[u]
         /\ pc[t] = "drain"
  <1>1. PICK p \in Priorities : TakenFrom(t, p)
    BY Taking
  <1> DEFINE s == metaCQ[t][p]
             x == <<"meta", t, p>>
  <1>2. /\ s # <<>> /\ s \in Seq(Req) /\ cur' = [cur EXCEPT ![t] = Head(s)]
        /\ cur \in [Threads -> Req \cup {NoReq}] /\ pc[t] = "drain"
    <2>1. s # <<>> /\ cur' = [cur EXCEPT ![t] = Head(s)]
      BY <1>1 DEF TakenFrom
    <2>2. s \in Seq(Req) /\ cur \in [Threads -> Req \cup {NoReq}]
      BY DEF TypeOK, ServerTypeOK, ThreadsTypeOK
    <2>3. pc[t] = "drain"
      BY DEF TakeRequest
    <2> QED
      BY <2>1, <2>2, <2>3
  <1>3. BufsFrom(s, bufRecv, sent)
    BY DEF OriginBy
  <1>4. /\ x \in Places /\ x[1] # "rq" /\ Held(x) = BufsIn(s) /\ ConnAt(x) = ConnOf(t)
    BY PlaceMembers, HeldAt DEF ConnAt
  <1> HIDE DEF x, s
  <1>5. Head(s) \in Req /\ Head(s) = s[1] /\ 1 \in DOMAIN s
    BY <1>2, TailProperties
  <1>6. Head(s).bufID \in Held(x)
    BY <1>4, <1>5 DEF BufsIn
  <1>7. Head(s).bufID \in OwnBuffers(ConnOf(t)) /\ Head(s).bufID \in Filled
    BY <1>4, <1>6 DEF Conserving, BuffersStayHome, TypeOK
  <1>8. Head(s).srcQP = PacketIn(Head(s).bufID).src
    BY <1>3, <1>5 DEF BufsFrom, PacketIn
  <1> QED
    BY <1>2, <1>5, <1>7, <1>8

\* Steps of the loop that neither serve nor post.
LEMMA EchoMove ==
  ASSUME TypeOK, Conserving, InService, Outgoing, OneState, [Next]_vars, NEW t \in Threads,
         UNCHANGED <<rq, sq, bufRecv, bufSend, replies>>,
         \A u \in Threads : u # t => pc'[u] = pc[u] /\ cur'[u] = cur[u],
         pc[t] # "postSend", pc'[t] \notin {"postRecv", "postSend"},
         cur'[t] = cur[t] \/ cur'[t].bufID \in OwnBuffers(ConnOf(t))
  PROVE  InService' /\ Outgoing' /\ OneState'
  <1>1. \A u \in Threads : u # t => InServiceOf(u)'
    BY ServiceStays
  <1>2. InServiceOf(t)'
    BY DEF InService, InServiceOf
  <1>3. InService'
    BY <1>1, <1>2 DEF InService
  <1>4. \A u \in Threads : Ready(u)' = Ready(u)
    BY DEF Ready
  <1>5. LogKept
    BY Writes, WrittenStamps DEF TypeOK
  <1> QED
    BY <1>3, <1>4, <1>5, StillStates

LEMMA EchoServe ==
  ASSUME NumThreads <= NumQueues, TypeOK, Conserving, OriginBy(bufRecv, sent),
         InService, Outgoing, OneState, [Next]_vars, NEW t \in Threads, Serve(t)
  PROVE  InService' /\ Outgoing' /\ OneState'
  <1> DEFINE r == cur'[t]
             b == r.bufID - NumBufs
  <1>1. /\ TakeRequest(t) /\ ~PacketIn(r.bufID).last
        /\ bufSend' = [bufSend EXCEPT ![b] = bufRecv[b]]
        /\ pc' = [pc EXCEPT ![t] = "postRecv"]
        /\ UNCHANGED <<rq, sq, bufRecv, sent, replies>>
    BY DEF Serve, Goto
  <1>2. /\ r \in Req /\ r.bufID \in OwnBuffers(ConnOf(t)) /\ r.bufID \in Filled
        /\ r.srcQP = PacketIn(r.bufID).src
        /\ \A u \in Threads : u # t => cur'[u] = cur[u]
        /\ pc[t] = "drain"
    BY <1>1, TakenFromSender
  <1>3. /\ pc \in [Threads -> Locations] /\ cur \in [Threads -> Req \cup {NoReq}]
        /\ bufSend \in [SendIds -> 0 .. MaxPackets]
    BY DEF TypeOK, ServerTypeOK, ThreadsTypeOK, VerbsTypeOK
  <1>4. b \in SendIds /\ bufRecv[b] \in 1 .. Len(sent) /\ PacketIn(r.bufID) = sent[bufRecv[b]]
    BY <1>2, RecvToSend DEF Filled, PacketIn
  <1> HIDE DEF r
  <1>5. ASSUME NEW u \in Threads, u # t, cur[u] # NoReq
        PROVE  bufSend'[cur[u].bufID - NumBufs] = bufSend[cur[u].bufID - NumBufs]
    <2>1. cur[u].bufID # r.bufID
      BY <1>2, <1>5, OwnConnections
    <2>2. cur[u].bufID \in RecvIds /\ r.bufID \in RecvIds
      BY <1>2, <1>3, <1>5 DEF Req
    <2>3. cur[u].bufID - NumBufs \in SendIds /\ cur[u].bufID - NumBufs # b
      BY <2>1, <2>2, RecvToSend, BufCount DEF RecvIds
    <2> QED
      BY <1>1, <1>3, <2>3
  <1>6. \A u \in Threads : u # t => InServiceOf(u)'
    BY <1>1, <1>2, <1>3, <1>5, ServiceStays
  <1>7. InServiceOf(t)'
    <2>1. bufSend'[b] = bufRecv'[b] /\ pc'[t] = "postRecv"
      BY <1>1, <1>3, <1>4
    <2>2. Answerable(bufRecv[b], r.srcQP)
      BY <1>1, <1>2, <1>4 DEF Answerable
    <2>3. Answerable(bufRecv[cur[t].bufID - NumBufs], cur[t].srcQP)'
      BY <1>1, <2>2 DEF Answerable, r
    <2> QED
      BY <1>2, <2>1, <2>3 DEF InServiceOf, r
  <1>8. \A u \in Threads : Ready(u)' = Ready(u)
    <2> SUFFICES ASSUME NEW u \in Threads
                 PROVE  Ready(u)' = Ready(u)
      OBVIOUS
    <2>1. CASE u = t
      BY <1>1, <1>2, <1>3, <2>1 DEF Ready
    <2>2. CASE u # t
      <3>1. pc[u] = "postSend" => cur[u] # NoReq
        BY Serving
      <3> QED
        BY <1>1, <1>2, <1>3, <1>5, <2>2, <3>1 DEF Ready
    <2> QED
      BY <2>1, <2>2
  <1>9. LogKept
    BY Writes, WrittenStamps DEF TypeOK
  <1> QED
    BY <1>1, <1>6, <1>7, <1>8, <1>9, StillStates DEF InService


\* Steps of the device leave what the threads serve as it is.
LEMMA EchoDevice ==
  ASSUME TypeOK, Conserving, InService, Outgoing, OneState, [Next]_vars, Device
  PROVE  InService' /\ Outgoing' /\ OneState'
  <1>1. VerbsTypeOK /\ LogKept
    BY Writes, WrittenStamps DEF TypeOK
  <1>2. UNCHANGED <<pc, cur, bufSend>>
    BY DEF Device, NicReceive, NicDrop, NicSend, serverVars, threadVars
  <1>3. InService'
    BY <1>2, ServiceStays DEF InService
  <1>4. ASSUME NEW q \in Queues, NEW pkt \in Packet, NicReceive(q, pkt)
        PROVE  Outgoing' /\ OneState'
    <2>1. \A t \in Threads : Ready(t) \subseteq 1 .. Len(sent)
      BY DEF InService, InServiceOf, Ready, Answerable
    <2>2. IsInjective(rq[q])
      BY DEF Conserving, BuffersConserved, NoRepeats
    <2> QED
      BY <1>1, <1>2, <1>4, <2>1, <2>2, ReceiveStates
  <1>5. ASSUME NEW q \in Queues, NEW pkt \in Packet, NicDrop(q, pkt)
        PROVE  Outgoing' /\ OneState'
    <2>1. UNCHANGED <<rq, sq, bufRecv, replies>>
      BY <1>5 DEF NicDrop
    <2>2. \A u \in Threads : Ready(u)' = Ready(u)
      BY <1>2 DEF Ready
    <2> QED
      BY <1>1, <2>1, <2>2, StillStates
  <1>6. ASSUME NEW q \in Queues, NicSend(q)
        PROVE  Outgoing' /\ OneState'
    BY <1>1, <1>2, <1>6, SendStates
  <1> QED
    BY <1>3, <1>4, <1>5, <1>6 DEF Device

LEMMA EchoPostRecv ==
  ASSUME TypeOK, Conserving, Unique, InService, Outgoing, OneState, [Next]_vars,
         NEW t \in Threads, PostRecv(t)
  PROVE  InService' /\ Outgoing' /\ OneState'
  <1> DEFINE d == cur[t].bufID
  <1>1. /\ pc[t] = "postRecv" /\ pc' = [pc EXCEPT ![t] = "postSend"]
        /\ PostRecvWR(ConnOf(t), d)
        /\ UNCHANGED <<sq, bufRecv, bufSend, sent, replies, cur>>
    BY DEF PostRecv, Goto
  <1>2. pc \in [Threads -> Locations] /\ VerbsTypeOK /\ LogKept
    BY Writes, WrittenStamps DEF TypeOK, ServerTypeOK
  <1>3. d \in RecvIds /\ cur[t] # NoReq
    BY <1>1, Serving
  <1>4. /\ bufSend[d - NumBufs] = bufRecv[d - NumBufs]
        /\ Answerable(bufRecv[d - NumBufs], cur[t].srcQP) /\ d \in OwnBuffers(ConnOf(t))
    BY <1>1, <1>3 DEF InService, InServiceOf
  <1>5. d \in RecvIds \ PostedBufs
    <2> DEFINE x == <<"cur", t, 0>>
    <2>1. x \in Places /\ x[1] # "rq" /\ Held(x) = InHand(t)
      BY PlaceMembers, HeldAt
    <2>2. d \in Held(x)
      BY <1>1, <1>3, <2>1 DEF InHand
    <2> QED
      BY <2>1, <2>2, NotPosted
  <1>6. Outgoing' /\ OneState'
    BY <1>1, <1>2, <1>4, <1>5, PostRecvStates
  <1>7. InService'
    <2>1. \A u \in Threads : u # t => InServiceOf(u)'
      BY <1>1, <1>2, ServiceStays
    <2>2. Answerable(bufSend[cur[t].bufID - NumBufs], cur[t].srcQP)'
      BY <1>1, <1>4 DEF Answerable, d
    <2>3. InServiceOf(t)'
      BY <1>1, <1>2, <1>4, <2>2 DEF InServiceOf, d
    <2> QED
      BY <2>1, <2>3 DEF InService
  <1> QED
    BY <1>6, <1>7

LEMMA EchoPostSend ==
  ASSUME TypeOK, Conserving, InService, Outgoing, OneState, [Next]_vars,
         NEW t \in Threads, PostSend(t)
  PROVE  InService' /\ Outgoing' /\ OneState'
  <1>1. /\ pc[t] = "postSend" /\ pc' = [pc EXCEPT ![t] = "test"]
        /\ cur' = [cur EXCEPT ![t] = NoReq]
        /\ PostSendWR(ConnOf(t), cur[t].srcQP, cur[t].bufID - NumBufs, Signaled(t))
        /\ UNCHANGED <<rq, bufRecv, bufSend, sent, replies>>
    BY DEF PostSend, Goto
  <1>2. /\ pc \in [Threads -> Locations] /\ cur \in [Threads -> Req \cup {NoReq}]
        /\ VerbsTypeOK /\ LogKept
    BY Writes, WrittenStamps DEF TypeOK, ServerTypeOK, ThreadsTypeOK
  <1>3. cur[t] \in Req /\ Answerable(bufSend[cur[t].bufID - NumBufs], cur[t].srcQP)
    BY <1>1, <1>2, Serving DEF InService, InServiceOf
  <1>4. Signaled(t) \in BOOLEAN /\ \A u \in Threads : u # t => cur'[u] = cur[u]
    BY <1>1, <1>2 DEF Signaled
  <1>5. Outgoing' /\ OneState'
    BY <1>1, <1>2, <1>3, <1>4, PostSendStates
  <1>6. InService'
    <2>1. \A u \in Threads : u # t => InServiceOf(u)'
      BY <1>1, <1>2, ServiceStays
    <2>2. InServiceOf(t)'
      BY <1>1, <1>2 DEF InServiceOf
    <2> QED
      BY <2>1, <2>2 DEF InService
  <1> QED
    BY <1>5, <1>6

LEMMA EchoThread ==
  ASSUME NumThreads <= NumQueues, TypeOK, Conserving, Unique, OriginBy(bufRecv, sent),
         InService, Outgoing, OneState, [Next]_vars, NEW t \in Threads, Thread(t)
  PROVE  InService' /\ Outgoing' /\ OneState'
  <1>1. pc \in [Threads -> Locations] /\ cur \in [Threads -> Req \cup {NoReq}]
    BY DEF TypeOK, ServerTypeOK, ThreadsTypeOK
  <1>2. ASSUME NEW l \in Locations \ {"postRecv", "postSend"}, pc' = [pc EXCEPT ![t] = l],
               pc[t] # "postSend", UNCHANGED <<rq, sq, bufRecv, bufSend, replies, cur>>
        PROVE  InService' /\ Outgoing' /\ OneState'
    BY <1>1, <1>2, EchoMove
  <1>3. CASE UNCHANGED <<pc, rq, sq, bufRecv, bufSend, replies, cur>>
    <2>1. InService'
      BY <1>3, ServiceStays DEF InService
    <2>2. \A u \in Threads : Ready(u)' = Ready(u)
      BY <1>3 DEF Ready
    <2>3. LogKept
      BY Writes, WrittenStamps DEF TypeOK
    <2> QED
      BY <1>3, <2>1, <2>2, <2>3, StillStates
  <1>4. CASE Terminate(t)
    <2>1. /\ TakeRequest(t) /\ pc' = [pc EXCEPT ![t] = "exit"]
          /\ UNCHANGED <<rq, sq, bufRecv, bufSend, replies>>
      BY <1>4 DEF Terminate, Goto, verbsVars
    <2>2. /\ cur'[t].bufID \in OwnBuffers(ConnOf(t)) /\ pc[t] = "drain"
          /\ \A u \in Threads : u # t => cur'[u] = cur[u]
      BY <2>1, TakenFromSender
    <2>3. pc'[t] = "exit" /\ \A u \in Threads : u # t => pc'[u] = pc[u]
      BY <1>1, <2>1
    <2> QED
      BY <2>1, <2>2, <2>3, EchoMove
  <1>5. CASE SendCompletion(t) \/ RecvCompletion(t) \/ Crash(t)
    BY <1>3, <1>5 DEF SendCompletion, RecvCompletion, Crash, verbsVars
  <1>6. CASE EnterBarrier(t) \/ LeaveBarrier(t) \/ Poll(t) \/ Idle(t) \/ Exit(t)
    BY <1>2, <1>6 DEF EnterBarrier, LeaveBarrier, Poll, Idle, Exit, Goto, Locations, verbsVars
  <1>7. CASE LoopTest(t)
    BY <1>2, <1>7 DEF LoopTest, Goto, Locations, verbsVars
  <1> QED
    BY <1>4, <1>5, <1>6, <1>7, EchoServe, EchoPostRecv, EchoPostSend DEF Thread

LEMMA EchoNext ==
  ASSUME NumThreads <= NumQueues, TypeOK, Conserving, Echo, [Next]_vars
  PROVE  Echo'
  <1>1. /\ NoneAhead /\ Unique /\ OriginBy(bufRecv, sent)
        /\ InService /\ Outgoing /\ OneState
    BY DEF Echo
  <1>2. NoneAhead' /\ Unique' /\ OriginBy(bufRecv, sent)'
    BY <1>1, Writes, WrittenStamps, OriginNext DEF TypeOK
  <1>3. CASE Device
    BY <1>1, <1>2, <1>3, EchoDevice DEF Echo
  <1>4. CASE \E t \in Threads : Thread(t)
    BY <1>1, <1>2, <1>4, EchoThread DEF Echo
  <1>5. CASE UNCHANGED vars
    <2>1. UNCHANGED <<pc, rq, sq, bufRecv, bufSend, replies, cur>>
      BY <1>5 DEF vars, verbsVars, serverVars, threadVars
    <2>2. InService'
      BY <1>1, <2>1, ServiceStays DEF InService
    <2>3. \A u \in Threads : Ready(u)' = Ready(u)
      BY <2>1 DEF Ready
    <2>4. LogKept
      BY Writes, WrittenStamps DEF TypeOK
    <2> QED
      BY <1>1, <1>2, <2>1, <2>2, <2>3, <2>4, StillStates DEF Echo
  <1> QED
    BY <1>3, <1>4, <1>5 DEF Next, AtRest

LEMMA EchoInit == Init => Echo
  <1> SUFFICES ASSUME Init
               PROVE  Echo
    OBVIOUS
  <1>1. NoneAhead
    BY ArrivalInit DEF Arrival
  <1>2. /\ bufRecv = [b \in SendIds |-> 0] /\ sent = <<>>
        /\ cq = [q \in Queues |-> <<>>] /\ sq = [q \in Queues |-> <<>>]
        /\ replies = [i \in PacketIds |-> <<>>]
        /\ wc = [t \in Threads |-> <<>>] /\ pc = [t \in Threads |-> "init"]
        /\ metaCQ = [t \in Threads |-> [p \in Priorities |-> <<>>]]
        /\ cur = [t \in Threads |-> NoReq]
    BY DEF Init, VerbsInit, ThreadsInit
  <1>3. Unique
    BY <1>2 DEF Unique
  <1>4. OriginBy(bufRecv, sent)
    BY <1>2 DEF OriginBy, RecvsFrom, BufsFrom
  <1>5. InService
    BY <1>2 DEF InService, InServiceOf
  <1>6. Answered = {} /\ (\A t \in Threads : Ready(t) = {}) /\ \A q \in Queues : PktsIn(sq[q]) = {}
    BY <1>2 DEF Answered, Ready, PktsIn
  <1>7. Outgoing
    BY <1>2, <1>6 DEF Outgoing
  <1>8. OneState
    BY <1>2, <1>6 DEF OneState
  <1> QED
    BY <1>1, <1>3, <1>4, <1>5, <1>7, <1>8 DEF Echo

\* No packet is answered twice, no response goes to a client that did not send the
\* packet in it, and the terminate packet is not answered, when every thread has a
\* connection of its own: PostRecv returns the buffer to the device before PostSend reads
\* buf_send, and only the thread that polls the connection can overwrite it in between.
THEOREM EchoCorrect ==
  ASSUME NumThreads <= NumQueues
  PROVE  Spec => []EchoOnce
  <1> DEFINE Inv == TypeOK /\ Conserving /\ Echo
  <1>1. Init => Inv
    BY TypeInit, ConserveInit, EchoInit
  <1>2. Inv /\ [Next]_vars => Inv'
    BY TypeNext, ConserveNext, EchoNext
  <1>3. Inv => EchoOnce
    <2>1. Outgoing => EchoOnce
      BY DEF Outgoing, Answered, Answerable, EchoOnce
    <2> QED
      BY <2>1 DEF Echo
  <1> HIDE DEF Inv
  <1> QED
    BY <1>1, <1>2, <1>3, PTL DEF Spec

=============================================================================
