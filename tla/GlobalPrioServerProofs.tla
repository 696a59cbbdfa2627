----------------------- MODULE GlobalPrioServerProofs -----------------------
(***************************************************************************)
(* Proofs about GlobalPrioServer for every number of groups, threads,      *)
(* connections, buffers, priorities, clients and packets.                  *)
(*                                                                         *)
(* The proofs have four layers.  The first is what the mutex gives: at     *)
(* most one thread of a group is between lock and unlock, so what it has   *)
(* read of the shared lists is still there when it acts on it.  The second *)
(* is that a buffer is in one place only, so the device writes into none   *)
(* that a request names.  The third is what the shared lists hold, and the *)
(* fourth follows each packet from its buffer to the response.             *)
(***************************************************************************)
EXTENDS GlobalPrioServer, ServerLemmas

-----------------------------------------------------------------------------
(* Groups. *)

LEMMA Division ==
  ASSUME NEW a \in Nat, NEW b \in Nat \ {0}
  PROVE  a = b * (a \div b) + (a % b)
  OBVIOUS

LEMMA DivisionType ==
  ASSUME NEW a \in Nat, NEW b \in Nat \ {0}
  PROVE  a \div b \in Nat /\ a % b \in Nat
  OBVIOUS

\* GroupOf numbers the groups without a gap beyond the last.
LEMMA GroupInRange == \A t \in Threads : GroupOf(t) \in Groups
  <1> SUFFICES ASSUME NEW t \in Threads
               PROVE  GroupOf(t) \in Groups
    OBVIOUS
  <1> DEFINE k == NumThreads \div NumGroups
             g == t \div k
  <1>1. /\ NumThreads \in Nat \ {0} /\ NumGroups \in Nat \ {0} /\ NumThreads % NumGroups = 0
        /\ t \in Nat /\ t < NumThreads
    BY ServerAssumption, GroupAssumption DEF Threads
  <1>2. k \in Nat /\ NumThreads = NumGroups * k
    <2>1. k \in Nat
      BY <1>1, DivisionType
    <2>2. NumThreads = NumGroups * k + (NumThreads % NumGroups)
      BY <1>1, Division
    <2>3. NumGroups * k \in Nat
      BY <1>1, <2>1
    <2> HIDE DEF k
    <2> QED
      BY <1>1, <2>1, <2>2, <2>3
  <1>3. k \in Nat \ {0}
    BY <1>1, <1>2
  <1> HIDE DEF k
  <1>4. g \in Nat /\ k * g <= t
    <2>1. g \in Nat /\ t % k \in Nat
      BY <1>1, <1>3, DivisionType
    <2>2. t = k * g + (t % k)
      BY <1>1, <1>3, Division
    <2>3. k * g \in Nat
      BY <1>3, <2>1
    <2> HIDE DEF g
    <2> QED
      BY <2>1, <2>2, <2>3
  <1> HIDE DEF g
  <1>5. g < NumGroups
    <2>1. ASSUME g >= NumGroups
          PROVE  FALSE
      <3>1. k * g >= k * NumGroups
        BY <1>1, <1>3, <1>4, <2>1
      <3>2. k * g < k * NumGroups
        BY <1>1, <1>2, <1>3, <1>4
      <3> QED
        BY <1>1, <1>3, <1>4, <3>1, <3>2
    <2> QED
      BY <1>1, <1>4, <2>1
  <1> QED
    BY <1>1, <1>4, <1>5 DEF Groups, GroupOf, g, k

-----------------------------------------------------------------------------
(* Places. *)

\* What each place holds, before and after a step.
LEMMA HeldAt ==
  /\ \A q, k : Held(<<"rq", q, k>>) = Range(rq[q]) /\ Held(<<"rq", q, k>>)' = Range(rq'[q])
  /\ \A q, k : Held(<<"cq", q, k>>) = RecvsIn(cq[q]) /\ Held(<<"cq", q, k>>)' = RecvsIn(cq'[q])
  /\ \A t, k : Held(<<"wc", t, k>>) = RecvsIn(wc[t]) /\ Held(<<"wc", t, k>>)' = RecvsIn(wc'[t])
  /\ \A t, k : Held(<<"cur", t, k>>) = InHand(t) /\ Held(<<"cur", t, k>>)' = InHand(t)'
  /\ \A g, p : /\ Held(<<"meta", g, p>>) = BufsIn(metaCQ[g][p])
               /\ Held(<<"meta", g, p>>)' = BufsIn(metaCQ'[g][p])
  BY DEF Held, RecvsIn, IsRecv, BufsIn

LEMMA PlaceKinds ==
  ASSUME NEW x \in Places
  PROVE  \/ \E q \in Queues : x = <<"rq", q, 0>>
         \/ \E q \in Queues : x = <<"cq", q, 0>>
         \/ \E t \in Threads : x = <<"wc", t, 0>>
         \/ \E t \in Threads : x = <<"cur", t, 0>>
         \/ \E g \in Groups : \E p \in Priorities : x = <<"meta", g, p>>
  BY DEF Places

LEMMA PlaceMembers ==
  /\ \A q \in Queues : <<"rq", q, 0>> \in Places /\ <<"cq", q, 0>> \in Places
  /\ \A t \in Threads : <<"wc", t, 0>> \in Places /\ <<"cur", t, 0>> \in Places
  /\ \A g \in Groups : \A p \in Priorities : <<"meta", g, p>> \in Places
  BY DEF Places

\* The filled buffers, place by place.
AllFilled == \A x \in Places : x[1] # "rq" => Held(x) \subseteq Filled

LEMMA FilledPlaces ==
  ASSUME AllFilled
  PROVE  /\ \A q \in Queues : RecvsIn(cq[q]) \subseteq Filled
         /\ \A t \in Threads : RecvsIn(wc[t]) \subseteq Filled
         /\ \A t \in Threads : InHand(t) \subseteq Filled
         /\ \A g \in Groups : \A p \in Priorities : BufsIn(metaCQ[g][p]) \subseteq Filled
  BY HeldAt, PlaceMembers DEF AllFilled

LEMMA FilledPlacesNext ==
  ASSUME \A q \in Queues : RecvsIn(cq'[q]) \subseteq Filled',
         \A t \in Threads : RecvsIn(wc'[t]) \subseteq Filled',
         \A t \in Threads : InHand(t)' \subseteq Filled',
         \A g \in Groups : \A p \in Priorities : BufsIn(metaCQ'[g][p]) \subseteq Filled'
  PROVE  AllFilled'
  <1> SUFFICES ASSUME NEW x \in Places, x[1] # "rq"
               PROVE  Held(x)' \subseteq Filled'
    BY DEF AllFilled
  <1> QED
    BY HeldAt, PlaceKinds

-----------------------------------------------------------------------------
(* The first layer: types, the mutex and what a thread holds where. *)

ServerTypes ==
  /\ ThreadsTypeOK
  /\ pc \in [Threads -> Locations]
  /\ metaCQ \in [Groups -> [Priorities -> Seq(Req)]]
  /\ skipList \in [Groups -> SUBSET Priorities]
  /\ skipListMutex \in [Groups -> SUBSET Threads]
  /\ priority \in [Threads -> Priorities \cup {-1}]

\* A thread is in its critical section between lock and unlock, alone of its group.
Critical == {"filing", "taking"}
Locking ==
  /\ \A t \in Threads : t \in skipListMutex[GroupOf(t)] <=> pc[t] \in Critical
  /\ \A g \in Groups : \A t, u \in skipListMutex[g] : t = u

Chosen(t) == metaCQ[GroupOf(t)][priority[t]]

\* A thread has polled completions only while it files them, and a request while it
\* serves it; the request it has chosen is the first of its list until it is popped.
Holding ==
  \A t \in Threads :
    /\ pc[t] = "filing" => wc[t] # <<>> /\ IsRecv(Head(wc[t]))
    /\ wc[t] # <<>> => pc[t] \in {"drain", "filing"}
    /\ pc[t] \in {"taking", "serve", "postRecv", "postSend"} => cur[t] # NoReq
    /\ cur[t] # NoReq => pc[t] \in {"taking", "serve", "postRecv", "postSend", "exit", "done"}
    /\ pc[t] = "taking" =>
         priority[t] \in Priorities /\ Chosen(t) # <<>> /\ cur[t] = Head(Chosen(t))

Sound == VerbsTypeOK /\ ServerTypes /\ AllFilled /\ Locking /\ Holding

LEMMA SoundTypes == Sound => TypeOK
  BY DEF Sound, TypeOK, ServerTypes, AllFilled

LEMMA SoundInit == Init => Sound
  <1> SUFFICES ASSUME Init
               PROVE  Sound
    OBVIOUS
  <1>1. VerbsTypeOK
    BY VerbsInitType DEF Init
  <1>2. ServerTypes
    <2>1. /\ wc \in [Threads -> Seq(Completion)]
          /\ metaCQ \in [Groups -> [Priorities -> Seq(Req)]]
      BY DEF Init, ThreadsInit
    <2>2. /\ pc \in [Threads -> Locations]
          /\ skipList \in [Groups -> SUBSET Priorities]
          /\ skipListMutex \in [Groups -> SUBSET Threads]
          /\ priority \in [Threads -> Priorities \cup {-1}]
          /\ cur \in [Threads -> Req \cup {NoReq}]
          /\ rcnt \in [Queues -> Nat]
          /\ terminateRun \in BOOLEAN
          /\ device \in {"open", "closed", "crashed"}
      BY DEF Init, ThreadsInit, Locations
    <2> QED
      BY <2>1, <2>2 DEF ServerTypes, ThreadsTypeOK
  <1>3. Locking
    BY GroupInRange DEF Init, ThreadsInit, Locking, Critical
  <1>4. Holding
    BY DEF Init, ThreadsInit, Holding
  <1>5. AllFilled
    <2> SUFFICES ASSUME NEW x \in Places, x[1] # "rq"
                 PROVE  Held(x) = {}
      BY DEF AllFilled
    <2>1. /\ \A q \in Queues : RecvsIn(cq[q]) = {}
          /\ \A t \in Threads : RecvsIn(wc[t]) = {}
          /\ \A g \in Groups : \A p \in Priorities : BufsIn(metaCQ[g][p]) = {}
      BY DEF Init, ThreadsInit, VerbsInit, RecvsIn, BufsIn
    <2>2. \A t \in Threads : InHand(t) = {}
      BY DEF Init, ThreadsInit, InHand
    <2> QED
      BY <2>1, <2>2, HeldAt, PlaceKinds
  <1> QED
    BY <1>1, <1>2, <1>3, <1>4, <1>5 DEF Sound

\* The device changes nothing the threads keep.
LEMMA SoundDevice ==
  ASSUME Sound, VerbsTypeOK', UNCHANGED serverVars, Filled \subseteq Filled',
         \A q \in Queues : RecvsIn(cq'[q]) \subseteq Filled'
  PROVE  Sound'
  <1>1. /\ UNCHANGED <<pc, wc, cur, rcnt, terminateRun, device>>
        /\ UNCHANGED <<metaCQ, skipList, skipListMutex, priority>>
    BY DEF serverVars, threadVars
  <1>2. ServerTypes'
    BY <1>1 DEF Sound, ServerTypes, ThreadsTypeOK
  <1>3. Locking' /\ Holding'
    BY <1>1 DEF Sound, Locking, Holding, Chosen
  <1>4. \A t \in Threads : InHand(t)' = InHand(t)
    BY <1>1 DEF InHand
  <1>5. AllFilled'
    BY <1>1, <1>4, FilledPlaces, FilledPlacesNext DEF Sound
  <1> QED
    BY <1>2, <1>3, <1>5 DEF Sound

\* Steps that move a thread and leave the queues and the requests alone.
LEMMA SoundMove ==
  ASSUME Sound, NEW t \in Threads, NEW l \in {"barrier", "test", "poll", "exit", "done"},
         pc' = [pc EXCEPT ![t] = l], pc[t] \notin {"filing", "taking", "postSend"},
         wc[t] = <<>>, cur[t] # NoReq => l \in {"exit", "done"},
         rcnt' \in [Queues -> Nat], terminateRun' \in BOOLEAN,
         device' \in {"open", "closed", "crashed"},
         UNCHANGED <<verbsVars, wc, cur, metaCQ, skipList, skipListMutex, priority>>
  PROVE  Sound'
  <1>1. pc \in [Threads -> Locations]
    BY DEF Sound, ServerTypes
  <1>2. VerbsTypeOK'
    BY DEF Sound, VerbsTypeOK, verbsVars
  <1>3. ServerTypes'
    BY DEF Sound, ServerTypes, ThreadsTypeOK, Locations
  <1>4. Locking' /\ Holding'
    BY <1>1 DEF Sound, Locking, Holding, Chosen, Critical
  <1>5. \A u \in Threads : InHand(u)' = InHand(u)
    BY <1>1 DEF InHand
  <1>6. UNCHANGED <<cq, wc, metaCQ>> /\ Filled' = Filled
    BY DEF verbsVars, Filled
  <1>7. AllFilled'
    BY <1>5, <1>6, FilledPlaces, FilledPlacesNext DEF Sound
  <1> QED
    BY <1>2, <1>3, <1>4, <1>7 DEF Sound


LEMMA SoundPoll ==
  ASSUME Sound, NEW t \in Threads, Poll(t)
  PROVE  Sound'
  <1> DEFINE q == ConnOf(t)
             a == Polled(q)
             l == IF a = <<>> THEN "test" ELSE "drain"
  <1>1. /\ PollCq(q) /\ wc' = [wc EXCEPT ![t] = a]
        /\ UNCHANGED <<rq, sq, bufRecv, bufSend, sent, replies>>
        /\ UNCHANGED <<metaCQ, skipList, skipListMutex, priority, cur, rcnt, terminateRun, device>>
        /\ pc' = [pc EXCEPT ![t] = l] /\ pc[t] = "poll"
    BY DEF Poll, Goto
  <1>2. /\ VerbsTypeOK' /\ Filled' = Filled /\ a \in Seq(Completion) /\ q \in Queues
        /\ \A r \in Queues : r # q => cq'[r] = cq[r]
        /\ RecvsIn(cq[q]) = RecvsIn(a) \cup RecvsIn(cq'[q])
    BY <1>1, VerbsPoll DEF Sound
  <1> HIDE DEF q, a
  <1>3. /\ pc \in [Threads -> Locations] /\ wc \in [Threads -> Seq(Completion)]
        /\ l \in {"test", "drain"} /\ (a # <<>> => l = "drain")
    BY DEF Sound, ServerTypes, ThreadsTypeOK
  <1> HIDE DEF l
  <1>4. ServerTypes'
    BY <1>1, <1>2, <1>3 DEF Sound, ServerTypes, ThreadsTypeOK, Locations
  <1>5. Locking' /\ Holding'
    BY <1>1, <1>3 DEF Sound, Locking, Holding, Chosen, Critical
  <1>6. \A u \in Threads : InHand(u)' = InHand(u)
    BY <1>1, <1>3 DEF InHand
  <1>7. /\ \A r \in Queues : RecvsIn(cq'[r]) \subseteq Filled
        /\ \A u \in Threads : RecvsIn(wc'[u]) \subseteq Filled
    BY <1>1, <1>2, <1>3, FilledPlaces DEF Sound
  <1>8. AllFilled'
    BY <1>1, <1>2, <1>6, <1>7, FilledPlaces, FilledPlacesNext DEF Sound
  <1> QED
    BY <1>2, <1>4, <1>5, <1>8 DEF Sound

LEMMA SoundSendCompletion ==
  ASSUME Sound, NEW t \in Threads, SendCompletion(t)
  PROVE  Sound'
  <1>1. /\ pc[t] = "drain" /\ wc[t] # <<>> /\ wc' = [wc EXCEPT ![t] = Tail(wc[t])]
        /\ UNCHANGED <<verbsVars, pc, cur, rcnt, terminateRun, device>>
        /\ UNCHANGED <<metaCQ, skipList, skipListMutex, priority>>
    BY DEF SendCompletion
  <1>2. wc \in [Threads -> Seq(Completion)] /\ pc \in [Threads -> Locations]
    BY DEF Sound, ServerTypes, ThreadsTypeOK
  <1>3. Tail(wc[t]) \in Seq(Completion) /\ RecvsIn(Tail(wc[t])) \subseteq RecvsIn(wc[t])
    BY <1>1, <1>2, RecvsTail
  <1>4. VerbsTypeOK'
    BY <1>1 DEF Sound, VerbsTypeOK, verbsVars
  <1>5. ServerTypes'
    BY <1>1, <1>2, <1>3 DEF Sound, ServerTypes, ThreadsTypeOK
  <1>6. Locking' /\ Holding'
    BY <1>1, <1>2 DEF Sound, Locking, Holding, Chosen, Critical
  <1>7. /\ UNCHANGED <<cq, metaCQ>> /\ Filled' = Filled
        /\ \A u \in Threads : InHand(u)' = InHand(u)
    BY <1>1 DEF verbsVars, Filled, InHand
  <1>8. \A u \in Threads : RecvsIn(wc'[u]) \subseteq Filled
    BY <1>1, <1>2, <1>3, FilledPlaces DEF Sound
  <1>9. AllFilled'
    BY <1>7, <1>8, FilledPlaces, FilledPlacesNext DEF Sound
  <1> QED
    BY <1>4, <1>5, <1>6, <1>9 DEF Sound

\* The priority of the request that a thread is about to file.
Filing(t) == PacketIn(Head(wc[t]).wr_id).prio

LEMMA FilingPriority ==
  ASSUME Sound, NEW t \in Threads, wc[t] # <<>>, IsRecv(Head(wc[t]))
  PROVE  /\ Filing(t) \in Priorities /\ Head(wc[t]) \in Completion
         /\ Head(wc[t]).wr_id \in RecvIds /\ Head(wc[t]).wr_id \in RecvsIn(wc[t])
         /\ Head(wc[t]).src_qp \in Sources
  <1> DEFINE c == Head(wc[t])
  <1>1. wc[t] \in Seq(Completion) /\ VerbsTypeOK /\ AllFilled
    BY DEF Sound, ServerTypes, ThreadsTypeOK
  <1>2. c \in Completion /\ c.wr_id \in RecvsIn(wc[t])
    BY <1>1, RecvsTail
  <1>3. c.wr_id \in RecvIds /\ c.wr_id \in Filled
    BY <1>1, <1>2, RecvsType, FilledPlaces
  <1>4. PacketIn(c.wr_id) \in Packet
    BY <1>1, <1>3, FilledPacket
  <1>5. Filing(t) \in Priorities
    BY <1>4 DEF Packet, Filing
  <1> QED
    BY <1>2, <1>3, <1>5 DEF Completion

LEMMA SoundInsertPriority ==
  ASSUME Sound, NEW t \in Threads, InsertPriority(t)
  PROVE  Sound'
  <1> DEFINE g == GroupOf(t)
  <1>1. /\ pc[t] = "drain" /\ wc[t] # <<>> /\ IsRecv(Head(wc[t]))
        /\ pc' = [pc EXCEPT ![t] = "filing"]
        /\ skipListMutex[g] = {} /\ skipListMutex' = [skipListMutex EXCEPT ![g] = {t}]
        /\ skipList' = [skipList EXCEPT ![g] = @ \cup {Filing(t)}]
        /\ UNCHANGED <<verbsVars, wc, cur, rcnt, terminateRun, device, metaCQ, priority>>
    BY DEF InsertPriority, Lock, Goto, Filing
  <1>2. Filing(t) \in Priorities /\ g \in Groups
    BY <1>1, FilingPriority, GroupInRange
  <1>3. /\ pc \in [Threads -> Locations] /\ skipListMutex \in [Groups -> SUBSET Threads]
        /\ skipList \in [Groups -> SUBSET Priorities]
    BY DEF Sound, ServerTypes
  <1> HIDE DEF g
  <1>4. VerbsTypeOK'
    BY <1>1 DEF Sound, VerbsTypeOK, verbsVars
  <1>5. ServerTypes'
    BY <1>1, <1>2, <1>3 DEF Sound, ServerTypes, ThreadsTypeOK, Locations
  <1>6. Locking'
    BY <1>1, <1>2, <1>3, GroupInRange DEF Sound, Locking, Critical, g
  <1>7. Holding'
    BY <1>1, <1>3 DEF Sound, Holding, Chosen
  <1>8. /\ UNCHANGED <<cq, wc, metaCQ>> /\ Filled' = Filled
        /\ \A u \in Threads : InHand(u)' = InHand(u)
    BY <1>1, <1>3 DEF verbsVars, Filled, InHand
  <1>9. AllFilled'
    BY <1>8, FilledPlaces, FilledPlacesNext DEF Sound
  <1> QED
    BY <1>4, <1>5, <1>6, <1>7, <1>9 DEF Sound

\* What EmplaceRequest does: it files request r under priority p.
FiledAs(t, p, r) ==
  /\ pc[t] = "filing" /\ wc[t] # <<>> /\ IsRecv(Head(wc[t]))
  /\ r.bufID = Head(wc[t]).wr_id /\ r.srcQP = Head(wc[t]).src_qp /\ p = Filing(t)
  /\ metaCQ' \in [Groups -> [Priorities -> Seq(Req)]]
  /\ \A h \in Groups : \A o \in Priorities : metaCQ'[h][o] =
       IF h = GroupOf(t) /\ o = p THEN Append(metaCQ[h][p], r) ELSE metaCQ[h][o]
  /\ wc' = [wc EXCEPT ![t] = Tail(wc[t])]
  /\ skipListMutex' = [skipListMutex EXCEPT ![GroupOf(t)] = @ \ {t}]
  /\ pc' = [pc EXCEPT ![t] = "drain"]
  /\ UNCHANGED <<verbsVars, cur, rcnt, terminateRun, device, skipList, priority>>

LEMMA Emplacing ==
  ASSUME Sound, NEW t \in Threads, EmplaceRequest(t)
  PROVE  \E p \in Priorities : \E r \in Req : FiledAs(t, p, r)
  <1> DEFINE c == Head(wc[t])
             p == Filing(t)
             g == GroupOf(t)
             r == [bufID |-> c.wr_id, srcQP |-> c.src_qp]
  <1>1. pc[t] = "filing" /\ wc[t] # <<>> /\ IsRecv(c)
    BY DEF Sound, Holding, EmplaceRequest
  <1>2. /\ p \in Priorities /\ c.wr_id \in RecvIds /\ c.src_qp \in Sources /\ g \in Groups
    BY <1>1, FilingPriority, GroupInRange
  <1>3. r \in Req /\ r.bufID = c.wr_id /\ r.srcQP = c.src_qp
    BY <1>2 DEF Req
  <1>4. /\ metaCQ' = [metaCQ EXCEPT ![g][p] = Append(metaCQ[g][p], r)]
        /\ wc' = [wc EXCEPT ![t] = Tail(wc[t])]
        /\ skipListMutex' = [skipListMutex EXCEPT ![g] = @ \ {t}]
        /\ pc' = [pc EXCEPT ![t] = "drain"]
        /\ UNCHANGED <<verbsVars, cur, rcnt, terminateRun, device, skipList, priority>>
    BY DEF EmplaceRequest, Enlist, Filing, Unlock, Goto
  <1> HIDE DEF p, r, g
  <1>5. metaCQ \in [Groups -> [Priorities -> Seq(Req)]]
    BY DEF Sound, ServerTypes
  <1>6. Append(metaCQ[g][p], r) \in Seq(Req)
    BY <1>2, <1>3, <1>5, AppendProperties
  <1>7. /\ metaCQ' \in [Groups -> [Priorities -> Seq(Req)]]
        /\ \A h \in Groups : \A o \in Priorities : metaCQ'[h][o] =
             IF h = g /\ o = p THEN Append(metaCQ[g][p], r) ELSE metaCQ[h][o]
    BY <1>2, <1>4, <1>5, <1>6, ReplaceList
  <1>8. FiledAs(t, p, r)
    BY <1>1, <1>3, <1>4, <1>7 DEF FiledAs, p, g
  <1> QED
    BY <1>2, <1>3, <1>8

\* While a thread is in its critical section no other thread of its group is.
LEMMA Alone ==
  ASSUME Locking, NEW t \in Threads, pc[t] \in Critical,
         NEW u \in Threads, pc[u] \in Critical, GroupOf(u) = GroupOf(t)
  PROVE  u = t
  BY GroupInRange DEF Locking

\* Leaving the critical section.
LEMMA Unlocking ==
  ASSUME Locking, skipListMutex \in [Groups -> SUBSET Threads], pc \in [Threads -> Locations],
         NEW t \in Threads, pc[t] \in Critical, NEW l \in Locations \ Critical,
         pc' = [pc EXCEPT ![t] = l],
         skipListMutex' = [skipListMutex EXCEPT ![GroupOf(t)] = @ \ {t}]
  PROVE  /\ Locking' /\ skipListMutex' \in [Groups -> SUBSET Threads]
         /\ skipListMutex'[GroupOf(t)] = {}
  <1>1. GroupOf(t) \in Groups
    BY GroupInRange
  <1>2. skipListMutex[GroupOf(t)] = {t}
    BY <1>1 DEF Locking
  <1>3. skipListMutex' = [skipListMutex EXCEPT ![GroupOf(t)] = {}]
    BY <1>2
  <1> QED
    BY <1>1, <1>2, <1>3, GroupInRange DEF Locking

LEMMA SoundEmplaceRequest ==
  ASSUME Sound, NEW t \in Threads, EmplaceRequest(t)
  PROVE  Sound'
  <1>0. PICK p \in Priorities, r \in Req : FiledAs(t, p, r)
    BY Emplacing
  <1> DEFINE g == GroupOf(t)
             m == metaCQ[g][p]
  <1>1. /\ pc[t] = "filing" /\ wc[t] # <<>> /\ IsRecv(Head(wc[t]))
        /\ r.bufID = Head(wc[t]).wr_id
        /\ metaCQ' \in [Groups -> [Priorities -> Seq(Req)]]
        /\ \A h \in Groups : \A o \in Priorities : metaCQ'[h][o] =
             IF h = g /\ o = p THEN Append(m, r) ELSE metaCQ[h][o]
        /\ wc' = [wc EXCEPT ![t] = Tail(wc[t])]
        /\ skipListMutex' = [skipListMutex EXCEPT ![g] = @ \ {t}]
        /\ pc' = [pc EXCEPT ![t] = "drain"]
        /\ UNCHANGED <<verbsVars, cur, rcnt, terminateRun, device, skipList, priority>>
    BY <1>0 DEF FiledAs
  <1>2. /\ wc \in [Threads -> Seq(Completion)] /\ pc \in [Threads -> Locations]
        /\ m \in Seq(Req) /\ g \in Groups /\ skipListMutex \in [Groups -> SUBSET Threads]
        /\ Locking
    BY GroupInRange DEF Sound, ServerTypes, ThreadsTypeOK
  <1> HIDE DEF g, m
  <1>3. /\ Tail(wc[t]) \in Seq(Completion) /\ RecvsIn(Tail(wc[t])) \subseteq RecvsIn(wc[t])
        /\ r.bufID \in RecvsIn(wc[t])
    BY <1>1, <1>2, RecvsTail
  <1>4. BufsIn(Append(m, r)) = BufsIn(m) \cup {r.bufID}
    BY <1>2, BufsAppend
  <1>5. VerbsTypeOK'
    BY <1>1 DEF Sound, VerbsTypeOK, verbsVars
  <1>6. Locking' /\ skipListMutex' \in [Groups -> SUBSET Threads]
    BY <1>1, <1>2, Unlocking DEF Critical, Locations, g
  <1>7. ServerTypes'
    BY <1>1, <1>2, <1>3, <1>6 DEF Sound, ServerTypes, ThreadsTypeOK, Locations
  <1>8. ASSUME NEW u \in Threads, pc'[u] = "taking"
        PROVE  pc[u] = "taking" /\ metaCQ'[GroupOf(u)] = metaCQ[GroupOf(u)]
    <2>1. pc[u] = "taking" /\ u # t
      BY <1>1, <1>2, <1>8
    <2>2. GroupOf(u) \in Groups /\ GroupOf(u) # g
      BY <1>1, <1>2, <2>1, Alone, GroupInRange DEF Critical, g
    <2>3. /\ metaCQ[GroupOf(u)] \in [Priorities -> Seq(Req)]
          /\ metaCQ'[GroupOf(u)] \in [Priorities -> Seq(Req)]
          /\ \A o \in Priorities : metaCQ'[GroupOf(u)][o] = metaCQ[GroupOf(u)][o]
      BY <1>1, <2>2 DEF Sound, ServerTypes
    <2> QED
      BY <2>1, <2>3
  <1>9. Holding'
    <2>1. \A u \in Threads : pc'[u] = "taking" => Chosen(u)' = Chosen(u)
      BY <1>1, <1>8 DEF Chosen
    <2> QED
      BY <1>1, <1>2, <1>8, <2>1 DEF Sound, Holding
  <1>10. /\ UNCHANGED cq /\ Filled' = Filled
         /\ \A u \in Threads : InHand(u)' = InHand(u)
    BY <1>1, <1>2 DEF verbsVars, Filled, InHand
  <1>11. \A u \in Threads : RecvsIn(wc'[u]) \subseteq Filled
    BY <1>1, <1>2, <1>3, FilledPlaces DEF Sound
  <1>12. \A h \in Groups : \A o \in Priorities : BufsIn(metaCQ'[h][o]) \subseteq Filled
    <2> TAKE h \in Groups
    <2> TAKE o \in Priorities
    <2>0. RecvsIn(wc[t]) \subseteq Filled /\ BufsIn(metaCQ[h][o]) \subseteq Filled
      BY FilledPlaces DEF Sound
    <2>1. CASE h = g /\ o = p
      <3>1. metaCQ'[h][o] = Append(m, r) /\ m = metaCQ[h][o]
        BY <1>1, <2>1 DEF m
      <3> QED
        BY <1>3, <1>4, <2>0, <3>1
    <2>2. CASE ~(h = g /\ o = p)
      <3>1. metaCQ'[h][o] = metaCQ[h][o]
        BY <1>1, <2>2
      <3> QED
        BY <2>0, <3>1
    <2> QED
      BY <2>1, <2>2
  <1>13. AllFilled'
    BY <1>10, <1>11, <1>12, FilledPlaces, FilledPlacesNext DEF Sound
  <1> QED
    BY <1>5, <1>6, <1>7, <1>9, <1>13 DEF Sound


\* What ChooseRequest does: it reads the first request of the most urgent priority p.
ChosenFrom(t, p) ==
  /\ pc[t] = "drain" /\ wc[t] = <<>>
  /\ p \in skipList[GroupOf(t)] /\ \A x \in skipList[GroupOf(t)] : p <= x
  /\ metaCQ[GroupOf(t)][p] # <<>>
  /\ priority' = [priority EXCEPT ![t] = p]
  /\ cur' = [cur EXCEPT ![t] = Head(metaCQ[GroupOf(t)][p])]
  /\ skipListMutex[GroupOf(t)] = {}
  /\ skipListMutex' = [skipListMutex EXCEPT ![GroupOf(t)] = {t}]
  /\ pc' = [pc EXCEPT ![t] = "taking"]
  /\ UNCHANGED <<verbsVars, wc, rcnt, terminateRun, device, metaCQ, skipList>>

LEMMA Choosing ==
  ASSUME Sound, NEW t \in Threads, ChooseRequest(t)
  PROVE  \E p \in Priorities : ChosenFrom(t, p)
  <1> DEFINE S == skipList[GroupOf(t)]
             p == First(S)
  <1>1. S \subseteq Priorities /\ S # {}
    BY GroupInRange DEF Sound, ServerTypes, ChooseRequest
  <1>2. p \in S /\ p \in Priorities /\ \A x \in S : p <= x
    BY <1>1, FirstIsLeast
  <1>3. ChosenFrom(t, p)
    BY <1>2 DEF ChooseRequest, ChosenFrom, Lock, Goto
  <1> QED
    BY <1>2, <1>3

LEMMA SoundChooseRequest ==
  ASSUME Sound, NEW t \in Threads, ChooseRequest(t)
  PROVE  Sound'
  <1>0. PICK p \in Priorities : ChosenFrom(t, p)
    BY Choosing
  <1> DEFINE g == GroupOf(t)
             m == metaCQ[g][p]
  <1>1. /\ pc[t] = "drain" /\ wc[t] = <<>> /\ m # <<>>
        /\ priority' = [priority EXCEPT ![t] = p]
        /\ cur' = [cur EXCEPT ![t] = Head(m)]
        /\ skipListMutex[g] = {} /\ skipListMutex' = [skipListMutex EXCEPT ![g] = {t}]
        /\ pc' = [pc EXCEPT ![t] = "taking"]
        /\ UNCHANGED <<verbsVars, wc, rcnt, terminateRun, device, metaCQ, skipList>>
    BY <1>0 DEF ChosenFrom
  <1>2. /\ pc \in [Threads -> Locations] /\ skipListMutex \in [Groups -> SUBSET Threads]
        /\ priority \in [Threads -> Priorities \cup {-1}]
        /\ cur \in [Threads -> Req \cup {NoReq}] /\ g \in Groups /\ m \in Seq(Req)
    BY GroupInRange DEF Sound, ServerTypes, ThreadsTypeOK
  <1>3. Head(m) \in Req /\ Head(m) # NoReq
    BY ZenonT(60), <1>1, <1>2, BufsTail, ServerAssumption DEF Req
  <1>4. cur[t] = NoReq
    BY <1>1 DEF Sound, Holding
  <1>5. m = metaCQ[GroupOf(t)][p]
    OBVIOUS
  <1> HIDE DEF g, m
  <1>6. VerbsTypeOK'
    BY <1>1 DEF Sound, VerbsTypeOK, verbsVars
  <1>7. ServerTypes'
    BY <1>1, <1>2, <1>3 DEF Sound, ServerTypes, ThreadsTypeOK, Locations
  <1>8. Locking'
    BY <1>1, <1>2, GroupInRange DEF Sound, Locking, Critical, g
  <1>9. Holding'
    <2>1. ASSUME NEW u \in Threads, u # t
          PROVE  pc'[u] = pc[u] /\ cur'[u] = cur[u] /\ Chosen(u)' = Chosen(u) /\ priority'[u] = priority[u]
      BY <1>1, <1>2, <2>1 DEF Chosen
    <2>2. /\ pc'[t] = "taking" /\ cur'[t] = Head(m) /\ Chosen(t)' = m /\ priority'[t] = p
      BY <1>1, <1>2, <1>5 DEF Chosen
    <2> QED
      BY <1>1, <1>3, <2>1, <2>2 DEF Sound, Holding
  <1>10. /\ UNCHANGED <<cq, wc, metaCQ>> /\ Filled' = Filled
    BY <1>1 DEF verbsVars, Filled
  <1>11. \A u \in Threads : InHand(u)' = InHand(u)
    BY <1>1, <1>2, <1>4 DEF InHand
  <1>12. AllFilled'
    BY <1>10, <1>11, FilledPlaces, FilledPlacesNext DEF Sound
  <1> QED
    BY <1>6, <1>7, <1>8, <1>9, <1>12 DEF Sound

\* What PopRequest does: the chosen request leaves its list, of priority p.
PoppedFrom(t, p) ==
  /\ pc[t] = "taking" /\ p = priority[t] /\ metaCQ[GroupOf(t)][p] # <<>>
  /\ cur[t] = Head(metaCQ[GroupOf(t)][p])
  /\ metaCQ' \in [Groups -> [Priorities -> Seq(Req)]]
  /\ \A h \in Groups : \A o \in Priorities : metaCQ'[h][o] =
       IF h = GroupOf(t) /\ o = p THEN Tail(metaCQ[h][p]) ELSE metaCQ[h][o]
  /\ skipList' = [skipList EXCEPT ![GroupOf(t)] =
                    IF Tail(metaCQ[GroupOf(t)][p]) = <<>> THEN @ \ {p} ELSE @]
  /\ skipListMutex' = [skipListMutex EXCEPT ![GroupOf(t)] = @ \ {t}]
  /\ pc' = [pc EXCEPT ![t] = "serve"]
  /\ UNCHANGED <<verbsVars, wc, cur, rcnt, terminateRun, device, priority>>

LEMMA Popping ==
  ASSUME Sound, NEW t \in Threads, PopRequest(t)
  PROVE  \E p \in Priorities : PoppedFrom(t, p)
  <1> DEFINE p == priority[t]
             g == GroupOf(t)
             m == metaCQ[g][p]
  <1>1. /\ pc[t] = "taking" /\ p \in Priorities /\ m # <<>> /\ cur[t] = Head(m)
        /\ g \in Groups /\ metaCQ \in [Groups -> [Priorities -> Seq(Req)]]
    BY GroupInRange DEF Sound, Holding, Chosen, ServerTypes, PopRequest
  <1>2. /\ metaCQ' = [metaCQ EXCEPT ![g][p] = Tail(m)]
        /\ skipList' = [skipList EXCEPT ![g] = IF Tail(m) = <<>> THEN @ \ {p} ELSE @]
        /\ skipListMutex' = [skipListMutex EXCEPT ![g] = @ \ {t}]
        /\ pc' = [pc EXCEPT ![t] = "serve"]
        /\ UNCHANGED <<verbsVars, wc, cur, rcnt, terminateRun, device, priority>>
    BY DEF PopRequest, StillWaiting, Unlock, Goto
  <1>3. Tail(m) \in Seq(Req)
    BY <1>1, BufsTail
  <1>4. m = metaCQ[g][p]
    OBVIOUS
  <1> HIDE DEF m
  <1>5. /\ metaCQ' \in [Groups -> [Priorities -> Seq(Req)]]
        /\ \A h \in Groups : \A o \in Priorities : metaCQ'[h][o] =
             IF h = g /\ o = p THEN Tail(m) ELSE metaCQ[h][o]
    <2> HIDE DEF g, p
    <2> QED
      BY <1>1, <1>2, <1>3, ReplaceList
  <1>6. PoppedFrom(t, p)
    BY <1>1, <1>2, <1>4, <1>5 DEF PoppedFrom
  <1> QED
    BY <1>1, <1>6

LEMMA SoundPopRequest ==
  ASSUME Sound, NEW t \in Threads, PopRequest(t)
  PROVE  Sound'
  <1>0. PICK p \in Priorities : PoppedFrom(t, p)
    BY Popping
  <1> DEFINE g == GroupOf(t)
             m == metaCQ[g][p]
  <1>1. /\ pc[t] = "taking" /\ m # <<>> /\ cur[t] = Head(m)
        /\ metaCQ' \in [Groups -> [Priorities -> Seq(Req)]]
        /\ \A h \in Groups : \A o \in Priorities : metaCQ'[h][o] =
             IF h = g /\ o = p THEN Tail(m) ELSE metaCQ[h][o]
        /\ skipList' = [skipList EXCEPT ![g] = IF Tail(m) = <<>> THEN @ \ {p} ELSE @]
        /\ skipListMutex' = [skipListMutex EXCEPT ![g] = @ \ {t}]
        /\ pc' = [pc EXCEPT ![t] = "serve"]
        /\ UNCHANGED <<verbsVars, wc, cur, rcnt, terminateRun, device, priority>>
    BY <1>0 DEF PoppedFrom
  <1>2. /\ pc \in [Threads -> Locations] /\ skipListMutex \in [Groups -> SUBSET Threads]
        /\ skipList \in [Groups -> SUBSET Priorities] /\ Locking
        /\ g \in Groups /\ m \in Seq(Req) /\ cur \in [Threads -> Req \cup {NoReq}]
    BY GroupInRange DEF Sound, ServerTypes, ThreadsTypeOK
  <1> HIDE DEF g, m
  <1>3. /\ cur[t] \in Req /\ cur[t].bufID \in BufsIn(m) /\ BufsIn(Tail(m)) \subseteq BufsIn(m)
    BY <1>1, <1>2, BufsTail
  <1>4. VerbsTypeOK'
    BY <1>1 DEF Sound, VerbsTypeOK, verbsVars
  <1>5. Locking' /\ skipListMutex' \in [Groups -> SUBSET Threads]
    BY <1>1, <1>2, Unlocking DEF Critical, Locations, g
  <1>6. ServerTypes'
    <2>1. skipList' \in [Groups -> SUBSET Priorities]
      BY <1>1, <1>2
    <2> QED
      BY <1>1, <1>2, <1>5, <2>1 DEF Sound, ServerTypes, ThreadsTypeOK, Locations
  <1>7. ASSUME NEW u \in Threads, pc'[u] = "taking"
        PROVE  pc[u] = "taking" /\ metaCQ'[GroupOf(u)] = metaCQ[GroupOf(u)]
    <2>1. pc[u] = "taking" /\ u # t
      BY <1>1, <1>2, <1>7
    <2>2. GroupOf(u) \in Groups /\ GroupOf(u) # g
      BY <1>1, <1>2, <2>1, Alone, GroupInRange DEF Critical, g
    <2>3. /\ metaCQ[GroupOf(u)] \in [Priorities -> Seq(Req)]
          /\ metaCQ'[GroupOf(u)] \in [Priorities -> Seq(Req)]
          /\ \A o \in Priorities : metaCQ'[GroupOf(u)][o] = metaCQ[GroupOf(u)][o]
      BY <1>1, <2>2 DEF Sound, ServerTypes
    <2> QED
      BY <2>1, <2>3
  <1>8. Holding'
    <2>1. \A u \in Threads : pc'[u] = "taking" => Chosen(u)' = Chosen(u)
      BY <1>1, <1>7 DEF Chosen
    <2> QED
      BY <1>1, <1>2, <1>7, <2>1 DEF Sound, Holding
  <1>9. UNCHANGED <<cq, wc>> /\ Filled' = Filled
    BY <1>1 DEF verbsVars, Filled
  <1>10. \A h \in Groups : \A o \in Priorities : BufsIn(metaCQ'[h][o]) \subseteq Filled
    <2> TAKE h \in Groups
    <2> TAKE o \in Priorities
    <2>1. CASE h = g /\ o = p
      BY <1>1, <1>3, <2>1, FilledPlaces DEF Sound, m
    <2>2. CASE ~(h = g /\ o = p)
      BY <1>1, <2>2, FilledPlaces DEF Sound
    <2> QED
      BY <2>1, <2>2
  <1>11. \A u \in Threads : InHand(u)' \subseteq Filled
    <2>1. cur[t].bufID \in Filled
      BY <1>2, <1>3, FilledPlaces DEF Sound, m
    <2>2. InHand(t)' \subseteq {cur[t].bufID} /\ \A u \in Threads : u # t => InHand(u)' = InHand(u)
      BY <1>1, <1>2 DEF InHand
    <2> QED
      BY <2>1, <2>2, FilledPlaces DEF Sound
  <1>12. AllFilled'
    BY <1>9, <1>10, <1>11, FilledPlaces, FilledPlacesNext DEF Sound
  <1> QED
    BY <1>4, <1>5, <1>6, <1>8, <1>12 DEF Sound

\* What a thread that serves a request holds.
LEMMA Serving ==
  ASSUME Sound, NEW t \in Threads, pc[t] \in {"serve", "postRecv", "postSend"}
  PROVE  /\ cur[t] \in Req /\ cur[t].bufID \in RecvIds /\ cur[t].srcQP \in Sources
         /\ cur[t] # NoReq /\ ConnOf(t) \in Queues /\ wc[t] = <<>>
  <1>1. cur[t] \in Req /\ cur[t] # NoReq /\ wc[t] = <<>>
    BY DEF Sound, ServerTypes, ThreadsTypeOK, Holding
  <1> QED
    BY <1>1, ConnInRange DEF Req

\* The steps that serve: they change the buffers and the queues of the device.
LEMMA SoundServing ==
  ASSUME Sound, VerbsTypeOK', Filled' = Filled, UNCHANGED cq, NEW t \in Threads,
         \/ pc[t] = "serve" /\ pc' = [pc EXCEPT ![t] = "postRecv"] /\ UNCHANGED cur
         \/ pc[t] = "postRecv" /\ pc' = [pc EXCEPT ![t] = "postSend"] /\ UNCHANGED cur
         \/ /\ pc[t] = "postSend" /\ pc' = [pc EXCEPT ![t] = "test"]
            /\ cur' = [cur EXCEPT ![t] = NoReq],
         rcnt' \in [Queues -> Nat],
         UNCHANGED <<wc, terminateRun, device, metaCQ, skipList, skipListMutex, priority>>
  PROVE  Sound'
  <1>1. /\ pc \in [Threads -> Locations] /\ cur \in [Threads -> Req \cup {NoReq}]
        /\ wc[t] = <<>> /\ cur[t] # NoReq
    BY Serving DEF Sound, ServerTypes, ThreadsTypeOK
  <1>2. ServerTypes'
    BY ZenonT(60), <1>1 DEF Sound, ServerTypes, ThreadsTypeOK, Locations
  <1>3. Locking'
    BY <1>1 DEF Sound, Locking, Critical
  <1>4. Holding'
    BY <1>1 DEF Sound, Holding, Chosen
  <1>5. \A u \in Threads : InHand(u)' \subseteq InHand(u)
    BY <1>1 DEF InHand
  <1>6. AllFilled'
    BY <1>5, FilledPlaces, FilledPlacesNext DEF Sound
  <1> QED
    BY <1>2, <1>3, <1>4, <1>6 DEF Sound


LEMMA CountType ==
  ASSUME Sound, NEW t \in Threads, CountRequest(t)
  PROVE  rcnt' \in [Queues -> Nat]
  <1>1. rcnt \in [Queues -> Nat]
    BY DEF Sound, ServerTypes, ThreadsTypeOK
  <1> QED
    BY <1>1, ConnInRange DEF CountRequest

LEMMA SoundServe ==
  ASSUME Sound, NEW t \in Threads, Serve(t)
  PROVE  Sound'
  <1> DEFINE b == cur[t].bufID - NumBufs
  <1>1. /\ pc[t] = "serve" /\ pc' = [pc EXCEPT ![t] = "postRecv"] /\ CountRequest(t)
        /\ bufSend' = [bufSend EXCEPT ![b] = bufRecv[b]]
        /\ UNCHANGED <<rq, cq, sq, sqDone, bufRecv, sent, replies>>
        /\ UNCHANGED <<wc, cur, terminateRun, device, metaCQ, skipList, skipListMutex, priority>>
    BY DEF Serve, Goto
  <1>2. b \in SendIds
    BY <1>1, Serving, RecvToSend
  <1> HIDE DEF b
  <1>3. VerbsTypeOK' /\ Filled' = Filled
    BY <1>1, <1>2 DEF Sound, VerbsTypeOK, Filled
  <1> QED
    BY <1>1, <1>3, CountType, SoundServing

LEMMA SoundPostRecv ==
  ASSUME Sound, NEW t \in Threads, PostRecv(t)
  PROVE  Sound'
  <1>1. /\ pc[t] = "postRecv" /\ pc' = [pc EXCEPT ![t] = "postSend"]
        /\ PostRecvWR(ConnOf(t), cur[t].bufID)
        /\ UNCHANGED <<cq, sq, sqDone, bufRecv, bufSend, sent, replies>>
        /\ UNCHANGED <<wc, cur, rcnt, terminateRun, device, metaCQ, skipList, skipListMutex, priority>>
    BY DEF PostRecv, Goto
  <1>2. VerbsTypeOK' /\ Filled' = Filled
    BY <1>1, Serving, VerbsPostRecv DEF Sound
  <1>3. rcnt' \in [Queues -> Nat]
    BY <1>1 DEF Sound, ServerTypes, ThreadsTypeOK
  <1> QED
    BY <1>1, <1>2, <1>3, SoundServing

LEMMA SoundPostSend ==
  ASSUME Sound, NEW t \in Threads, PostSend(t)
  PROVE  Sound'
  <1>1. /\ pc[t] = "postSend" /\ pc' = [pc EXCEPT ![t] = "test"]
        /\ PostSendWR(ConnOf(t), cur[t].srcQP, cur[t].bufID - NumBufs, Signaled(t))
        /\ cur' = [cur EXCEPT ![t] = NoReq]
        /\ UNCHANGED <<rq, cq, sqDone, bufRecv, bufSend, sent, replies>>
        /\ UNCHANGED <<wc, rcnt, terminateRun, device, metaCQ, skipList, skipListMutex, priority>>
    BY DEF PostSend, Goto
  <1>2. Signaled(t) \in BOOLEAN
    BY DEF Signaled
  <1>3. VerbsTypeOK' /\ Filled' = Filled
    BY <1>1, <1>2, Serving, VerbsPostSend DEF Sound
  <1>4. rcnt' \in [Queues -> Nat]
    BY <1>1 DEF Sound, ServerTypes, ThreadsTypeOK
  <1> QED
    BY <1>1, <1>3, <1>4, SoundServing

LEMMA SoundThread ==
  ASSUME Sound, NEW t \in Threads, Thread(t)
  PROVE  Sound'
  <1>1. /\ rcnt \in [Queues -> Nat] /\ terminateRun \in BOOLEAN
        /\ device \in {"open", "closed", "crashed"}
    BY DEF Sound, ServerTypes, ThreadsTypeOK
  <1>2. /\ pc[t] \notin {"drain", "filing"} => wc[t] = <<>>
        /\ pc[t] \in {"init", "barrier", "test", "poll", "drain"} => cur[t] = NoReq
    BY DEF Sound, Holding
  <1>3. CASE EnterBarrier(t) \/ LeaveBarrier(t) \/ Idle(t)
    <2>1. /\ pc[t] \in {"init", "barrier", "drain"} /\ wc[t] = <<>>
          /\ \E l \in {"barrier", "test"} : pc' = [pc EXCEPT ![t] = l]
          /\ UNCHANGED <<verbsVars, wc, cur, rcnt, terminateRun, device>>
          /\ UNCHANGED <<metaCQ, skipList, skipListMutex, priority>>
      BY <1>2, <1>3 DEF EnterBarrier, LeaveBarrier, Idle, Goto
    <2> QED
      BY <1>1, <1>2, <2>1, SoundMove
  <1>4. CASE LoopTest(t)
    <2>1. /\ pc[t] = "test"
          /\ \E l \in {"exit", "poll"} : pc' = [pc EXCEPT ![t] = l]
          /\ UNCHANGED <<verbsVars, wc, cur, rcnt, terminateRun, device>>
          /\ UNCHANGED <<metaCQ, skipList, skipListMutex, priority>>
      BY <1>4 DEF LoopTest, Goto
    <2> QED
      BY <1>1, <1>2, <2>1, SoundMove
  <1>5. CASE Terminate(t)
    <2>1. /\ pc[t] = "serve" /\ pc' = [pc EXCEPT ![t] = "exit"]
          /\ CountRequest(t) /\ terminateRun' = TRUE
          /\ UNCHANGED <<verbsVars, wc, cur, device, metaCQ, skipList, skipListMutex, priority>>
      BY <1>5 DEF Terminate, Goto
    <2> QED
      BY <1>1, <1>2, <2>1, CountType, SoundMove
  <1>6. CASE Exit(t)
    <2>1. /\ pc[t] = "exit" /\ pc' = [pc EXCEPT ![t] = "done"]
          /\ device' \in {"open", "closed", "crashed"}
          /\ UNCHANGED <<verbsVars, wc, cur, rcnt, terminateRun>>
          /\ UNCHANGED <<metaCQ, skipList, skipListMutex, priority>>
      BY <1>1, <1>6 DEF Exit, Goto
    <2> QED
      BY <1>1, <1>2, <2>1, SoundMove
  <1>7. CASE Crash(t)
    <2>1. /\ device' = "crashed" /\ UNCHANGED <<verbsVars, pc, wc, cur, rcnt, terminateRun>>
          /\ UNCHANGED <<metaCQ, skipList, skipListMutex, priority>>
      BY <1>7 DEF Crash
    <2>2. VerbsTypeOK' /\ ServerTypes' /\ Locking' /\ Holding'
      BY <2>1 DEF Sound, VerbsTypeOK, verbsVars, ServerTypes, ThreadsTypeOK, Locking, Holding, Chosen
    <2>3. /\ UNCHANGED <<cq, wc, metaCQ>> /\ Filled' = Filled
          /\ \A u \in Threads : InHand(u)' = InHand(u)
      BY <2>1 DEF verbsVars, Filled, InHand
    <2>4. AllFilled'
      BY <2>3, FilledPlaces, FilledPlacesNext DEF Sound
    <2> QED
      BY <2>2, <2>4 DEF Sound
  <1> QED
    BY <1>3, <1>4, <1>5, <1>6, <1>7, SoundPoll, SoundSendCompletion, SoundInsertPriority,
       SoundEmplaceRequest, SoundChooseRequest, SoundPopRequest, SoundServe, SoundPostRecv,
       SoundPostSend DEF Thread

LEMMA SoundNext == Sound /\ [Next]_vars => Sound'
  <1> SUFFICES ASSUME Sound, [Next]_vars
               PROVE  Sound'
    OBVIOUS
  <1>1. VerbsTypeOK /\ AllFilled
    BY DEF Sound
  <1>2. ASSUME NEW q \in Queues, NEW pkt \in Packet, NicReceive(q, pkt), UNCHANGED serverVars
        PROVE  Sound'
    <2>1. /\ VerbsTypeOK' /\ Filled \subseteq Filled'
          /\ Head(rq[q]) \in Filled'
          /\ \A r \in Queues : RecvsIn(cq'[r]) =
               IF r = q THEN RecvsIn(cq[q]) \cup {Head(rq[q])} ELSE RecvsIn(cq[r])
      BY <1>1, <1>2, VerbsReceive
    <2>2. \A r \in Queues : RecvsIn(cq'[r]) \subseteq Filled'
      BY <1>1, <2>1, FilledPlaces
    <2> QED
      BY <1>2, <2>1, <2>2, SoundDevice
  <1>3. ASSUME NEW q \in Queues, NEW pkt \in Packet, NicDrop(q, pkt), UNCHANGED serverVars
        PROVE  Sound'
    <2>1. /\ VerbsTypeOK' /\ Filled \subseteq Filled' /\ UNCHANGED cq
      BY <1>1, <1>3, VerbsDrop
    <2>2. \A r \in Queues : RecvsIn(cq'[r]) \subseteq Filled'
      BY <1>1, <2>1, FilledPlaces
    <2> QED
      BY <1>3, <2>1, <2>2, SoundDevice
  <1>4. ASSUME NEW q \in Queues, NicSend(q), UNCHANGED serverVars
        PROVE  Sound'
    <2>1. /\ VerbsTypeOK' /\ Filled' = Filled
          /\ \A r \in Queues : RecvsIn(cq'[r]) = RecvsIn(cq[r])
      BY <1>1, <1>4, VerbsSend
    <2>2. \A r \in Queues : RecvsIn(cq'[r]) \subseteq Filled'
      BY <1>1, <2>1, FilledPlaces
    <2> QED
      BY <1>4, <2>1, <2>2, SoundDevice
  <1>5. CASE Device
    BY <1>2, <1>3, <1>4, <1>5 DEF Device
  <1>6. CASE \E t \in Threads : Thread(t)
    BY <1>6, SoundThread
  <1>7. CASE UNCHANGED vars
    <2>1. UNCHANGED serverVars /\ UNCHANGED cq /\ Filled' = Filled /\ VerbsTypeOK'
      BY <1>1, <1>7 DEF vars, verbsVars, Filled, VerbsTypeOK
    <2>2. \A r \in Queues : RecvsIn(cq'[r]) \subseteq Filled'
      BY <1>1, <2>1, FilledPlaces
    <2> QED
      BY <2>1, <2>2, SoundDevice
  <1> QED
    BY <1>5, <1>6, <1>7 DEF Next, AtRest

\* Type correctness of the global-priority server: no thread reads the priority of a
\* buffer that was not written, looks at a completion it does not have, or serves no
\* request.
THEOREM GlobalTypeCorrect == Spec => []TypeOK
  <1> QED
    BY SoundInit, SoundNext, SoundTypes, PTL DEF Spec


-----------------------------------------------------------------------------
(* The second layer: every step that touches a buffer moves it from one place to another. *)

Apart == \A x, y \in Places : x # y => Held(x) \cap Held(y) = {}
Complete == \A b \in RecvIds : \E x \in Places : b \in Held(x)

LEMMA NoDoubleParts == NoDoubleService <=> DistinctPlaces /\ Apart /\ Complete
  BY DEF NoDoubleService, Apart, Complete

\* The buffers in S leave place x for place y, and no other place changes.
Moved(x, y, S) ==
  /\ x # y
  /\ S \subseteq Held(x)
  /\ Held(x)' = Held(x) \ S
  /\ Held(y)' = Held(y) \cup S
  /\ \A z \in Places : z # x /\ z # y => Held(z)' = Held(z)

LEMMA MoveConserves ==
  ASSUME NEW x \in Places, NEW y \in Places, NEW S, Moved(x, y, S), Apart, Complete
  PROVE  Apart' /\ Complete'
  <1>1. Apart'
    <2> SUFFICES ASSUME NEW a \in Places, NEW b \in Places, a # b
                 PROVE  Held(a)' \cap Held(b)' = {}
      BY DEF Apart
    <2> QED
      BY DEF Moved, Apart
  <1>2. Complete'
    <2> SUFFICES ASSUME NEW b \in RecvIds
                 PROVE  \E z \in Places : b \in Held(z)'
      BY DEF Complete
    <2>1. PICK z \in Places : b \in Held(z)
      BY DEF Complete
    <2> QED
      BY <2>1 DEF Moved
  <1> QED
    BY <1>1, <1>2

LEMMA StayConserves ==
  ASSUME \A z \in Places : Held(z)' = Held(z), Apart, Complete
  PROVE  Apart' /\ Complete'
  BY DEF Apart, Complete

LEMMA ConserveReceive ==
  ASSUME Sound, NoDoubleService, NEW q \in Queues, NEW pkt \in Packet,
         NicReceive(q, pkt), UNCHANGED serverVars
  PROVE  NoDoubleService'
  <1> DEFINE h == Head(rq[q])
             c == [wr_id |-> h, src_qp |-> pkt.src]
             x == <<"rq", q, 0>>
             y == <<"cq", q, 0>>
  <1>1. /\ rq \in [Queues -> Seq(RecvIds)] /\ cq \in [Queues -> Seq(Completion)]
        /\ rq[q] \in Seq(RecvIds) /\ cq[q] \in Seq(Completion) /\ rq[q] # <<>>
        /\ DistinctPlaces /\ Apart /\ Complete
    BY NoDoubleParts DEF Sound, VerbsTypeOK, NicReceive
  <1>2. IsInjective(rq[q]) /\ DistinctRecvs(cq[q])
    BY <1>1 DEF DistinctPlaces
  <1>3. /\ h \in Range(rq[q]) /\ Range(Tail(rq[q])) = Range(rq[q]) \ {h}
        /\ IsInjective(Tail(rq[q])) /\ h \in RecvIds
    BY <1>1, <1>2, PostedTail, TailProperties
  <1>4. c \in Completion /\ IsRecv(c) /\ c.wr_id = h
    BY <1>3, BufCount DEF Completion, Packet, RecvIds, IsRecv
  <1>5. x \in Places /\ y \in Places /\ x # y
    BY PlaceMembers
  <1>6. h \notin RecvsIn(cq[q])
    BY <1>1, <1>3, <1>5, HeldAt DEF Apart
  <1>7. /\ rq' = [rq EXCEPT ![q] = Tail(rq[q])]
        /\ cq' = [cq EXCEPT ![q] = Append(cq[q], c)]
        /\ UNCHANGED <<pc, wc, metaCQ, cur>>
        /\ \A t \in Threads : InHand(t)' = InHand(t)
    BY DEF NicReceive, serverVars, threadVars, InHand
  <1> HIDE DEF h, c
  <1>8. /\ RecvsIn(Append(cq[q], c)) = RecvsIn(cq[q]) \cup {h}
        /\ DistinctRecvs(Append(cq[q], c))
    BY <1>1, <1>2, <1>4, <1>6, RecvsAppend
  <1>9. DistinctPlaces'
    BY <1>1, <1>3, <1>7, <1>8 DEF DistinctPlaces, DistinctRecvs, IsRecv
  <1>10. Moved(x, y, {h})
    <2>1. /\ {h} \subseteq Held(x) /\ Held(x)' = Held(x) \ {h}
          /\ Held(y)' = Held(y) \cup {h}
      BY <1>1, <1>3, <1>7, <1>8, HeldAt
    <2>2. ASSUME NEW z \in Places, z # x, z # y
          PROVE  Held(z)' = Held(z)
      BY <1>1, <1>7, <2>2, HeldAt, PlaceKinds
    <2> QED
      BY <1>5, <2>1, <2>2 DEF Moved
  <1>11. Apart' /\ Complete'
    BY <1>1, <1>5, <1>10, MoveConserves
  <1> QED
    BY <1>9, <1>11 DEF NoDoubleService, Apart, Complete

\* Steps that change no place, though a list of completions may lose or gain a send.
LEMMA ConserveSame ==
  ASSUME Sound, NoDoubleService, UNCHANGED <<rq, metaCQ>>,
         \A q \in Queues : RecvsIn(cq'[q]) = RecvsIn(cq[q]),
         \A q \in Queues : DistinctRecvs(cq'[q]),
         \A t \in Threads : RecvsIn(wc'[t]) = RecvsIn(wc[t]),
         \A t \in Threads : DistinctRecvs(wc'[t]),
         \A t \in Threads : InHand(t)' = InHand(t)
  PROVE  NoDoubleService'
  <1>1. DistinctPlaces'
    BY NoDoubleParts DEF DistinctPlaces, DistinctRecvs, DistinctBufs, IsRecv
  <1>2. ASSUME NEW z \in Places PROVE Held(z)' = Held(z)
    BY HeldAt, PlaceKinds
  <1>3. Apart' /\ Complete'
    BY <1>2, NoDoubleParts, StayConserves
  <1> QED
    BY <1>1, <1>3 DEF NoDoubleService, Apart, Complete

LEMMA ConserveStay ==
  ASSUME Sound, NoDoubleService, UNCHANGED <<rq, cq, wc, metaCQ>>,
         \A t \in Threads : InHand(t)' = InHand(t)
  PROVE  NoDoubleService'
  <1>1. /\ \A q \in Queues : DistinctRecvs(cq[q])
        /\ \A t \in Threads : DistinctRecvs(wc[t])
    BY DEF NoDoubleService, DistinctPlaces
  <1> QED
    BY <1>1, ConserveSame DEF DistinctRecvs, IsRecv, RecvsIn

LEMMA ConserveSend ==
  ASSUME Sound, NoDoubleService, NEW q \in Queues, NicSend(q), UNCHANGED serverVars
  PROVE  NoDoubleService'
  <1>1. /\ \A r \in Queues : RecvsIn(cq'[r]) = RecvsIn(cq[r])
        /\ \A r \in Queues : DistinctRecvs(cq[r]) => DistinctRecvs(cq'[r])
        /\ UNCHANGED rq
    BY VerbsSend DEF Sound
  <1>2. UNCHANGED <<pc, wc, metaCQ, cur>>
    BY DEF serverVars, threadVars
  <1>3. /\ \A r \in Queues : DistinctRecvs(cq'[r])
        /\ \A t \in Threads : DistinctRecvs(wc[t])
    BY <1>1 DEF NoDoubleService, DistinctPlaces
  <1>4. /\ \A t \in Threads : RecvsIn(wc'[t]) = RecvsIn(wc[t]) /\ DistinctRecvs(wc'[t])
        /\ \A t \in Threads : InHand(t)' = InHand(t)
    BY <1>2, <1>3 DEF InHand
  <1> QED
    BY <1>1, <1>2, <1>3, <1>4, ConserveSame

LEMMA ConserveSendCompletion ==
  ASSUME Sound, NoDoubleService, NEW t \in Threads, SendCompletion(t)
  PROVE  NoDoubleService'
  <1>1. /\ wc[t] \in Seq(Completion) /\ wc[t] # <<>> /\ ~IsRecv(Head(wc[t]))
        /\ wc \in [Threads -> Seq(Completion)]
        /\ wc' = [wc EXCEPT ![t] = Tail(wc[t])]
        /\ \A q \in Queues : DistinctRecvs(cq[q])
        /\ \A u \in Threads : DistinctRecvs(wc[u])
        /\ UNCHANGED <<rq, cq, pc, metaCQ, cur>>
    BY DEF Sound, ServerTypes, ThreadsTypeOK, NoDoubleService, DistinctPlaces, SendCompletion,
       verbsVars
  <1>2. RecvsIn(Tail(wc[t])) = RecvsIn(wc[t]) /\ DistinctRecvs(Tail(wc[t]))
    BY <1>1, RecvsTail
  <1>3. \A u \in Threads : InHand(u)' = InHand(u)
    BY <1>1 DEF InHand
  <1>4. \A u \in Threads : RecvsIn(wc'[u]) = RecvsIn(wc[u]) /\ DistinctRecvs(wc'[u])
    BY <1>1, <1>2
  <1>5. \A q \in Queues : RecvsIn(cq'[q]) = RecvsIn(cq[q]) /\ DistinctRecvs(cq'[q])
    BY <1>1
  <1> QED
    BY <1>1, <1>3, <1>4, <1>5, ConserveSame

LEMMA ConservePoll ==
  ASSUME Sound, NoDoubleService, NEW t \in Threads, Poll(t)
  PROVE  NoDoubleService'
  <1> DEFINE q == ConnOf(t)
             a == Polled(q)
             x == <<"cq", q, 0>>
             y == <<"wc", t, 0>>
             l == IF a = <<>> THEN "test" ELSE "drain"
  <1>1. /\ PollCq(q) /\ wc' = [wc EXCEPT ![t] = a]
        /\ UNCHANGED <<rq, sq, bufRecv, bufSend, sent, replies>> /\ UNCHANGED <<metaCQ, cur>>
        /\ pc' = [pc EXCEPT ![t] = l] /\ pc[t] = "poll"
    BY DEF Poll, Goto
  <1>2. /\ q \in Queues /\ a \in Seq(Completion)
        /\ \A r \in Queues : r # q => cq'[r] = cq[r]
        /\ RecvsIn(cq[q]) = RecvsIn(a) \cup RecvsIn(cq'[q])
        /\ DistinctRecvs(cq[q]) =>
             /\ RecvsIn(a) \cap RecvsIn(cq'[q]) = {}
             /\ DistinctRecvs(a) /\ DistinctRecvs(cq'[q])
    BY <1>1, VerbsPoll DEF Sound
  <1>3. /\ wc \in [Threads -> Seq(Completion)] /\ pc \in [Threads -> Locations] /\ wc[t] = <<>>
        /\ DistinctPlaces /\ Apart /\ Complete
    BY <1>1, NoDoubleParts DEF Sound, ServerTypes, ThreadsTypeOK, Holding
  <1>4. DistinctRecvs(cq[q])
    BY <1>2, <1>3 DEF DistinctPlaces
  <1>5. x \in Places /\ y \in Places /\ x # y
    BY <1>2, PlaceMembers
  <1>6. \A u \in Threads : InHand(u)' = InHand(u)
    BY <1>1, <1>3 DEF InHand
  <1>7. RecvsIn(wc[t]) = {}
    BY <1>3 DEF RecvsIn
  <1> HIDE DEF q, a, l
  <1>8. DistinctPlaces'
    BY <1>1, <1>2, <1>3, <1>4 DEF DistinctPlaces, DistinctRecvs, IsRecv
  <1>9. Moved(x, y, RecvsIn(a))
    <2>1. /\ RecvsIn(a) \subseteq Held(x) /\ Held(x)' = Held(x) \ RecvsIn(a)
          /\ Held(y)' = Held(y) \cup RecvsIn(a)
      <3>1. Held(x) = RecvsIn(cq[q]) /\ Held(x)' = RecvsIn(cq'[q])
        BY HeldAt
      <3>2. Held(y) = RecvsIn(wc[t]) /\ Held(y)' = RecvsIn(wc'[t]) /\ wc'[t] = a
        BY <1>1, <1>3, HeldAt
      <3> QED
        BY <1>2, <1>4, <1>7, <3>1, <3>2
    <2>2. ASSUME NEW z \in Places, z # x, z # y
          PROVE  Held(z)' = Held(z)
      BY <1>1, <1>2, <1>3, <1>6, <2>2, HeldAt, PlaceKinds
    <2> QED
      BY <1>5, <2>1, <2>2 DEF Moved
  <1>10. Apart' /\ Complete'
    BY <1>3, <1>5, <1>9, MoveConserves
  <1> QED
    BY <1>8, <1>10 DEF NoDoubleService, Apart, Complete


LEMMA ConserveEmplaceRequest ==
  ASSUME Sound, NoDoubleService, NEW t \in Threads, EmplaceRequest(t)
  PROVE  NoDoubleService'
  <1>1. PICK p \in Priorities, r \in Req : FiledAs(t, p, r)
    BY Emplacing
  <1> DEFINE g == GroupOf(t)
             x == <<"wc", t, 0>>
             y == <<"meta", g, p>>
             m == metaCQ[g][p]
  <1>2. /\ pc[t] = "filing" /\ wc[t] # <<>> /\ IsRecv(Head(wc[t]))
        /\ r.bufID = Head(wc[t]).wr_id
        /\ wc' = [wc EXCEPT ![t] = Tail(wc[t])]
        /\ \A h \in Groups : \A o \in Priorities : metaCQ'[h][o] =
             IF h = g /\ o = p THEN Append(m, r) ELSE metaCQ[h][o]
        /\ pc' = [pc EXCEPT ![t] = "drain"]
        /\ UNCHANGED <<rq, cq, cur>>
    BY <1>1 DEF FiledAs, verbsVars
  <1>3. /\ wc[t] \in Seq(Completion) /\ wc \in [Threads -> Seq(Completion)] /\ m \in Seq(Req)
        /\ pc \in [Threads -> Locations] /\ g \in Groups
        /\ DistinctPlaces /\ Apart /\ Complete
    BY NoDoubleParts, GroupInRange DEF Sound, ServerTypes, ThreadsTypeOK
  <1>4. x \in Places /\ y \in Places /\ x # y
    BY <1>3, PlaceMembers
  <1>5. DistinctRecvs(wc[t]) /\ DistinctBufs(m)
    BY <1>3 DEF DistinctPlaces
  <1>6. /\ r.bufID \in RecvsIn(wc[t]) /\ DistinctRecvs(Tail(wc[t]))
        /\ RecvsIn(Tail(wc[t])) = RecvsIn(wc[t]) \ {r.bufID}
    BY <1>2, <1>3, <1>5, RecvsTail
  <1>7. r.bufID \notin BufsIn(m)
    BY <1>3, <1>4, <1>6, HeldAt DEF Apart
  <1> HIDE DEF m, g
  <1>8. BufsIn(Append(m, r)) = BufsIn(m) \cup {r.bufID} /\ DistinctBufs(Append(m, r))
    BY <1>3, <1>5, <1>7, BufsAppend
  <1>9. \A u \in Threads : InHand(u)' = InHand(u)
    BY <1>2, <1>3 DEF InHand
  <1>10. DistinctPlaces'
    <2>1. \A u \in Threads : DistinctRecvs(wc'[u])
      BY <1>2, <1>3, <1>6 DEF DistinctPlaces
    <2>2. \A h \in Groups : \A o \in Priorities : DistinctBufs(metaCQ'[h][o])
      <3> TAKE h \in Groups
      <3> TAKE o \in Priorities
      <3>1. CASE h = g /\ o = p
        BY <1>2, <1>8, <3>1
      <3>2. CASE ~(h = g /\ o = p)
        BY <1>2, <1>3, <3>2 DEF DistinctPlaces
      <3> QED
        BY <3>1, <3>2
    <2> QED
      BY <1>2, <1>3, <2>1, <2>2 DEF DistinctPlaces, DistinctRecvs, IsRecv, DistinctBufs
  <1>11. Moved(x, y, {r.bufID})
    <2>1. /\ {r.bufID} \subseteq Held(x) /\ Held(x)' = Held(x) \ {r.bufID}
          /\ Held(y)' = Held(y) \cup {r.bufID}
      <3>1. wc'[t] = Tail(wc[t]) /\ metaCQ'[g][p] = Append(m, r)
        BY <1>2, <1>3
      <3>2. Held(x) = RecvsIn(wc[t]) /\ Held(x)' = RecvsIn(wc'[t])
        BY HeldAt
      <3>3. Held(y) = BufsIn(m) /\ Held(y)' = BufsIn(metaCQ'[g][p])
        BY HeldAt DEF m
      <3> QED
        BY <1>6, <1>8, <3>1, <3>2, <3>3
    <2>2. ASSUME NEW z \in Places, z # x, z # y
          PROVE  Held(z)' = Held(z)
      BY <1>2, <1>3, <1>9, <2>2, HeldAt, PlaceKinds
    <2> QED
      BY <1>4, <2>1, <2>2 DEF Moved
  <1>12. Apart' /\ Complete'
    BY <1>3, <1>4, <1>11, MoveConserves
  <1> QED
    BY <1>10, <1>12 DEF NoDoubleService, Apart, Complete

LEMMA ConservePopRequest ==
  ASSUME Sound, NoDoubleService, NEW t \in Threads, PopRequest(t)
  PROVE  NoDoubleService'
  <1>1. PICK p \in Priorities : PoppedFrom(t, p)
    BY Popping
  <1> DEFINE g == GroupOf(t)
             x == <<"meta", g, p>>
             y == <<"cur", t, 0>>
             m == metaCQ[g][p]
             r == Head(m)
  <1>2. /\ pc[t] = "taking" /\ m # <<>> /\ cur[t] = r
        /\ \A h \in Groups : \A o \in Priorities : metaCQ'[h][o] =
             IF h = g /\ o = p THEN Tail(m) ELSE metaCQ[h][o]
        /\ pc' = [pc EXCEPT ![t] = "serve"]
        /\ UNCHANGED <<rq, cq, wc, cur>>
    BY <1>1 DEF PoppedFrom, verbsVars
  <1>3. /\ pc \in [Threads -> Locations] /\ m \in Seq(Req) /\ g \in Groups
        /\ cur[t] # NoReq /\ DistinctPlaces /\ Apart /\ Complete
    BY <1>2, NoDoubleParts, GroupInRange DEF Sound, ServerTypes, Holding
  <1>4. DistinctBufs(m)
    BY <1>3 DEF DistinctPlaces
  <1>5. /\ r.bufID \in BufsIn(m) /\ DistinctBufs(Tail(m))
        /\ BufsIn(Tail(m)) = BufsIn(m) \ {r.bufID}
    BY <1>2, <1>3, <1>4, BufsTail
  <1>6. x \in Places /\ y \in Places /\ x # y
    BY <1>3, PlaceMembers
  <1> HIDE DEF m, r, g
  <1>7. /\ InHand(t) = {} /\ InHand(t)' = {r.bufID}
        /\ \A u \in Threads : u # t => InHand(u)' = InHand(u)
    BY <1>2, <1>3 DEF InHand
  <1>8. DistinctPlaces'
    <2>1. \A h \in Groups : \A o \in Priorities : DistinctBufs(metaCQ'[h][o])
      <3> TAKE h \in Groups
      <3> TAKE o \in Priorities
      <3>1. CASE h = g /\ o = p
        BY <1>2, <1>5, <3>1
      <3>2. CASE ~(h = g /\ o = p)
        BY <1>2, <1>3, <3>2 DEF DistinctPlaces
      <3> QED
        BY <3>1, <3>2
    <2> QED
      BY <1>2, <1>3, <2>1 DEF DistinctPlaces, DistinctRecvs, IsRecv, DistinctBufs
  <1>9. Moved(x, y, {r.bufID})
    <2>1. /\ {r.bufID} \subseteq Held(x) /\ Held(x)' = Held(x) \ {r.bufID}
          /\ Held(y)' = Held(y) \cup {r.bufID}
      <3>1. metaCQ'[g][p] = Tail(m)
        BY <1>2, <1>3
      <3>2. Held(x) = BufsIn(m) /\ Held(x)' = BufsIn(metaCQ'[g][p])
        BY HeldAt DEF m
      <3>3. Held(y) = InHand(t) /\ Held(y)' = InHand(t)'
        BY HeldAt
      <3> QED
        BY <1>5, <1>7, <3>1, <3>2, <3>3
    <2>2. ASSUME NEW z \in Places, z # x, z # y
          PROVE  Held(z)' = Held(z)
      BY <1>2, <1>7, <2>2, HeldAt, PlaceKinds
    <2> QED
      BY <1>6, <2>1, <2>2 DEF Moved
  <1>10. Apart' /\ Complete'
    BY <1>3, <1>6, <1>9, MoveConserves
  <1> QED
    BY <1>8, <1>10 DEF NoDoubleService, Apart, Complete

\* The buffer is posted on the connection of the thread that served it.
LEMMA ConservePostRecv ==
  ASSUME Sound, NoDoubleService, NEW t \in Threads, PostRecv(t)
  PROVE  NoDoubleService'
  <1> DEFINE q == ConnOf(t)
             b == cur[t].bufID
             x == <<"cur", t, 0>>
             y == <<"rq", q, 0>>
  <1>1. /\ pc[t] = "postRecv" /\ pc' = [pc EXCEPT ![t] = "postSend"]
        /\ rq' = [rq EXCEPT ![q] = Append(rq[q], b)]
        /\ UNCHANGED <<cq, wc, metaCQ, cur>>
    BY DEF PostRecv, Goto, PostRecvWR
  <1>2. /\ pc \in [Threads -> Locations] /\ rq \in [Queues -> Seq(RecvIds)]
        /\ DistinctPlaces /\ Apart /\ Complete
        /\ b \in RecvIds /\ q \in Queues /\ cur[t] # NoReq
    BY <1>1, Serving, NoDoubleParts DEF Sound, ServerTypes, VerbsTypeOK
  <1>3. /\ InHand(t) = {b} /\ InHand(t)' = {}
        /\ \A u \in Threads : u # t => InHand(u)' = InHand(u)
    BY <1>1, <1>2 DEF InHand
  <1>4. x \in Places /\ y \in Places /\ x # y
    BY <1>2, PlaceMembers
  <1>5. b \notin Range(rq[q]) /\ IsInjective(rq[q]) /\ rq[q] \in Seq(RecvIds)
    BY <1>2, <1>3, <1>4, HeldAt DEF Apart, DistinctPlaces
  <1> HIDE DEF q, b
  <1>6. Range(Append(rq[q], b)) = Range(rq[q]) \cup {b} /\ IsInjective(Append(rq[q], b))
    BY <1>2, <1>5, PostedAppend
  <1>7. DistinctPlaces'
    BY <1>1, <1>2, <1>6 DEF DistinctPlaces, DistinctRecvs, IsRecv
  <1>8. Moved(x, y, {b})
    <2>1. /\ {b} \subseteq Held(x) /\ Held(x)' = Held(x) \ {b}
          /\ Held(y)' = Held(y) \cup {b}
      BY <1>1, <1>2, <1>3, <1>6, HeldAt DEF q
    <2>2. ASSUME NEW z \in Places, z # x, z # y
          PROVE  Held(z)' = Held(z)
      BY <1>1, <1>2, <1>3, <2>2, HeldAt, PlaceKinds
    <2> QED
      BY <1>4, <2>1, <2>2 DEF Moved
  <1>9. Apart' /\ Complete'
    BY <1>2, <1>4, <1>8, MoveConserves
  <1> QED
    BY <1>7, <1>9 DEF NoDoubleService, Apart, Complete

LEMMA ConserveThread ==
  ASSUME Sound, NoDoubleService, NEW t \in Threads, Thread(t)
  PROVE  NoDoubleService'
  <1>1. pc \in [Threads -> Locations] /\ cur \in [Threads -> Req \cup {NoReq}]
    BY DEF Sound, ServerTypes, ThreadsTypeOK
  <1>2. CASE \/ EnterBarrier(t) \/ LeaveBarrier(t) \/ LoopTest(t) \/ Idle(t) \/ Exit(t)
             \/ InsertPriority(t) \/ Terminate(t) \/ Serve(t)
    <2>1. /\ UNCHANGED <<rq, cq, wc, metaCQ, cur>>
          /\ pc[t] \notin {"taking", "postSend"}
          /\ \E l \in Locations \ {"taking", "postSend"} : pc' = [pc EXCEPT ![t] = l]
      BY <1>2 DEF EnterBarrier, LeaveBarrier, LoopTest, Idle, Exit, InsertPriority, Terminate,
         Serve, Goto, verbsVars, Locations
    <2>2. \A u \in Threads : InHand(u)' = InHand(u)
      BY <1>1, <2>1 DEF InHand
    <2> QED
      BY <2>1, <2>2, ConserveStay
  <1>3. CASE Crash(t)
    BY <1>3, ConserveStay DEF Crash, verbsVars, InHand
  <1>4. CASE PostSend(t)
    <2>1. /\ UNCHANGED <<rq, cq, wc, metaCQ>>
          /\ pc[t] = "postSend" /\ cur' = [cur EXCEPT ![t] = NoReq]
          /\ pc' = [pc EXCEPT ![t] = "test"]
      BY <1>4 DEF PostSend, Goto
    <2>2. \A u \in Threads : InHand(u)' = InHand(u)
      BY <1>1, <2>1 DEF InHand
    <2> QED
      BY <2>1, <2>2, ConserveStay
  <1>5. CASE ChooseRequest(t)
    <2>1. PICK p \in Priorities : ChosenFrom(t, p)
      BY <1>5, Choosing
    <2>2. /\ pc[t] = "drain" /\ pc' = [pc EXCEPT ![t] = "taking"]
          /\ \A u \in Threads : u # t => cur'[u] = cur[u]
          /\ UNCHANGED <<rq, cq, wc, metaCQ>>
      BY <1>1, <2>1 DEF ChosenFrom, verbsVars
    <2>3. cur[t] = NoReq
      BY <2>2 DEF Sound, Holding
    <2>4. \A u \in Threads : InHand(u)' = InHand(u)
      BY <1>1, <2>2, <2>3 DEF InHand
    <2> QED
      BY <2>2, <2>4, ConserveStay
  <1> QED
    BY <1>2, <1>3, <1>4, <1>5, ConservePoll, ConserveSendCompletion, ConserveEmplaceRequest,
       ConservePopRequest, ConservePostRecv DEF Thread

LEMMA ConserveNext == Sound /\ NoDoubleService /\ [Next]_vars => NoDoubleService'
  <1> SUFFICES ASSUME Sound, NoDoubleService, [Next]_vars
               PROVE  NoDoubleService'
    OBVIOUS
  <1>1. ASSUME NEW q \in Queues, NEW pkt \in Packet, NicDrop(q, pkt), UNCHANGED serverVars
        PROVE  NoDoubleService'
    BY <1>1, ConserveStay DEF NicDrop, serverVars, threadVars, InHand
  <1>2. CASE Device
    BY <1>1, <1>2, ConserveReceive, ConserveSend DEF Device
  <1>3. CASE \E t \in Threads : Thread(t)
    BY <1>3, ConserveThread
  <1>4. CASE UNCHANGED vars
    BY <1>4, ConserveStay DEF vars, serverVars, threadVars, verbsVars, InHand
  <1> QED
    BY <1>2, <1>3, <1>4 DEF Next, AtRest

LEMMA ConserveInit == Init => NoDoubleService
  <1> SUFFICES ASSUME Init
               PROVE  NoDoubleService
    OBVIOUS
  <1>1. /\ \A q \in Queues : rq[q] = InitialRecvs(q) /\ cq[q] = <<>>
        /\ \A t \in Threads : wc[t] = <<>> /\ InHand(t) = {}
        /\ \A g \in Groups : \A p \in Priorities : metaCQ[g][p] = <<>>
    BY DEF Init, ThreadsInit, VerbsInit, InHand
  <1>2. RecvsIn(<<>>) = {} /\ BufsIn(<<>>) = {} /\ DistinctRecvs(<<>>) /\ DistinctBufs(<<>>)
    BY DEF RecvsIn, BufsIn, DistinctRecvs, DistinctBufs
  <1>3. \A q \in Queues : Held(<<"rq", q, 0>>) = OwnBuffers(q)
    BY <1>1, HeldAt, InitialSplit
  <1>4. ASSUME NEW x \in Places
        PROVE  Held(x) = {} \/ \E q \in Queues : x = <<"rq", q, 0>>
    BY <1>1, <1>2, HeldAt, PlaceKinds
  <1>5. DistinctPlaces
    BY <1>1, <1>2, InitialSplit DEF DistinctPlaces
  <1>6. Apart
    <2> SUFFICES ASSUME NEW x \in Places, NEW y \in Places, x # y
                 PROVE  Held(x) \cap Held(y) = {}
      BY DEF Apart
    <2>1. CASE Held(x) = {} \/ Held(y) = {}
      BY <2>1
    <2>2. CASE Held(x) # {} /\ Held(y) # {}
      BY <1>3, <1>4, <2>2, InitialSplit
    <2> QED
      BY <2>1, <2>2
  <1>7. Complete
    <2> SUFFICES ASSUME NEW b \in RecvIds
                 PROVE  \E x \in Places : b \in Held(x)
      BY DEF Complete
    <2>1. PICK q \in Queues : b \in OwnBuffers(q)
      BY InitialSplit
    <2> QED
      BY <1>3, <2>1, PlaceMembers
  <1> QED
    BY <1>5, <1>6, <1>7, NoDoubleParts

\* Receive buffers are conserved although threads of a group pass requests to one
\* another and post the buffers they served on their own connections: no request is
\* served twice and none is lost between the thread that polled it and the one that
\* serves it.
THEOREM GlobalConservation == Spec => []NoDoubleService
  <1>1. Init => Sound /\ NoDoubleService
    BY SoundInit, ConserveInit
  <1>2. Sound /\ NoDoubleService /\ [Next]_vars => (Sound /\ NoDoubleService)'
    BY SoundNext, ConserveNext
  <1> QED
    BY <1>1, <1>2, PTL DEF Spec


-----------------------------------------------------------------------------
(* The third layer: the shared lists. *)

\* Only the device writes buf_recv.
LEMMA Writes ==
  ASSUME [Next]_vars
  PROVE  Written
  <1>1. CASE Device
    BY <1>1 DEF Device, Written, NicSend
  <1>2. ASSUME NEW t \in Threads, Thread(t)
        PROVE  UNCHANGED <<bufRecv, sent>>
    BY <1>2 DEF Thread, EnterBarrier, LeaveBarrier, LoopTest, Poll, SendCompletion,
       InsertPriority, EmplaceRequest, Idle, ChooseRequest, PopRequest, Terminate, Serve,
       PostRecv, PostSend, Exit, Crash, verbsVars
  <1>3. CASE UNCHANGED vars
    BY <1>3 DEF vars, verbsVars, Written
  <1> QED
    BY <1>1, <1>2, <1>3 DEF Next, AtRest, Written

\* A buffer that is in another place is not posted.
LEMMA NotPosted ==
  ASSUME Sound, NoDoubleService, NEW x \in Places, x[1] # "rq", NEW b \in Held(x)
  PROVE  b \in Filled /\ b \in RecvIds /\ b \notin PostedBufs
  <1>1. b \in Filled
    BY DEF Sound, AllFilled
  <1>2. ASSUME NEW q \in Queues, b \in Range(rq[q])
        PROVE  FALSE
    <2> DEFINE y == <<"rq", q, 0>>
    <2>1. y \in Places /\ y[1] = "rq" /\ Held(y) = Range(rq[q])
      BY PlaceMembers, HeldAt
    <2> QED
      BY <1>2, <2>1 DEF NoDoubleService
  <1> QED
    BY <1>1, <1>2 DEF PostedBufs, Filled

\* The packet of a buffer that is not posted does not change.
LEMMA SteadyPackets ==
  ASSUME Sound, NoDoubleService, [Next]_vars, NEW x \in Places, x[1] # "rq", NEW b \in Held(x)
  PROVE  /\ bufRecv'[b - NumBufs] = bufRecv[b - NumBufs]
         /\ sent'[bufRecv'[b - NumBufs]] = PacketIn(b)
  BY NotPosted, Writes, WrittenStays DEF Sound

LEMMA SteadyLists ==
  ASSUME Sound, NoDoubleService, [Next]_vars
  PROVE  /\ \A g \in Groups : \A p \in Priorities : \A b \in BufsIn(metaCQ[g][p]) :
              sent'[bufRecv'[b - NumBufs]] = PacketIn(b)
         /\ \A t \in Threads : pc[t] = "filing" =>
              sent'[bufRecv'[Head(wc[t]).wr_id - NumBufs]].prio = Filing(t)
  <1>1. \A g \in Groups : \A p \in Priorities : \A b \in BufsIn(metaCQ[g][p]) :
          sent'[bufRecv'[b - NumBufs]] = PacketIn(b)
    <2> SUFFICES ASSUME NEW g \in Groups, NEW p \in Priorities, NEW b \in BufsIn(metaCQ[g][p])
                 PROVE  sent'[bufRecv'[b - NumBufs]] = PacketIn(b)
      OBVIOUS
    <2> DEFINE x == <<"meta", g, p>>
    <2>1. x \in Places /\ x[1] # "rq" /\ b \in Held(x)
      BY PlaceMembers, HeldAt
    <2> QED
      BY <2>1, SteadyPackets
  <1>2. ASSUME NEW t \in Threads, pc[t] = "filing"
        PROVE  sent'[bufRecv'[Head(wc[t]).wr_id - NumBufs]].prio = Filing(t)
    <2> DEFINE x == <<"wc", t, 0>>
               b == Head(wc[t]).wr_id
    <2>1. wc[t] # <<>> /\ IsRecv(Head(wc[t]))
      BY <1>2 DEF Sound, Holding
    <2>2. x \in Places /\ x[1] # "rq" /\ b \in Held(x)
      BY <2>1, FilingPriority, PlaceMembers, HeldAt
    <2> QED
      BY <2>2, SteadyPackets DEF Filing
  <1> QED
    BY <1>1, <1>2

\* Every waiting request is in the ready set; a priority in it without a request is the
\* one that a thread inside its critical section is about to file.
Listed ==
  /\ \A g \in Groups : \A p \in Priorities : metaCQ[g][p] # <<>> => p \in skipList[g]
  /\ \A g \in Groups : \A p \in Priorities : p \in skipList[g] /\ metaCQ[g][p] = <<>> =>
       \E t \in Threads : GroupOf(t) = g /\ pc[t] = "filing" /\ Filing(t) = p
  /\ \A t \in Threads : pc[t] = "filing" => Filing(t) \in skipList[GroupOf(t)]

\* Requests are filed under the priority in their buffer.
FiledRight ==
  \A g \in Groups : \A p \in Priorities : \A i \in DOMAIN metaCQ[g][p] :
    PacketIn(metaCQ[g][p][i].bufID).prio = p

\* Steps that neither file nor take.
LEMMA ListedStay ==
  ASSUME Sound, NoDoubleService, Listed, [Next]_vars, UNCHANGED <<metaCQ, skipList>>,
         \A t \in Threads : pc'[t] = "filing" <=> pc[t] = "filing",
         \A t \in Threads : pc[t] = "filing" => wc'[t] = wc[t]
  PROVE  Listed'
  <1>1. \A t \in Threads : pc[t] = "filing" => Filing(t)' = Filing(t)
    BY SteadyLists DEF Filing, PacketIn
  <1> QED
    BY <1>1 DEF Listed

LEMMA ListedInsertPriority ==
  ASSUME Sound, NoDoubleService, Listed, [Next]_vars, NEW t \in Threads, InsertPriority(t)
  PROVE  Listed'
  <1> DEFINE g == GroupOf(t)
  <1>1. /\ pc[t] = "drain" /\ pc' = [pc EXCEPT ![t] = "filing"]
        /\ skipListMutex[g] = {} /\ skipList' = [skipList EXCEPT ![g] = @ \cup {Filing(t)}]
        /\ UNCHANGED <<bufRecv, sent, wc, metaCQ>>
    BY DEF InsertPriority, Lock, Goto, Filing, verbsVars
  <1>2. /\ pc \in [Threads -> Locations] /\ skipList \in [Groups -> SUBSET Priorities]
        /\ g \in Groups
    BY GroupInRange DEF Sound, ServerTypes
  <1>3. \A u \in Threads : Filing(u)' = Filing(u)
    BY <1>1 DEF Filing, PacketIn
  <1>4. \A u \in Threads : GroupOf(u) \in Groups
    BY GroupInRange
  <1> HIDE DEF g
  <1>5. \A h \in Groups : skipList'[h] = IF h = g THEN skipList[g] \cup {Filing(t)} ELSE skipList[h]
    BY <1>1, <1>2
  <1>6. \A h \in Groups : \A p \in Priorities : metaCQ'[h][p] # <<>> => p \in skipList'[h]
    BY <1>1, <1>5 DEF Listed
  <1>7. ASSUME NEW h \in Groups, NEW p \in Priorities, p \in skipList'[h], metaCQ'[h][p] = <<>>
        PROVE  \E u \in Threads : GroupOf(u) = h /\ pc'[u] = "filing" /\ Filing(u)' = p
    <2>1. CASE h = g /\ p = Filing(t)
      BY <1>1, <1>2, <1>3, <2>1 DEF g
    <2>2. CASE ~(h = g /\ p = Filing(t))
      <3>1. p \in skipList[h] /\ metaCQ[h][p] = <<>>
        BY <1>1, <1>5, <1>7, <2>2
      <3>2. PICK u \in Threads : GroupOf(u) = h /\ pc[u] = "filing" /\ Filing(u) = p
        BY <3>1 DEF Listed
      <3> QED
        BY <1>1, <1>2, <1>3, <3>2
    <2> QED
      BY <2>1, <2>2
  <1>8. \A u \in Threads : pc'[u] = "filing" => Filing(u)' \in skipList'[GroupOf(u)]
    BY <1>1, <1>2, <1>3, <1>4, <1>5 DEF Listed, g
  <1> QED
    BY <1>6, <1>7, <1>8 DEF Listed

LEMMA ListedEmplaceRequest ==
  ASSUME Sound, NoDoubleService, Listed, [Next]_vars, NEW t \in Threads, EmplaceRequest(t)
  PROVE  Listed'
  <1>0. PICK p \in Priorities, r \in Req : FiledAs(t, p, r)
    BY Emplacing
  <1> DEFINE g == GroupOf(t)
             m == metaCQ[g][p]
  <1>1. /\ pc[t] = "filing" /\ p = Filing(t)
        /\ \A h \in Groups : \A o \in Priorities : metaCQ'[h][o] =
             IF h = g /\ o = p THEN Append(m, r) ELSE metaCQ[h][o]
        /\ wc' = [wc EXCEPT ![t] = Tail(wc[t])]
        /\ pc' = [pc EXCEPT ![t] = "drain"]
        /\ UNCHANGED <<bufRecv, sent, skipList>>
    BY <1>0 DEF FiledAs, verbsVars
  <1>2. /\ pc \in [Threads -> Locations] /\ wc \in [Threads -> Seq(Completion)]
        /\ g \in Groups /\ m \in Seq(Req) /\ Locking
    BY GroupInRange DEF Sound, ServerTypes, ThreadsTypeOK
  <1>3. Append(m, r) # <<>>
    <2> HIDE DEF m
    <2>1. Append(m, r) \in Seq(Req) /\ Len(Append(m, r)) = Len(m) + 1 /\ Len(m) \in Nat
      BY <1>2, AppendProperties
    <2> QED
      BY <2>1
  <1>4. \A u \in Threads : u # t => Filing(u)' = Filing(u) /\ pc'[u] = pc[u]
    BY <1>1, <1>2 DEF Filing, PacketIn
  <1>5. p \in skipList[g]
    BY <1>1 DEF Listed
  <1>6. \A u \in Threads : pc[u] = "filing" /\ GroupOf(u) = g => u = t
    BY <1>1, <1>2, Alone DEF Critical
  <1> HIDE DEF g, m
  <1>7. \A h \in Groups : \A o \in Priorities : metaCQ'[h][o] # <<>> => o \in skipList'[h]
    BY <1>1, <1>5 DEF Listed
  <1>8. ASSUME NEW h \in Groups, NEW o \in Priorities, o \in skipList'[h], metaCQ'[h][o] = <<>>
        PROVE  \E u \in Threads : GroupOf(u) = h /\ pc'[u] = "filing" /\ Filing(u)' = o
    <2>1. ~(h = g /\ o = p)
      BY <1>1, <1>3, <1>8
    <2>2. o \in skipList[h] /\ metaCQ[h][o] = <<>>
      BY <1>1, <1>8, <2>1
    <2>3. PICK u \in Threads : GroupOf(u) = h /\ pc[u] = "filing" /\ Filing(u) = o
      BY <2>2 DEF Listed
    <2>4. u # t
      BY <1>1, <2>1, <2>3 DEF g
    <2> QED
      BY <1>4, <2>3, <2>4
  <1>9. \A u \in Threads : pc'[u] = "filing" => Filing(u)' \in skipList'[GroupOf(u)]
    BY <1>1, <1>2, <1>4 DEF Listed
  <1> QED
    BY <1>7, <1>8, <1>9 DEF Listed

LEMMA ListedPopRequest ==
  ASSUME Sound, NoDoubleService, Listed, [Next]_vars, NEW t \in Threads, PopRequest(t)
  PROVE  Listed'
  <1>0. PICK p \in Priorities : PoppedFrom(t, p)
    BY Popping
  <1> DEFINE g == GroupOf(t)
             m == metaCQ[g][p]
  <1>1. /\ pc[t] = "taking" /\ m # <<>>
        /\ \A h \in Groups : \A o \in Priorities : metaCQ'[h][o] =
             IF h = g /\ o = p THEN Tail(m) ELSE metaCQ[h][o]
        /\ skipList' = [skipList EXCEPT ![g] = IF Tail(m) = <<>> THEN @ \ {p} ELSE @]
        /\ pc' = [pc EXCEPT ![t] = "serve"]
        /\ UNCHANGED <<bufRecv, sent, wc>>
    BY <1>0 DEF PoppedFrom, verbsVars
  <1>2. /\ pc \in [Threads -> Locations] /\ skipList \in [Groups -> SUBSET Priorities]
        /\ g \in Groups /\ Locking
    BY GroupInRange DEF Sound, ServerTypes
  <1>3. \A u \in Threads : u # t => Filing(u)' = Filing(u) /\ pc'[u] = pc[u]
    BY <1>1, <1>2 DEF Filing, PacketIn
  <1>4. \A u \in Threads : pc[u] = "filing" => GroupOf(u) # g /\ u # t /\ GroupOf(u) \in Groups
    BY <1>1, <1>2, Alone, GroupInRange DEF Critical
  <1>5. p \in skipList[g] /\ m = metaCQ[g][p]
    BY <1>1, <1>2 DEF Listed
  <1> HIDE DEF g, m
  <1>6. \A h \in Groups : skipList'[h] =
          IF h = g THEN (IF Tail(m) = <<>> THEN skipList[g] \ {p} ELSE skipList[g])
                   ELSE skipList[h]
    BY <1>1, <1>2
  <1>7. ASSUME NEW h \in Groups, NEW o \in Priorities, metaCQ'[h][o] # <<>>
        PROVE  o \in skipList'[h]
    <2>1. CASE h = g /\ o = p
      BY <1>1, <1>5, <1>6, <1>7, <2>1
    <2>2. CASE ~(h = g /\ o = p)
      BY <1>1, <1>6, <1>7, <2>2 DEF Listed
    <2> QED
      BY <2>1, <2>2
  <1>8. ASSUME NEW h \in Groups, NEW o \in Priorities, o \in skipList'[h], metaCQ'[h][o] = <<>>
        PROVE  \E u \in Threads : GroupOf(u) = h /\ pc'[u] = "filing" /\ Filing(u)' = o
    <2>1. ASSUME h = g, o = p
          PROVE  FALSE
      <3>1. Tail(m) = <<>>
        BY <1>1, <1>2, <1>8, <2>1
      <3>2. skipList'[g] = skipList[g] \ {p}
        BY <1>2, <1>6, <3>1
      <3> QED
        BY <1>8, <2>1, <3>2
    <2>2. o \in skipList[h] /\ metaCQ[h][o] = <<>>
      BY <1>1, <1>6, <1>8, <2>1
    <2>3. PICK u \in Threads : GroupOf(u) = h /\ pc[u] = "filing" /\ Filing(u) = o
      BY <2>2 DEF Listed
    <2> QED
      BY <1>3, <1>4, <2>3
  <1>9. ASSUME NEW u \in Threads, pc'[u] = "filing"
        PROVE  Filing(u)' \in skipList'[GroupOf(u)]
    <2>1. u # t /\ pc[u] = "filing"
      BY <1>1, <1>2, <1>9
    <2> QED
      BY <1>3, <1>4, <1>6, <2>1 DEF Listed
  <1> QED
    BY <1>7, <1>8, <1>9 DEF Listed


LEMMA ListedNext ==
  ASSUME Sound, NoDoubleService, Listed, [Next]_vars
  PROVE  Listed'
  <1>1. pc \in [Threads -> Locations] /\ wc \in [Threads -> Seq(Completion)]
    BY DEF Sound, ServerTypes, ThreadsTypeOK
  <1>2. CASE UNCHANGED serverVars
    BY <1>2, ListedStay DEF serverVars, threadVars
  <1>3. CASE Device
    BY <1>2, <1>3 DEF Device
  <1>4. ASSUME NEW t \in Threads, Thread(t)
        PROVE  Listed'
    <2>1. ASSUME NEW l \in Locations \ {"filing"}, pc' = [pc EXCEPT ![t] = l],
                 pc[t] # "filing", UNCHANGED <<metaCQ, skipList>>,
                 \A u \in Threads : u # t => wc'[u] = wc[u]
          PROVE  Listed'
      <3>1. \A u \in Threads : pc'[u] = "filing" <=> pc[u] = "filing"
        BY <1>1, <2>1
      <3>2. \A u \in Threads : pc[u] = "filing" => wc'[u] = wc[u]
        BY <2>1
      <3> QED
        BY <2>1, <3>1, <3>2, ListedStay
    <2>2. CASE \/ EnterBarrier(t) \/ LeaveBarrier(t) \/ Idle(t) \/ ChooseRequest(t)
               \/ Terminate(t) \/ Serve(t) \/ PostRecv(t) \/ PostSend(t) \/ Exit(t)
      BY <2>1, <2>2 DEF EnterBarrier, LeaveBarrier, Idle, ChooseRequest, Terminate, Serve,
         PostRecv, PostSend, Exit, Goto, Locations
    <2>3. CASE LoopTest(t)
      BY <2>1, <2>3 DEF LoopTest, Goto, Locations
    <2>4. CASE Poll(t)
      BY <1>1, <2>1, <2>4 DEF Poll, Goto, Locations
    <2>5. CASE SendCompletion(t)
      <3>1. /\ pc[t] = "drain" /\ UNCHANGED <<pc, metaCQ, skipList>>
            /\ wc' = [wc EXCEPT ![t] = Tail(wc[t])]
        BY <2>5 DEF SendCompletion
      <3> QED
        BY <1>1, <3>1, ListedStay
    <2>6. CASE Crash(t)
      BY <2>6, ListedStay DEF Crash
    <2> QED
      BY <1>4, <2>2, <2>3, <2>4, <2>5, <2>6, ListedInsertPriority, ListedEmplaceRequest,
         ListedPopRequest DEF Thread
  <1>5. CASE UNCHANGED vars
    BY <1>2, <1>5 DEF vars
  <1> QED
    BY <1>3, <1>4, <1>5 DEF Next, AtRest

LEMMA FiledRightNext ==
  ASSUME Sound, NoDoubleService, FiledRight, [Next]_vars
  PROVE  FiledRight'
  <1>1. metaCQ \in [Groups -> [Priorities -> Seq(Req)]]
    BY DEF Sound, ServerTypes
  <1>2. \A g \in Groups : \A p \in Priorities : \A i \in DOMAIN metaCQ[g][p] :
          sent'[bufRecv'[metaCQ[g][p][i].bufID - NumBufs]].prio = p
    BY SteadyLists DEF FiledRight, BufsIn
  <1>3. CASE UNCHANGED metaCQ
    BY <1>2, <1>3 DEF FiledRight, PacketIn
  <1>4. ASSUME NEW t \in Threads, EmplaceRequest(t)
        PROVE  FiledRight'
    <2>1. PICK p \in Priorities, r \in Req : FiledAs(t, p, r)
      BY <1>4, Emplacing
    <2> DEFINE g == GroupOf(t)
               m == metaCQ[g][p]
    <2>2. /\ p = PacketIn(r.bufID).prio /\ UNCHANGED <<bufRecv, sent>>
          /\ \A h \in Groups : \A o \in Priorities : metaCQ'[h][o] =
               IF h = g /\ o = p THEN Append(m, r) ELSE metaCQ[h][o]
      BY <2>1 DEF FiledAs, Filing, verbsVars
    <2>3. m \in Seq(Req) /\ g \in Groups
      BY <1>1, GroupInRange
    <2>4. /\ DOMAIN Append(m, r) = DOMAIN m \cup {Len(m) + 1}
          /\ \A i \in DOMAIN m : Append(m, r)[i] = m[i]
          /\ Append(m, r)[Len(m) + 1] = r
      <3> HIDE DEF m
      <3> QED
        BY <2>3, AppendProperties
    <2>5. \A i \in DOMAIN m : PacketIn(m[i].bufID).prio = p
      BY <2>3 DEF FiledRight
    <2> HIDE DEF g, m
    <2>6. ASSUME NEW h \in Groups, NEW o \in Priorities, NEW i \in DOMAIN metaCQ'[h][o]
          PROVE  PacketIn(metaCQ'[h][o][i].bufID).prio = o
      <3>1. CASE h = g /\ o = p
        <4>1. metaCQ'[h][o] = Append(m, r)
          BY <2>2, <3>1
        <4>3. \A j \in DOMAIN Append(m, r) : PacketIn(Append(m, r)[j].bufID).prio = p
          BY <2>2, <2>4, <2>5
        <4> QED
          BY <2>6, <3>1, <4>1, <4>3
      <3>2. CASE ~(h = g /\ o = p)
        BY <2>2, <2>6, <3>2 DEF FiledRight
      <3> QED
        BY <3>1, <3>2
    <2> QED
      BY <2>2, <2>6 DEF FiledRight, PacketIn
  <1>5. ASSUME NEW t \in Threads, PopRequest(t)
        PROVE  FiledRight'
    <2>1. PICK p \in Priorities : PoppedFrom(t, p)
      BY <1>5, Popping
    <2> DEFINE g == GroupOf(t)
               m == metaCQ[g][p]
    <2>2. /\ m # <<>> /\ UNCHANGED <<bufRecv, sent>>
          /\ \A h \in Groups : \A o \in Priorities : metaCQ'[h][o] =
               IF h = g /\ o = p THEN Tail(m) ELSE metaCQ[h][o]
      BY <2>1 DEF PoppedFrom, verbsVars
    <2>3. m \in Seq(Req) /\ g \in Groups
      BY <1>1, GroupInRange
    <2>4. \A i \in DOMAIN Tail(m) : Tail(m)[i] = m[i + 1] /\ i + 1 \in DOMAIN m
      BY <2>2, <2>3, TailProperties
    <2>5. \A i \in DOMAIN m : PacketIn(m[i].bufID).prio = p
      BY <2>3 DEF FiledRight
    <2> HIDE DEF g, m
    <2>6. ASSUME NEW h \in Groups, NEW o \in Priorities, NEW i \in DOMAIN metaCQ'[h][o]
          PROVE  PacketIn(metaCQ'[h][o][i].bufID).prio = o
      <3>1. CASE h = g /\ o = p
        <4>1. metaCQ'[h][o] = Tail(m)
          BY <2>2, <3>1
        <4>2. \A j \in DOMAIN Tail(m) : PacketIn(Tail(m)[j].bufID).prio = p
          BY <2>4, <2>5
        <4> QED
          BY <2>6, <3>1, <4>1, <4>2
      <3>2. CASE ~(h = g /\ o = p)
        BY <2>2, <2>6, <3>2 DEF FiledRight
      <3> QED
        BY <3>1, <3>2
    <2> QED
      BY <2>2, <2>6 DEF FiledRight, PacketIn
  <1>6. \/ UNCHANGED metaCQ
        \/ \E t \in Threads : EmplaceRequest(t) \/ PopRequest(t)
    BY DEF Next, Device, Thread, AtRest, EnterBarrier, LeaveBarrier, LoopTest, Poll,
       SendCompletion, InsertPriority, Idle, ChooseRequest, Terminate, Serve, PostRecv,
       PostSend, Exit, Crash, vars, serverVars
  <1> QED
    BY <1>3, <1>4, <1>5, <1>6

\* The inductive invariant of the shared lists.
SharedInv == Sound /\ NoDoubleService /\ Listed /\ FiledRight

LEMMA SharedInit == Init => SharedInv
  <1>1. Init => Listed /\ FiledRight
    BY DEF Init, ThreadsInit, Listed, FiledRight
  <1> QED
    BY <1>1, SoundInit, ConserveInit DEF SharedInv

LEMMA SharedNext == SharedInv /\ [Next]_vars => SharedInv'
  BY SoundNext, ConserveNext, ListedNext, FiledRightNext DEF SharedInv

\* Whenever no thread of a group is inside its critical section the shared skipList is
\* exactly the set of priorities with a waiting request, for every number of groups and
\* threads: the assertion metaCQ[groupID][priority].size() > 0 cannot fail.
THEOREM SharedReadySetCorrect == Spec => []SharedReadySetExact
  <1>1. SharedInv => SharedReadySetExact
    BY DEF SharedInv, Sound, Locking, Critical, Listed, SharedReadySetExact
  <1> QED
    BY <1>1, SharedInit, SharedNext, PTL DEF Spec

\* Only choosing gives a thread a new request.
LEMMA CurSteps ==
  ASSUME Sound, [Next]_vars, NEW t \in Threads, cur'[t] # cur[t], cur'[t] # NoReq
  PROVE  ChooseRequest(t)
  <1>1. cur \in [Threads -> Req \cup {NoReq}]
    BY DEF Sound, ServerTypes, ThreadsTypeOK
  <1>2. cur' # cur
    OBVIOUS
  <1>3. PICK u \in Threads : ChooseRequest(u) \/ PostSend(u)
    BY <1>2 DEF Next, Device, Thread, AtRest, EnterBarrier, LeaveBarrier, LoopTest, Poll,
       SendCompletion, InsertPriority, EmplaceRequest, Idle, PopRequest, Terminate, Serve,
       PostRecv, Exit, Crash, vars, serverVars, threadVars
  <1>4. CASE PostSend(u)
    BY <1>1, <1>4 DEF PostSend
  <1>5. CASE ChooseRequest(u)
    BY <1>1, <1>5 DEF ChooseRequest
  <1> QED
    BY <1>3, <1>4, <1>5

\* Global strict priority: whichever thread polled it, a request is chosen only when no
\* more urgent one is filed in the group.
THEOREM MostUrgentCorrect == Spec => MostUrgentOfGroup
  <1> DEFINE Urgent == \A t \in Threads : cur'[t] # cur[t] /\ cur'[t] # NoReq =>
               \A p \in Priorities : metaCQ[GroupOf(t)][p] # <<>> =>
                 PacketIn(cur'[t].bufID).prio <= p
  <1>1. ASSUME SharedInv, [Next]_vars
        PROVE  Urgent
    <2> SUFFICES ASSUME NEW t \in Threads, cur'[t] # cur[t], cur'[t] # NoReq,
                        NEW p \in Priorities, metaCQ[GroupOf(t)][p] # <<>>
                 PROVE  PacketIn(cur'[t].bufID).prio <= p
      OBVIOUS
    <2>1. Sound /\ Listed /\ FiledRight
      BY <1>1 DEF SharedInv
    <2>2. ChooseRequest(t)
      BY <1>1, <2>1, CurSteps
    <2>3. PICK o \in Priorities : ChosenFrom(t, o)
      BY <2>1, <2>2, Choosing
    <2> DEFINE g == GroupOf(t)
               m == metaCQ[g][o]
    <2>4. /\ \A x \in skipList[g] : o <= x
          /\ m # <<>> /\ cur' = [cur EXCEPT ![t] = Head(m)]
      BY <2>3 DEF ChosenFrom
    <2>5. /\ g \in Groups /\ m \in Seq(Req) /\ cur \in [Threads -> Req \cup {NoReq}]
      BY <2>1, GroupInRange DEF Sound, ServerTypes, ThreadsTypeOK
    <2>6. o <= p
      BY <2>1, <2>4, <2>5 DEF Listed
    <2>7. cur'[t] = m[1] /\ 1 \in DOMAIN m
      BY <2>4, <2>5, TailProperties
    <2>8. PacketIn(m[1].bufID).prio = o
      BY <2>1, <2>5, <2>7 DEF FiledRight
    <2> QED
      BY <2>6, <2>7, <2>8
  <1>2. SharedInv /\ [Next]_vars => [Urgent]_vars
    BY <1>1
  <1> HIDE DEF Urgent
  <1>3. Spec => [][Urgent]_vars
    BY <1>2, SharedInit, SharedNext, PTL DEF Spec
  <1> QED
    BY <1>3 DEF MostUrgentOfGroup, Urgent

-----------------------------------------------------------------------------
(* The fourth layer: responses. *)

OriginBy(f, l) ==
  /\ \A q \in Queues : RecvsFrom(cq[q], f, l)
  /\ \A t \in Threads : RecvsFrom(wc[t], f, l)
  /\ \A g \in Groups : \A p \in Priorities : BufsFrom(metaCQ[g][p], f, l)

\* The buffers that connection q has: posted, or completed and not polled yet.
AtConn(q) == Range(rq[q]) \cup RecvsIn(cq[q])

\* A thread answers who sent the packet.  When it has given the buffer back, to its own
\* connection, the buffer stays there until the thread polls.
InServiceOf(t) ==
  /\ pc[t] = "serve" => cur[t].srcQP = PacketIn(cur[t].bufID).src
  /\ pc[t] = "postRecv" =>
       /\ bufSend[cur[t].bufID - NumBufs] = bufRecv[cur[t].bufID - NumBufs]
       /\ Answerable(bufRecv[cur[t].bufID - NumBufs], cur[t].srcQP)
  /\ pc[t] = "postSend" =>
       /\ cur[t].bufID \in AtConn(ConnOf(t))
       /\ Answerable(bufSend[cur[t].bufID - NumBufs], cur[t].srcQP)
InService == \A t \in Threads : InServiceOf(t)

Echo ==
  /\ NoneAhead /\ Unique /\ OriginBy(bufRecv, sent)
  /\ InService /\ Outgoing /\ OneState

\* The request of a thread that has not given its buffer back is in its hand.
LEMMA HandPlace ==
  ASSUME Sound, NEW t \in Threads, pc[t] \in {"serve", "postRecv"}
  PROVE  LET x == <<"cur", t, 0>>
         IN  x \in Places /\ x[1] # "rq" /\ cur[t].bufID \in Held(x)
  <1>1. cur[t] # NoReq
    BY Serving
  <1>2. cur[t].bufID \in InHand(t)
    BY <1>1 DEF InHand
  <1> QED
    BY <1>2, PlaceMembers, HeldAt

LEMMA OwnConnections ==
  ASSUME NumThreads <= NumQueues, NEW t \in Threads, NEW u \in Threads, t # u
  PROVE  ConnOf(t) # ConnOf(u)
  BY VerbsAssumption, ServerAssumption DEF ConnOf, Threads

\* A connection keeps its buffers while its thread does not poll.
LEMMA ConnKeeps ==
  ASSUME NumThreads <= NumQueues, Sound, NoDoubleService, [Next]_vars,
         NEW t \in Threads, pc[t] = "postSend"
  PROVE  AtConn(ConnOf(t)) \subseteq AtConn(ConnOf(t))'
  <1> DEFINE c == ConnOf(t)
  <1>1. c \in Queues /\ VerbsTypeOK /\ rq \in [Queues -> Seq(RecvIds)]
    BY ConnInRange DEF Sound, VerbsTypeOK
  <1> SUFFICES Range(rq[c]) \cup RecvsIn(cq[c]) \subseteq Range(rq'[c]) \cup RecvsIn(cq'[c])
    BY DEF AtConn, RecvsIn
  <1> HIDE DEF c
  <1>2. CASE UNCHANGED <<rq, cq>>
    BY <1>2
  <1>3. ASSUME NEW q \in Queues, NEW pkt \in Packet, NicReceive(q, pkt)
        PROVE  Range(rq[c]) \cup RecvsIn(cq[c]) \subseteq Range(rq'[c]) \cup RecvsIn(cq'[c])
    <2> DEFINE h == Head(rq[q])
    <2>1. \A r \in Queues : RecvsIn(cq'[r]) =
            IF r = q THEN RecvsIn(cq[q]) \cup {h} ELSE RecvsIn(cq[r])
      BY <1>1, <1>3, VerbsReceive
    <2>2. rq[q] # <<>> /\ rq' = [rq EXCEPT ![q] = Tail(rq[q])]
      BY <1>3 DEF NicReceive
    <2>3. IsInjective(rq[q])
      BY DEF NoDoubleService, DistinctPlaces
    <2>4. Range(Tail(rq[q])) = Range(rq[q]) \ {h}
      BY <1>1, <2>2, <2>3, PostedTail
    <2> HIDE DEF h
    <2>5. \A r \in Queues : Range(rq'[r]) =
            IF r = q THEN Range(rq[q]) \ {h} ELSE Range(rq[r])
      BY <1>1, <2>2, <2>4
    <2> QED
      BY <1>1, <2>1, <2>5
  <1>4. ASSUME NEW q \in Queues, NicSend(q)
        PROVE  Range(rq[c]) \cup RecvsIn(cq[c]) \subseteq Range(rq'[c]) \cup RecvsIn(cq'[c])
    BY <1>1, <1>4, VerbsSend
  <1>5. ASSUME NEW u \in Threads, Poll(u)
        PROVE  UNCHANGED rq /\ cq'[c] = cq[c]
    <2>1. u # t
      BY <1>5 DEF Poll
    <2>2. c # ConnOf(u)
      BY <2>1, OwnConnections DEF c
    <2>3. PollCq(ConnOf(u)) /\ UNCHANGED rq
      BY <1>5 DEF Poll
    <2> QED
      BY <1>1, <2>2, <2>3 DEF PollCq, VerbsTypeOK
  <1>6. ASSUME NEW u \in Threads, PostRecv(u)
        PROVE  Range(rq[c]) \cup RecvsIn(cq[c]) \subseteq Range(rq'[c]) \cup RecvsIn(cq'[c])
    <2> DEFINE d == cur[u].bufID
               q == ConnOf(u)
    <2>1. d \in RecvIds /\ q \in Queues
      BY <1>6, Serving DEF PostRecv
    <2>2. rq' = [rq EXCEPT ![q] = Append(rq[q], d)] /\ UNCHANGED cq
      BY <1>6 DEF PostRecv, PostRecvWR
    <2> HIDE DEF d, q
    <2>3. Range(Append(rq[q], d)) = Range(rq[q]) \cup {d}
      BY <1>1, <2>1, PostedAppend
    <2> QED
      BY <1>1, <2>1, <2>2, <2>3
  <1>7. CASE Device
    BY <1>2, <1>3, <1>4, <1>7 DEF Device, NicDrop
  <1>8. ASSUME NEW u \in Threads, Thread(u)
        PROVE  Range(rq[c]) \cup RecvsIn(cq[c]) \subseteq Range(rq'[c]) \cup RecvsIn(cq'[c])
    <2>1. CASE ~Poll(u) /\ ~PostRecv(u)
      <3>1. UNCHANGED <<rq, cq>>
        BY <1>8, <2>1 DEF Thread, EnterBarrier, LeaveBarrier, LoopTest, SendCompletion,
           InsertPriority, EmplaceRequest, Idle, ChooseRequest, PopRequest, Terminate, Serve,
           PostSend, Exit, Crash, verbsVars
      <3> QED
        BY <1>2, <3>1
    <2> QED
      BY <1>5, <1>6, <2>1
  <1>9. CASE UNCHANGED vars
    BY <1>2, <1>9 DEF vars, verbsVars
  <1> QED
    BY <1>7, <1>8, <1>9 DEF Next, AtRest

\* The sources travel with the requests.
LEMMA OriginNext ==
  ASSUME Sound, NoDoubleService, OriginBy(bufRecv, sent), [Next]_vars
  PROVE  OriginBy(bufRecv, sent)'
  <1> DEFINE f == bufRecv'
             l == sent'
  <1>1. /\ VerbsTypeOK /\ cq \in [Queues -> Seq(Completion)]
        /\ wc \in [Threads -> Seq(Completion)]
        /\ metaCQ \in [Groups -> [Priorities -> Seq(Req)]]
    BY DEF Sound, VerbsTypeOK, ServerTypes, ThreadsTypeOK
  <1>2. /\ \A q \in Queues : RecvsFrom(cq[q], f, l)
        /\ \A t \in Threads : RecvsFrom(wc[t], f, l)
        /\ \A g \in Groups : \A p \in Priorities : BufsFrom(metaCQ[g][p], f, l)
    <2>1. ASSUME NEW x \in Places, x[1] # "rq", NEW b \in Held(x)
          PROVE  l[f[b - NumBufs]] = sent[bufRecv[b - NumBufs]]
      BY <2>1, SteadyPackets DEF PacketIn
    <2> HIDE DEF f, l
    <2>2. /\ \A q \in Queues : \A b \in RecvsIn(cq[q]) :
               l[f[b - NumBufs]] = sent[bufRecv[b - NumBufs]]
          /\ \A t \in Threads : \A b \in RecvsIn(wc[t]) :
               l[f[b - NumBufs]] = sent[bufRecv[b - NumBufs]]
          /\ \A g \in Groups : \A p \in Priorities : \A b \in BufsIn(metaCQ[g][p]) :
               l[f[b - NumBufs]] = sent[bufRecv[b - NumBufs]]
      BY <2>1, HeldAt, PlaceMembers
    <2>3. \A q \in Queues : RecvsFrom(cq[q], f, l)
      BY <2>2 DEF OriginBy, RecvsFrom, RecvsIn
    <2>4. \A t \in Threads : RecvsFrom(wc[t], f, l)
      BY <2>2 DEF OriginBy, RecvsFrom, RecvsIn
    <2>5. \A g \in Groups : \A p \in Priorities : BufsFrom(metaCQ[g][p], f, l)
      BY <2>2 DEF OriginBy, BufsFrom, BufsIn
    <2> QED
      BY <2>3, <2>4, <2>5
  <1>3. CASE UNCHANGED <<cq, wc, metaCQ>>
    BY <1>2, <1>3 DEF OriginBy
  <1>4. ASSUME NEW q \in Queues, NEW pkt \in Packet, NicReceive(q, pkt), UNCHANGED serverVars
        PROVE  OriginBy(bufRecv, sent)'
    <2>1. \A r \in Queues : RecvsFrom(cq'[r], f, l)
      BY <1>1, <1>2, <1>4, ReceiveFrom
    <2> QED
      BY <1>2, <1>4, <2>1 DEF OriginBy, serverVars, threadVars
  <1>5. ASSUME NEW q \in Queues, NicSend(q), UNCHANGED serverVars
        PROVE  OriginBy(bufRecv, sent)'
    <2>1. \A r \in Queues : RecvsFrom(cq'[r], f, l)
      <3> HIDE DEF f, l
      <3> QED
        BY <1>1, <1>2, <1>5, SendFrom
    <2> QED
      BY <1>2, <1>5, <2>1 DEF OriginBy, serverVars, threadVars
  <1>6. ASSUME NEW t \in Threads, Poll(t)
        PROVE  OriginBy(bufRecv, sent)'
    <2>1. /\ ConnOf(t) \in Queues /\ PollCq(ConnOf(t)) /\ UNCHANGED metaCQ
          /\ wc' = [wc EXCEPT ![t] = Polled(ConnOf(t))]
      BY <1>6, ConnInRange DEF Poll
    <2>2. /\ RecvsFrom(Polled(ConnOf(t)), f, l)
          /\ \A r \in Queues : RecvsFrom(cq'[r], f, l)
      <3> HIDE DEF f, l
      <3> QED
        BY <1>1, <1>2, <2>1, PollFrom
    <2>3. \A u \in Threads : RecvsFrom(wc'[u], f, l)
      BY <1>1, <1>2, <2>1, <2>2
    <2> QED
      BY <1>2, <2>1, <2>2, <2>3 DEF OriginBy
  <1>7. ASSUME NEW t \in Threads, wc[t] # <<>>, wc' = [wc EXCEPT ![t] = Tail(wc[t])]
        PROVE  \A u \in Threads : RecvsFrom(wc'[u], f, l)
    <2>1. RecvsFrom(Tail(wc[t]), f, l)
      <3> HIDE DEF f, l
      <3> QED
        BY <1>1, <1>2, <1>7, RecvsFromTail
    <2> QED
      BY <1>1, <1>2, <1>7, <2>1
  <1>8. ASSUME NEW t \in Threads, SendCompletion(t)
        PROVE  OriginBy(bufRecv, sent)'
    BY <1>2, <1>7, <1>8 DEF OriginBy, SendCompletion, verbsVars
  <1>9. ASSUME NEW t \in Threads, EmplaceRequest(t)
        PROVE  OriginBy(bufRecv, sent)'
    <2>1. PICK p \in Priorities, r \in Req : FiledAs(t, p, r)
      BY <1>9, Emplacing
    <2> DEFINE g == GroupOf(t)
    <2>2. /\ wc[t] # <<>> /\ IsRecv(Head(wc[t])) /\ wc' = [wc EXCEPT ![t] = Tail(wc[t])]
          /\ r.bufID = Head(wc[t]).wr_id /\ r.srcQP = Head(wc[t]).src_qp
          /\ \A h \in Groups : \A o \in Priorities : metaCQ'[h][o] =
               IF h = g /\ o = p THEN Append(metaCQ[h][p], r) ELSE metaCQ[h][o]
          /\ UNCHANGED <<cq, bufRecv, sent>> /\ g \in Groups
      BY <2>1, GroupInRange DEF FiledAs, verbsVars
    <2>3. r.srcQP = l[f[r.bufID - NumBufs]].src
      <3> HIDE DEF f, l
      <3>1. wc[t] \in Seq(Completion) /\ RecvsFrom(wc[t], f, l) /\ wc[t] # <<>>
        BY <1>1, <1>2, <2>2
      <3>2. IsRecv(Head(wc[t])) => Head(wc[t]).src_qp = l[f[Head(wc[t]).wr_id - NumBufs]].src
        BY <3>1, RecvsFromTail
      <3> QED
        BY <2>2, <3>2
    <2> HIDE DEF g
    <2>4. BufsFrom(Append(metaCQ[g][p], r), f, l)
      <3> HIDE DEF f, l
      <3> QED
        BY <1>1, <1>2, <2>2, <2>3, BufsFromAppend
    <2>5. ASSUME NEW h \in Groups, NEW o \in Priorities
          PROVE  BufsFrom(metaCQ'[h][o], f, l)
      <3>1. CASE h = g /\ o = p
        BY <2>2, <2>4, <3>1
      <3>2. CASE ~(h = g /\ o = p)
        BY <1>2, <2>2, <3>2
      <3> QED
        BY <3>1, <3>2
    <2> QED
      BY <1>2, <1>7, <2>2, <2>5 DEF OriginBy
  <1>10. ASSUME NEW t \in Threads, PopRequest(t)
         PROVE  OriginBy(bufRecv, sent)'
    <2>1. PICK p \in Priorities : PoppedFrom(t, p)
      BY <1>10, Popping
    <2> DEFINE g == GroupOf(t)
    <2>2. /\ metaCQ[g][p] # <<>> /\ g \in Groups /\ UNCHANGED <<cq, wc>>
          /\ \A h \in Groups : \A o \in Priorities : metaCQ'[h][o] =
               IF h = g /\ o = p THEN Tail(metaCQ[h][p]) ELSE metaCQ[h][o]
      BY <2>1, GroupInRange DEF PoppedFrom, verbsVars
    <2> HIDE DEF g
    <2>3. BufsFrom(Tail(metaCQ[g][p]), f, l)
      <3> HIDE DEF f, l
      <3> QED
        BY <1>1, <1>2, <2>2, BufsFromTail
    <2>4. ASSUME NEW h \in Groups, NEW o \in Priorities
          PROVE  BufsFrom(metaCQ'[h][o], f, l)
      <3>1. CASE h = g /\ o = p
        BY <2>2, <2>3, <3>1
      <3>2. CASE ~(h = g /\ o = p)
        BY <1>2, <2>2, <3>2
      <3> QED
        BY <3>1, <3>2
    <2> QED
      BY <1>2, <2>2, <2>4 DEF OriginBy
  <1>11. CASE Device
    BY <1>3, <1>4, <1>5, <1>11 DEF Device, NicDrop, serverVars, threadVars
  <1>12. ASSUME NEW t \in Threads, Thread(t)
         PROVE  OriginBy(bufRecv, sent)'
    <2>1. CASE \/ EnterBarrier(t) \/ LeaveBarrier(t) \/ LoopTest(t) \/ InsertPriority(t)
               \/ Idle(t) \/ ChooseRequest(t) \/ Terminate(t) \/ Serve(t)
               \/ PostRecv(t) \/ PostSend(t) \/ Exit(t) \/ Crash(t)
      BY <1>3, <2>1 DEF EnterBarrier, LeaveBarrier, LoopTest, InsertPriority, Idle,
         ChooseRequest, Terminate, Serve, PostRecv, PostSend, Exit, Crash, verbsVars
    <2> QED
      BY <1>6, <1>8, <1>9, <1>10, <1>12, <2>1 DEF Thread
  <1>13. CASE UNCHANGED vars
    BY <1>3, <1>13 DEF vars, verbsVars, serverVars, threadVars
  <1> QED
    BY <1>11, <1>12, <1>13 DEF Next, AtRest

\* What does not touch a thread or its send buffer leaves its service as it is.
LEMMA ServiceStays ==
  ASSUME NumThreads <= NumQueues, Sound, NoDoubleService, InService, [Next]_vars,
         NEW t \in Threads, pc'[t] = pc[t], cur'[t] = cur[t],
         pc[t] \in {"postRecv", "postSend"} =>
           bufSend'[cur[t].bufID - NumBufs] = bufSend[cur[t].bufID - NumBufs]
  PROVE  InServiceOf(t)'
  <1> DEFINE d == cur[t].bufID
             b == d - NumBufs
  <1>1. InServiceOf(t)
    BY DEF InService
  <1>2. \A i, e : Answerable(i, e) => Answerable(i, e)'
    BY Writes, WrittenStamps, AnswerableStays DEF Sound
  <1>3. ASSUME pc[t] \in {"serve", "postRecv"}
        PROVE  bufRecv'[b] = bufRecv[b] /\ sent'[bufRecv'[b]] = PacketIn(d)
    BY <1>3, HandPlace, SteadyPackets
  <1> HIDE DEF d, b
  <1>4. ASSUME pc[t] = "serve"
        PROVE  cur'[t].srcQP = PacketIn(d)'.src
    BY <1>1, <1>3, <1>4 DEF InServiceOf, PacketIn, d, b
  <1>5. ASSUME pc[t] = "postRecv"
        PROVE  bufSend'[b] = bufRecv'[b] /\ Answerable(bufRecv[b], cur[t].srcQP)'
    BY <1>1, <1>2, <1>3, <1>5 DEF InServiceOf, b, d
  <1>6. ASSUME pc[t] = "postSend"
        PROVE  d \in AtConn(ConnOf(t))' /\ Answerable(bufSend[b], cur[t].srcQP)'
    BY <1>1, <1>2, <1>6, ConnKeeps DEF InServiceOf, b, d
  <1> QED
    BY <1>4, <1>5, <1>6 DEF InServiceOf, b, d

\* Serving writes the send buffer of nobody else.
LEMMA ServesAlone ==
  ASSUME Sound, NoDoubleService, InService, NEW t \in Threads, pc[t] = "serve",
         NEW u \in Threads, u # t, pc[u] \in {"postRecv", "postSend"}
  PROVE  cur[u].bufID - NumBufs # cur[t].bufID - NumBufs
  <1> DEFINE x == <<"cur", t, 0>>
  <1>1. x \in Places /\ cur[t].bufID \in Held(x)
    BY HandPlace
  <1>2. cur[t].bufID \in RecvIds /\ cur[u].bufID \in RecvIds
    BY Serving
  <1>3. ASSUME NEW y \in Places, y # x, cur[u].bufID \in Held(y)
        PROVE  cur[u].bufID # cur[t].bufID
    BY <1>1, <1>3 DEF NoDoubleService
  <1>4. cur[u].bufID # cur[t].bufID
    <2>1. CASE pc[u] = "postRecv"
      <3> DEFINE y == <<"cur", u, 0>>
      <3>1. y \in Places /\ cur[u].bufID \in Held(y) /\ y # x
        BY <2>1, HandPlace
      <3> QED
        BY <1>3, <3>1
    <2>2. CASE pc[u] = "postSend"
      <3> DEFINE y == <<"rq", ConnOf(u), 0>>
                 z == <<"cq", ConnOf(u), 0>>
      <3>1. y \in Places /\ z \in Places /\ y # x /\ z # x
        BY PlaceMembers, ConnInRange
      <3>2. cur[u].bufID \in Held(y) \/ cur[u].bufID \in Held(z)
        BY <2>2, HeldAt DEF InService, InServiceOf, AtConn
      <3> QED
        BY <1>3, <3>1, <3>2
    <2> QED
      BY <2>1, <2>2
  <1> QED
    BY <1>2, <1>4, BufCount DEF RecvIds

\* Steps of the loop that neither serve nor post.
LEMMA EchoMove ==
  ASSUME NumThreads <= NumQueues, Sound, NoDoubleService, InService, Outgoing, OneState,
         [Next]_vars, NEW t \in Threads, UNCHANGED <<rq, sq, bufRecv, bufSend, replies>>,
         \A u \in Threads : u # t => pc'[u] = pc[u] /\ cur'[u] = cur[u],
         pc[t] # "postSend", pc'[t] # "postSend", InServiceOf(t)'
  PROVE  InService' /\ Outgoing' /\ OneState'
  <1>1. \A u \in Threads : u # t => InServiceOf(u)'
    BY ServiceStays
  <1>2. InService'
    BY <1>1 DEF InService
  <1>3. \A u \in Threads : Ready(u)' = Ready(u)
    BY DEF Ready
  <1>4. LogKept
    BY Writes, WrittenStamps DEF Sound
  <1> QED
    BY <1>2, <1>3, <1>4, StillStates

\* A request that leaves its list names the source of its packet.
LEMMA EchoPop ==
  ASSUME NumThreads <= NumQueues, Sound, NoDoubleService, OriginBy(bufRecv, sent),
         InService, Outgoing, OneState, [Next]_vars, NEW t \in Threads, PopRequest(t)
  PROVE  InService' /\ Outgoing' /\ OneState'
  <1>1. PICK p \in Priorities : PoppedFrom(t, p)
    BY Popping
  <1> DEFINE m == metaCQ[GroupOf(t)][p]
  <1>2. /\ pc[t] = "taking" /\ m # <<>> /\ cur[t] = Head(m)
        /\ pc' = [pc EXCEPT ![t] = "serve"]
        /\ UNCHANGED <<rq, sq, bufRecv, bufSend, replies, cur, sent>>
    BY <1>1 DEF PoppedFrom, verbsVars
  <1>3. m \in Seq(Req) /\ BufsFrom(m, bufRecv, sent) /\ pc \in [Threads -> Locations]
    BY GroupInRange DEF Sound, ServerTypes, OriginBy
  <1> HIDE DEF m
  <1>4. cur[t].srcQP = PacketIn(cur[t].bufID).src
    BY <1>2, <1>3, BufsFromTail DEF PacketIn
  <1>5. cur'[t].srcQP = PacketIn(cur[t].bufID)'.src
    BY <1>2, <1>4 DEF PacketIn
  <1>6. InServiceOf(t)'
    BY <1>2, <1>3, <1>5 DEF InServiceOf
  <1>7. \A u \in Threads : u # t => pc'[u] = pc[u] /\ cur'[u] = cur[u]
    BY <1>2, <1>3
  <1>8. pc'[t] = "serve"
    BY <1>2, <1>3
  <1> QED
    BY <1>2, <1>6, <1>7, <1>8, EchoMove

LEMMA EchoServe ==
  ASSUME NumThreads <= NumQueues, Sound, NoDoubleService, InService, Outgoing, OneState,
         [Next]_vars, NEW t \in Threads, Serve(t)
  PROVE  InService' /\ Outgoing' /\ OneState'
  <1> DEFINE r == cur[t]
             b == r.bufID - NumBufs
  <1>1. /\ pc[t] = "serve" /\ ~PacketIn(r.bufID).last
        /\ bufSend' = [bufSend EXCEPT ![b] = bufRecv[b]]
        /\ pc' = [pc EXCEPT ![t] = "postRecv"]
        /\ UNCHANGED <<rq, sq, bufRecv, sent, replies, cur>>
    BY DEF Serve, Goto
  <1>2. r.bufID \in Filled /\ r.srcQP = PacketIn(r.bufID).src
    BY <1>1, HandPlace, NotPosted DEF InService, InServiceOf
  <1>3. pc \in [Threads -> Locations] /\ bufSend \in [SendIds -> 0 .. MaxPackets]
    BY DEF Sound, ServerTypes, VerbsTypeOK
  <1>4. b \in SendIds /\ bufRecv[b] \in 1 .. Len(sent) /\ PacketIn(r.bufID) = sent[bufRecv[b]]
    BY <1>2, RecvToSend DEF Filled, PacketIn
  <1>5. ASSUME NEW u \in Threads, u # t, pc[u] \in {"postRecv", "postSend"}
        PROVE  bufSend'[cur[u].bufID - NumBufs] = bufSend[cur[u].bufID - NumBufs]
    <2>1. cur[u].bufID - NumBufs # b
      BY <1>1, <1>5, ServesAlone
    <2>2. cur[u].bufID - NumBufs \in SendIds
      BY <1>5, Serving, RecvToSend
    <2> HIDE DEF b
    <2> QED
      BY <1>1, <1>3, <2>1, <2>2
  <1> HIDE DEF r
  <1>6. \A u \in Threads : u # t => InServiceOf(u)'
    BY <1>1, <1>3, <1>5, ServiceStays
  <1>7. InServiceOf(t)'
    <2>1. bufSend'[b] = bufRecv'[b] /\ pc'[t] = "postRecv"
      BY <1>1, <1>3, <1>4
    <2>2. Answerable(bufRecv[b], r.srcQP)
      BY <1>1, <1>2, <1>4 DEF Answerable
    <2>3. Answerable(bufRecv[cur[t].bufID - NumBufs], cur[t].srcQP)'
      BY <1>1, <2>2 DEF Answerable, r
    <2> QED
      BY <1>1, <2>1, <2>3 DEF InServiceOf, r
  <1>8. \A u \in Threads : Ready(u)' = Ready(u)
    <2> SUFFICES ASSUME NEW u \in Threads
                 PROVE  Ready(u)' = Ready(u)
      OBVIOUS
    <2>1. CASE u = t
      BY <1>1, <1>3, <2>1 DEF Ready
    <2>2. CASE u # t
      BY <1>1, <1>3, <1>5, <2>2 DEF Ready
    <2> QED
      BY <2>1, <2>2
  <1>9. LogKept
    BY Writes, WrittenStamps DEF Sound
  <1> QED
    BY <1>1, <1>6, <1>7, <1>8, <1>9, StillStates DEF InService

\* Steps of the device leave what the threads serve as it is.
LEMMA EchoDevice ==
  ASSUME NumThreads <= NumQueues, Sound, NoDoubleService, InService, Outgoing, OneState,
         [Next]_vars, Device
  PROVE  InService' /\ Outgoing' /\ OneState'
  <1>1. VerbsTypeOK /\ LogKept
    BY Writes, WrittenStamps DEF Sound
  <1>2. UNCHANGED <<pc, cur, bufSend>>
    BY DEF Device, NicReceive, NicDrop, NicSend, serverVars, threadVars
  <1>3. InService'
    BY <1>2, ServiceStays DEF InService
  <1>4. ASSUME NEW q \in Queues, NEW pkt \in Packet, NicReceive(q, pkt)
        PROVE  Outgoing' /\ OneState'
    <2>1. \A t \in Threads : Ready(t) \subseteq 1 .. Len(sent)
      BY DEF InService, InServiceOf, Ready, Answerable
    <2>2. IsInjective(rq[q])
      BY DEF NoDoubleService, DistinctPlaces
    <2> QED
      BY <1>1, <1>2, <1>4, <2>1, <2>2, ReceiveStates
  <1>5. ASSUME NEW q \in Queues, NEW pkt \in Packet, NicDrop(q, pkt)
        PROVE  Outgoing' /\ OneState'
    <2>1. UNCHANGED <<rq, sq, bufRecv, replies>>
      BY <1>5 DEF NicDrop
    <2>2. \A u \in Threads : Ready(u)' = Ready(u)
      BY <1>2 DEF Ready
    <2> QED
      BY <1>1, <2>1, <2>2, StillStates
  <1>6. ASSUME NEW q \in Queues, NicSend(q)
        PROVE  Outgoing' /\ OneState'
    BY <1>1, <1>2, <1>6, SendStates
  <1> QED
    BY <1>3, <1>4, <1>5, <1>6 DEF Device

LEMMA EchoPostRecv ==
  ASSUME NumThreads <= NumQueues, Sound, NoDoubleService, Unique, InService, Outgoing,
         OneState, [Next]_vars, NEW t \in Threads, PostRecv(t)
  PROVE  InService' /\ Outgoing' /\ OneState'
  <1> DEFINE d == cur[t].bufID
  <1>1. /\ pc[t] = "postRecv" /\ pc' = [pc EXCEPT ![t] = "postSend"]
        /\ PostRecvWR(ConnOf(t), d)
        /\ UNCHANGED <<cq, sq, sqDone, bufRecv, bufSend, sent, replies, cur>>
    BY DEF PostRecv, Goto
  <1>2. pc \in [Threads -> Locations] /\ VerbsTypeOK /\ LogKept
    BY Writes, WrittenStamps DEF Sound, ServerTypes
  <1>3. d \in RecvIds /\ ConnOf(t) \in Queues
    BY <1>1, Serving
  <1>4. /\ bufSend[d - NumBufs] = bufRecv[d - NumBufs]
        /\ Answerable(bufRecv[d - NumBufs], cur[t].srcQP)
    BY <1>1 DEF InService, InServiceOf
  <1>5. d \in RecvIds \ PostedBufs
    BY <1>1, HandPlace, NotPosted
  <1>6. Outgoing' /\ OneState'
    BY <1>1, <1>2, <1>4, <1>5, PostRecvStates
  <1>7. d \in AtConn(ConnOf(t))'
    <2>1. rq[ConnOf(t)] \in Seq(RecvIds) /\ rq'[ConnOf(t)] = Append(rq[ConnOf(t)], d)
      BY <1>1, <1>2, <1>3, VerbsPostRecv
    <2>2. d \in Range(rq'[ConnOf(t)])
      BY <1>3, <2>1, PostedAppend
    <2> QED
      BY <2>2 DEF AtConn
  <1>8. InService'
    <2>1. \A u \in Threads : u # t => InServiceOf(u)'
      BY <1>1, <1>2, ServiceStays
    <2>2. Answerable(bufSend[cur[t].bufID - NumBufs], cur[t].srcQP)'
      BY <1>1, <1>4 DEF Answerable, d
    <2>3. InServiceOf(t)'
      BY <1>1, <1>2, <1>7, <2>2 DEF InServiceOf, d
    <2> QED
      BY <2>1, <2>3 DEF InService
  <1> QED
    BY <1>6, <1>8

LEMMA EchoPostSend ==
  ASSUME NumThreads <= NumQueues, Sound, NoDoubleService, InService, Outgoing, OneState,
         [Next]_vars, NEW t \in Threads, PostSend(t)
  PROVE  InService' /\ Outgoing' /\ OneState'
  <1>1. /\ pc[t] = "postSend" /\ pc' = [pc EXCEPT ![t] = "test"]
        /\ cur' = [cur EXCEPT ![t] = NoReq]
        /\ PostSendWR(ConnOf(t), cur[t].srcQP, cur[t].bufID - NumBufs, Signaled(t))
        /\ UNCHANGED <<rq, bufRecv, bufSend, sent, replies>>
    BY DEF PostSend, Goto
  <1>2. /\ pc \in [Threads -> Locations] /\ cur \in [Threads -> Req \cup {NoReq}]
        /\ VerbsTypeOK /\ LogKept
    BY Writes, WrittenStamps DEF Sound, ServerTypes, ThreadsTypeOK
  <1>3. cur[t] \in Req /\ Answerable(bufSend[cur[t].bufID - NumBufs], cur[t].srcQP)
    BY <1>1, Serving DEF InService, InServiceOf
  <1>4. Signaled(t) \in BOOLEAN /\ \A u \in Threads : u # t => cur'[u] = cur[u]
    BY <1>1, <1>2 DEF Signaled
  <1>5. Outgoing' /\ OneState'
    BY <1>1, <1>2, <1>3, <1>4, PostSendStates
  <1>6. InService'
    <2>1. \A u \in Threads : u # t => InServiceOf(u)'
      BY <1>1, <1>2, ServiceStays
    <2>2. InServiceOf(t)'
      BY <1>1, <1>2 DEF InServiceOf
    <2> QED
      BY <2>1, <2>2 DEF InService
  <1> QED
    BY <1>5, <1>6

LEMMA EchoThread ==
  ASSUME NumThreads <= NumQueues, Sound, NoDoubleService, Unique, OriginBy(bufRecv, sent),
         InService, Outgoing, OneState, [Next]_vars, NEW t \in Threads, Thread(t)
  PROVE  InService' /\ Outgoing' /\ OneState'
  <1>1. pc \in [Threads -> Locations] /\ cur \in [Threads -> Req \cup {NoReq}]
    BY DEF Sound, ServerTypes, ThreadsTypeOK
  <1>2. ASSUME NEW l \in Locations \ {"serve", "postRecv", "postSend"},
               pc' = [pc EXCEPT ![t] = l], pc[t] # "postSend",
               UNCHANGED <<rq, sq, bufRecv, bufSend, replies>>,
               \A u \in Threads : u # t => cur'[u] = cur[u]
        PROVE  InService' /\ Outgoing' /\ OneState'
    <2>1. pc'[t] = l /\ \A u \in Threads : u # t => pc'[u] = pc[u]
      BY <1>1, <1>2
    <2>2. InServiceOf(t)'
      BY <1>2, <2>1 DEF InServiceOf
    <2> QED
      BY <1>2, <2>1, <2>2, EchoMove
  <1>3. CASE UNCHANGED <<pc, rq, sq, bufRecv, bufSend, replies, cur>>
    <2>1. InService'
      BY <1>3, ServiceStays DEF InService
    <2>2. \A u \in Threads : Ready(u)' = Ready(u)
      BY <1>3 DEF Ready
    <2>3. LogKept
      BY Writes, WrittenStamps DEF Sound
    <2> QED
      BY <1>3, <2>1, <2>2, <2>3, StillStates
  <1>4. CASE SendCompletion(t) \/ Crash(t)
    BY <1>3, <1>4 DEF SendCompletion, Crash, verbsVars
  <1>5. CASE EnterBarrier(t) \/ LeaveBarrier(t) \/ Poll(t) \/ Idle(t) \/ Terminate(t) \/ Exit(t)
    BY <1>2, <1>5 DEF EnterBarrier, LeaveBarrier, Poll, Idle, Terminate, Exit, Goto, Locations,
       verbsVars
  <1>6. CASE LoopTest(t)
    BY <1>2, <1>6 DEF LoopTest, Goto, Locations, verbsVars
  <1>7. CASE InsertPriority(t)
    BY <1>2, <1>7 DEF InsertPriority, Goto, Locations, verbsVars
  <1>8. CASE EmplaceRequest(t)
    BY <1>2, <1>8 DEF EmplaceRequest, Goto, Locations, verbsVars
  <1>9. CASE ChooseRequest(t)
    <2>1. PICK p \in Priorities : ChosenFrom(t, p)
      BY <1>9, Choosing
    <2>2. /\ pc[t] = "drain" /\ pc' = [pc EXCEPT ![t] = "taking"]
          /\ UNCHANGED <<rq, sq, bufRecv, bufSend, replies>>
          /\ cur' = [cur EXCEPT ![t] = Head(metaCQ[GroupOf(t)][p])]
      BY <2>1 DEF ChosenFrom, verbsVars
    <2>3. \A u \in Threads : u # t => cur'[u] = cur[u]
      BY <1>1, <2>2
    <2> QED
      BY <1>2, <2>2, <2>3 DEF Locations
  <1> QED
    BY <1>4, <1>5, <1>6, <1>7, <1>8, <1>9, EchoPop, EchoServe, EchoPostRecv, EchoPostSend
       DEF Thread

LEMMA EchoNext ==
  ASSUME NumThreads <= NumQueues, Sound, NoDoubleService, Echo, [Next]_vars
  PROVE  Echo'
  <1>1. /\ NoneAhead /\ Unique /\ OriginBy(bufRecv, sent)
        /\ InService /\ Outgoing /\ OneState
    BY DEF Echo
  <1>2. NoneAhead' /\ Unique' /\ OriginBy(bufRecv, sent)' /\ LogKept
    BY <1>1, Writes, WrittenStamps, OriginNext DEF Sound
  <1>3. CASE Device
    BY <1>1, <1>2, <1>3, EchoDevice DEF Echo
  <1>4. CASE \E t \in Threads : Thread(t)
    BY <1>1, <1>2, <1>4, EchoThread DEF Echo
  <1>5. CASE UNCHANGED vars
    <2>1. UNCHANGED <<pc, rq, sq, bufRecv, bufSend, replies, cur>>
      BY <1>5 DEF vars, verbsVars, serverVars, threadVars
    <2>2. InService'
      BY <1>1, <2>1, ServiceStays DEF InService
    <2>3. \A u \in Threads : Ready(u)' = Ready(u)
      BY <2>1 DEF Ready
    <2> QED
      BY <1>1, <1>2, <2>1, <2>2, <2>3, StillStates DEF Echo
  <1> QED
    BY <1>3, <1>4, <1>5 DEF Next, AtRest

LEMMA EchoInit == Init => Echo
  <1> SUFFICES ASSUME Init
               PROVE  Echo
    OBVIOUS
  <1>1. /\ bufRecv = [b \in SendIds |-> 0] /\ sent = <<>>
        /\ cq = [q \in Queues |-> <<>>] /\ sq = [q \in Queues |-> <<>>]
        /\ replies = [i \in PacketIds |-> <<>>]
        /\ wc = [t \in Threads |-> <<>>] /\ pc = [t \in Threads |-> "init"]
        /\ metaCQ = [g \in Groups |-> [p \in Priorities |-> <<>>]]
    BY DEF Init, VerbsInit, ThreadsInit
  <1>2. NoneAhead /\ Unique
    BY <1>1 DEF NoneAhead, Unique
  <1>3. OriginBy(bufRecv, sent)
    BY <1>1 DEF OriginBy, RecvsFrom, BufsFrom
  <1>4. InService
    BY <1>1 DEF InService, InServiceOf
  <1>5. Answered = {} /\ (\A t \in Threads : Ready(t) = {}) /\ \A q \in Queues : PktsIn(sq[q]) = {}
    BY <1>1 DEF Answered, Ready, PktsIn
  <1>6. Outgoing
    BY <1>1, <1>5 DEF Outgoing
  <1>7. OneState
    BY <1>1, <1>5 DEF OneState
  <1> QED
    BY <1>2, <1>3, <1>4, <1>6, <1>7 DEF Echo

\* No packet is answered twice, no response goes to a client that did not send the
\* packet in it, and the terminate packet is not answered, when every thread has a
\* connection of its own, although a thread serves requests that others have polled and
\* posts their buffers on its own connection.
THEOREM GlobalEchoCorrect ==
  ASSUME NumThreads <= NumQueues
  PROVE  Spec => []EchoOnce
  <1> DEFINE Inv == Sound /\ NoDoubleService /\ Echo
  <1>1. Init => Inv
    BY SoundInit, ConserveInit, EchoInit
  <1>2. Inv /\ [Next]_vars => Inv'
    BY SoundNext, ConserveNext, EchoNext
  <1>3. Inv => EchoOnce
    <2>1. Outgoing => EchoOnce
      BY DEF Outgoing, Answered, Answerable, EchoOnce
    <2> QED
      BY <2>1 DEF Echo
  <1> HIDE DEF Inv
  <1> QED
    BY <1>1, <1>2, <1>3, PTL DEF Spec

=============================================================================
