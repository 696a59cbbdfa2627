--------------------------- MODULE ClosedLoopProofs ---------------------------
(***************************************************************************)
(* Proofs about ClosedLoop for every number of load threads, every window, *)
(* every number of requests and samples and every size of the server.      *)
(***************************************************************************)
EXTENDS ClosedLoop, ServerLemmas, FiniteSetTheorems

-----------------------------------------------------------------------------
(* The phases: where a thread can be for the number of barriers it entered. *)

LoadPhase ==
  << {"barrier", "ready"},
     {"barrier", "fill", "send", "loop", "poll", "handle", "resend", "drain", "drainHandle"},
     {"barrier", "close", "done"} >>

MeasPhase ==
  << {"barrier", "fill", "send", "loop", "poll", "handle", "resend", "ready"},
     {"barrier", "loop", "poll", "handle", "resend", "finish"},
     {"barrier", "dump", "await", "awaitHandle", "close", "done"} >>

InPhase(c, l, g) ==
  IF g = 0 THEN l = "connect"
  ELSE l \in (IF c = Meas THEN MeasPhase[g] ELSE LoadPhase[g])

ControlTypeOK ==
  /\ cpc \in [ClientThreads -> ClientLocations]
  /\ gate \in [ClientThreads -> 0 .. 3]

\* A thread that has left its third barrier has seen everybody enter it, and the
\* counters a load thread published before it entered are not touched afterwards.
Phases ==
  /\ ControlTypeOK
  /\ \A c \in ClientThreads : InPhase(c, cpc[c], gate[c])
  /\ (gate[Meas] = 3 /\ cpc[Meas] # "barrier") => \A d \in ClientThreads : gate[d] = 3

Published ==
  /\ {crcnt, cscnt} \subseteq [ClientThreads -> Nat]
  /\ DOMAIN allCnts = ClientThreads
  /\ \A c \in ClientThreads \ {Meas} : gate[c] = 3 => allCnts[c] = <<crcnt[c], cscnt[c]>>

LEMMA MeasIsClient == Meas \in ClientThreads /\ NumLoad \in Nat
  BY ClosedLoopAssumption DEF Meas, ClientThreads

\* The gates of the others never fall below the one thread c is leaving.
LEMMA PhasesNext == Phases /\ [Next]_vars => Phases'
  <1> SUFFICES ASSUME Phases, [Next]_vars
               PROVE  Phases'
    OBVIOUS
  <1> USE MeasIsClient
  <1>1. ControlTypeOK /\ \A c \in ClientThreads : InPhase(c, cpc[c], gate[c])
    BY DEF Phases
  <1>2. ASSUME UNCHANGED <<cpc, gate>>
        PROVE  Phases'
    BY <1>2 DEF Phases, ControlTypeOK
  <1>3. ASSUME NEW c \in ClientThreads, NEW l, NEW g \in 0 .. 3,
               cpc' = [cpc EXCEPT ![c] = l], gate' = [gate EXCEPT ![c] = g],
               InPhase(c, l, g), l \in ClientLocations, g >= gate[c],
               (c = Meas /\ g = 3 /\ l # "barrier") =>
                  (\A d \in ClientThreads : gate[d] = 3)
        PROVE  Phases'
    <2>1. ControlTypeOK'
      BY <1>1, <1>3 DEF ControlTypeOK
    <2>2. \A d \in ClientThreads : InPhase(d, cpc'[d], gate'[d])
      BY <1>1, <1>3 DEF ControlTypeOK
    <2>3. (gate'[Meas] = 3 /\ cpc'[Meas] # "barrier") => \A d \in ClientThreads : gate'[d] = 3
      <3>1. CASE c = Meas
        BY <1>1, <1>3, <3>1 DEF ControlTypeOK
      <3>2. CASE c # Meas
        BY <1>1, <1>3, <3>2 DEF ControlTypeOK, Phases
      <3> QED
        BY <3>1, <3>2
    <2> QED
      BY <2>1, <2>2, <2>3 DEF Phases, InPhase
  <1>4. ASSUME NEW c \in ClientThreads, NEW l, UNCHANGED gate,
               cpc' = [cpc EXCEPT ![c] = l], InPhase(c, l, gate[c]), l \in ClientLocations,
               (c = Meas /\ gate[c] = 3) => cpc[c] # "barrier"
        PROVE  Phases'
    BY <1>1, <1>3, <1>4 DEF ControlTypeOK, Phases
  <1>5. ASSUME NEW c \in ClientThreads, ClientThread(c)
        PROVE  Phases'
    <2> USE DEF CGoto, InPhase, LoadPhase, MeasPhase, ClientLocations, Handling, ControlTypeOK
    <2>0. InPhase(c, cpc[c], gate[c]) /\ gate[c] \in 0 .. 3 /\ cpc[c] \in ClientLocations
      BY <1>1, <1>5
    <2>1. ASSUME EnterBarrier(c)
          PROVE  Phases'
      <3>1. gate[c] \in {0, 1} /\ InPhase(c, "barrier", gate[c] + 1)
        BY <2>0, <2>1 DEF EnterBarrier
      <3>2. /\ cpc' = [cpc EXCEPT ![c] = "barrier"]
            /\ gate' = [gate EXCEPT ![c] = gate[c] + 1]
            /\ gate[c] + 1 \in 0 .. 3 /\ gate[c] + 1 >= gate[c]
            /\ "barrier" \in ClientLocations
        BY <2>1, <3>1 DEF EnterBarrier
      <3> HIDE DEF InPhase, ClientLocations
      <3> QED
        BY <3>1, <3>2, <1>3
    <2>2. ASSUME LeaveBarrier(c)
          PROVE  Phases'
      <3>1. /\ gate' = [gate EXCEPT ![c] = gate[c]]
            /\ InPhase(c, AfterBarrier(c), gate[c])
            /\ AfterBarrier(c) \in ClientLocations
        BY <2>0, <2>2, <1>1 DEF LeaveBarrier, AfterBarrier, clientRun
      <3>2. gate[c] = 3 => \A d \in ClientThreads : gate[d] = 3
        BY <2>0, <2>2, <1>1 DEF LeaveBarrier
      <3> QED
        BY <2>0, <2>2, <1>1, <1>3, <3>1, <3>2 DEF LeaveBarrier
    <2>3. ASSUME Finish(c) \/ Publish(c)
          PROVE  Phases'
      BY <2>0, <2>3, <1>1, <1>3 DEF Finish, Publish
    <2>4. ASSUME PostReceives(c) \/ FillWindow(c) \/ LoopTest(c) \/ PollLoop(c)
          PROVE  Phases'
      BY <2>0, <2>4, <1>1, <1>4 DEF PostReceives, FillWindow, LoopTest, PollLoop,
         AfterLoop, clientRun
    <2>5. ASSUME HandleSend(c) \/ HandleRecv(c) \/ HandleLate(c) \/ Resend(c)
          PROVE  Phases'
      <3>1. ASSUME NEW left, NEW n, cpc[c] \in Handling
            PROVE  /\ InPhase(c, Onward(c, left, n), gate[c])
                   /\ Onward(c, left, n) \in ClientLocations
        BY <2>0, <3>1 DEF Onward
      <3>2. CASE HandleSend(c) \/ HandleLate(c)
        BY <2>0, <3>1, <3>2, <1>1, <1>4 DEF HandleSend, HandleLate, clientRun
      <3>3. CASE HandleRecv(c)
        <4>1. InPhase(c, "resend", gate[c])
          BY SMTT(30), <2>0, <3>3 DEF HandleRecv
        <4>2. /\ "resend" \in ClientLocations
              /\ cpc[c] \in Handling /\ cpc[c] # "barrier" /\ UNCHANGED gate
          BY <3>3 DEF HandleRecv
        <4> HIDE DEF InPhase, ClientLocations, Handling
        <4> QED
          BY <3>1, <3>3, <4>1, <4>2, <1>4 DEF HandleRecv
      <3>4. CASE Resend(c)
        <4>1. /\ InPhase(c, "loop", gate[c]) /\ InPhase(c, "handle", gate[c])
              /\ cpc[c] # "barrier" /\ UNCHANGED gate
              /\ {"loop", "handle"} \subseteq ClientLocations
          BY <2>0, <3>4 DEF Resend, clientRun
        <4> HIDE DEF InPhase, ClientLocations
        <4> QED
          BY <3>4, <4>1, <1>4 DEF Resend
      <3> QED
        BY <2>5, <3>2, <3>3, <3>4
    <2>6. ASSUME DrainPoll(c) \/ Dump(c) \/ Close(c)
          PROVE  Phases'
      BY <2>0, <2>6, <1>1, <1>4 DEF DrainPoll, Dump, Close, clientRun
    <2> QED
      BY <2>1, <2>2, <2>3, <2>4, <2>5, <2>6, <1>5 DEF ClientThread
  <1>6. CASE Network
    BY <1>6, <1>2 DEF Network, Transmit, Respond, clientRun
  <1>7. CASE \E t \in Threads : ServerThread(t) /\ UNCHANGED clientVars
    BY <1>7, <1>2 DEF clientVars, clientRun
  <1>8. CASE UNCHANGED vars
    BY <1>8, <1>2 DEF vars, clientVars, clientRun
  <1> QED
    BY <1>5, <1>6, <1>7, <1>8 DEF Next

\* Thread c counts completions only in its loops.
LEMMA PublishedNext == Phases /\ Published /\ [Next]_vars => Published'
  <1> SUFFICES ASSUME Phases, Published, [Next]_vars
               PROVE  Published'
    OBVIOUS
  <1>1. ControlTypeOK /\ \A c \in ClientThreads : InPhase(c, cpc[c], gate[c])
    BY DEF Phases
  <1>2. ASSUME UNCHANGED <<gate, allCnts, crcnt, cscnt>>
        PROVE  Published'
    BY <1>2 DEF Published
  <1>3. ASSUME NEW c \in ClientThreads, ClientThread(c)
        PROVE  Published'
    <2>0. InPhase(c, cpc[c], gate[c]) /\ gate[c] \in 0 .. 3
      BY <1>1 DEF ControlTypeOK
    <2>1. ASSUME Finish(c) \/ Publish(c)
          PROVE  Published'
      <3>1. /\ allCnts' = [allCnts EXCEPT ![c] = <<crcnt[c], cscnt[c]>>]
            /\ gate' = [gate EXCEPT ![c] = @ + 1]
            /\ UNCHANGED <<crcnt, cscnt>>
        BY <2>1 DEF Finish, Publish, clientCounts
      <3> QED
        BY <3>1, <1>1 DEF Published, ControlTypeOK
    <2>2. ASSUME UNCHANGED <<allCnts, crcnt, cscnt>>, gate' = [gate EXCEPT ![c] = @ + 1],
                 gate[c] \in {0, 1}
          PROVE  Published'
      BY <2>2, <1>1 DEF Published, ControlTypeOK
    <2>3. ASSUME EnterBarrier(c)
          PROVE  Published'
      <3>1. gate[c] \in {0, 1}
        BY <2>0, <2>3 DEF EnterBarrier, InPhase, LoadPhase, MeasPhase
      <3> QED
        BY <2>2, <2>3, <3>1 DEF EnterBarrier, clientCounts
    <2>4. ASSUME HandleSend(c) \/ HandleRecv(c) \/ HandleLate(c)
          PROVE  Published'
      <3>1. c # Meas => gate[c] # 3
        BY <2>0, <2>4 DEF HandleSend, HandleRecv, HandleLate, InPhase, LoadPhase, MeasPhase,
           Handling
      <3>2. /\ UNCHANGED <<gate, allCnts>>
            /\ crcnt' = crcnt \/ crcnt' = [crcnt EXCEPT ![c] = @ + 1]
            /\ cscnt' = cscnt \/ cscnt' = [cscnt EXCEPT ![c] = @ + 1]
        BY <2>4 DEF HandleSend, HandleRecv, HandleLate, clientRun
      <3>3. {crcnt', cscnt'} \subseteq [ClientThreads -> Nat]
        BY <3>2 DEF Published
      <3> QED
        BY <3>1, <3>2, <3>3 DEF Published
    <2> QED
      BY <1>2, <1>3, <2>1, <2>3, <2>4 DEF ClientThread, LeaveBarrier, PostReceives, FillWindow,
         LoopTest, PollLoop, Resend, DrainPoll, Dump, Close, clientRun, clientCounts
  <1>4. CASE Network
    BY <1>4, <1>2 DEF Network, Transmit, Respond, clientRun, clientCounts
  <1>5. CASE \E t \in Threads : ServerThread(t) /\ UNCHANGED clientVars
    BY <1>5, <1>2 DEF clientVars, clientRun, clientCounts
  <1>6. CASE UNCHANGED vars
    BY <1>6, <1>2 DEF vars, clientVars, clientRun, clientCounts
  <1> QED
    BY <1>3, <1>4, <1>5, <1>6 DEF Next

LEMMA PhasesInit == Init => Phases /\ Published
  BY MeasIsClient DEF Init, ClientInit, Phases, Published, ControlTypeOK, InPhase,
     ClientLocations, Handling

\* The counters the measurement thread adds up after the last barrier are the final
\* counters of every load thread (the sums over all_rcnts and all_scnts).
THEOREM CountsCorrect == Spec => []CountsFinal
  <1>1. Phases /\ Published => CountsFinal
    <2> SUFFICES ASSUME Phases, Published,
                        cpc[Meas] \in {"dump", "await", "awaitHandle", "close", "done"},
                        NEW c \in ClientThreads \ {Meas}
                 PROVE  allCnts[c] = <<crcnt[c], cscnt[c]>>
      BY DEF CountsFinal
    <2>1. gate[Meas] = 3
      BY MeasIsClient DEF Phases, ControlTypeOK, InPhase, MeasPhase
    <2> QED
      BY <2>1 DEF Phases, Published
  <1> QED
    BY <1>1, PhasesInit, PhasesNext, PublishedNext, PTL DEF Spec


-----------------------------------------------------------------------------
(* The mask of the round robin stays below the number of queues. *)

LEMMA LeastElement ==
  ASSUME NEW S, S \subseteq Nat, S # {}
  PROVE  \E n \in S : \A x \in S : n <= x
  <1>1. PICK p \in S : \A x \in S : ~(<<x, p>> \in OpToRel(<, Nat))
    BY NatLessThanWellFounded, WFMin
  <1>2. \A x \in S : p <= x
    <2> TAKE x \in S
    <2>1. ~(x < p)
      BY <1>1 DEF OpToRel
    <2> QED
      BY <2>1
  <1> QED
    BY <1>2

LEMMA Halves ==
  ASSUME NEW a \in Nat
  PROVE  /\ a \div 2 \in Nat /\ a % 2 \in {0, 1} /\ a = 2 * (a \div 2) + (a % 2)
         /\ a \div 2 <= a /\ (a # 0 => a \div 2 < a)
  <1>1. a \div 2 \in Nat /\ a % 2 \in 0 .. 1 /\ a = 2 * (a \div 2) + (a % 2)
    OBVIOUS
  <1> DEFINE h == a \div 2
             r == a % 2
  <1>2. h \in Nat /\ r \in 0 .. 1 /\ a = 2 * h + r
    BY <1>1
  <1> HIDE DEF h, r
  <1>3. h <= a /\ (a # 0 => h < a) /\ r \in {0, 1}
    BY <1>2
  <1> QED
    BY <1>2, <1>3 DEF h, r

\* Row a of the table of And, from the rows above it.
AndRow(f, a) ==
  [b \in 0 .. NumQueues |->
     IF a = 0 THEN 0 ELSE 2 * f[a \div 2][b \div 2] + (a % 2) * (b % 2)]

\* f has the rows up to n.
AndUpTo(f, n) == f = [a \in 0 .. n |-> AndRow(f, a)]

LEMMA AndExists ==
  ASSUME NEW n \in Nat
  PROVE  \E f : AndUpTo(f, n)
  <1> DEFINE Bad == {m \in Nat : ~\E f : AndUpTo(f, m)}
  <1> SUFFICES ASSUME Bad # {}
               PROVE  FALSE
    OBVIOUS
  <1>1. PICK m \in Bad : \A k \in Bad : m <= k
    BY LeastElement
  <1>2. m \in Nat
    OBVIOUS
  <1>3. CASE m = 0
    <2> DEFINE g == [a \in 0 .. 0 |-> [b \in 0 .. NumQueues |-> 0]]
    <2>1. \A a \in 0 .. 0 : AndRow(g, a) = [b \in 0 .. NumQueues |-> 0]
      BY DEF AndRow
    <2>2. AndUpTo(g, 0)
      BY <2>1 DEF AndUpTo
    <2> QED
      BY <1>1, <1>3, <2>2
  <1>4. CASE m # 0
    <2>1. m - 1 \in Nat /\ m - 1 \notin Bad
      BY <1>1, <1>2, <1>4
    <2>2. PICK f : AndUpTo(f, m - 1)
      BY <2>1
    <2> DEFINE g == [a \in 0 .. m |-> IF a = m THEN AndRow(f, m) ELSE f[a]]
    <2>3. \A a \in 0 .. m - 1 : g[a] = f[a]
      BY <1>2
    <2>4. \A a \in 0 .. m : AndRow(g, a) = AndRow(f, a)
      <3> TAKE a \in 0 .. m
      <3>1. CASE a = 0
        BY <3>1 DEF AndRow
      <3>2. CASE a # 0
        <4>1. a \in Nat /\ a \div 2 \in Nat /\ a \div 2 < a /\ a <= m
          BY <1>2, <3>2, Halves
        <4>2. a \div 2 \in 0 .. m - 1
          BY <1>2, <4>1
        <4>3. g[a \div 2] = f[a \div 2]
          BY <2>3, <4>2
        <4> HIDE DEF g
        <4> QED
          BY <4>3 DEF AndRow
      <3> QED
        BY <3>1, <3>2
    <2>5. \A a \in 0 .. m : g[a] = AndRow(f, a)
      <3> TAKE a \in 0 .. m
      <3>1. CASE a = m
        BY <3>1
      <3>2. CASE a # m
        <4>1. a \in 0 .. m - 1
          BY <1>2, <3>2
        <4>2. f[a] = AndRow(f, a)
          BY <2>2, <4>1 DEF AndUpTo
        <4> QED
          BY <2>3, <4>1, <4>2
      <3> QED
        BY <3>1, <3>2
    <2>6. AndUpTo(g, m)
      <3>1. g = [a \in 0 .. m |-> g[a]]
        OBVIOUS
      <3> HIDE DEF g
      <3> QED
        BY <2>4, <2>5, <3>1 DEF AndUpTo
    <2> QED
      BY <1>1, <2>6
  <1> QED
    BY <1>3, <1>4

LEMMA AndDefined == \A a \in 0 .. NumQueues : And[a] = AndRow(And, a)
  <1>1. NumQueues \in Nat
    BY VerbsAssumption
  <1>2. PICK f : AndUpTo(f, NumQueues)
    BY <1>1, AndExists
  <1>3. And = CHOOSE g : AndUpTo(g, NumQueues)
    BY DEF And, AndUpTo, AndRow
  <1>4. AndUpTo(And, NumQueues)
    BY <1>2, <1>3
  <1> QED
    BY <1>4 DEF AndUpTo

\* The bitwise and of two numbers is at most the first.
LEMMA AndBounded ==
  \A a \in 0 .. NumQueues : \A b \in 0 .. NumQueues : And[a][b] \in 0 .. a
  <1>0. NumQueues \in Nat
    BY VerbsAssumption
  <1> DEFINE Bad == {a \in 0 .. NumQueues : ~\A b \in 0 .. NumQueues : And[a][b] \in 0 .. a}
  <1> SUFFICES ASSUME Bad # {}
               PROVE  FALSE
    OBVIOUS
  <1>1. PICK m \in Bad : \A k \in Bad : m <= k
    <2>1. Bad \subseteq Nat
      BY <1>0
    <2> HIDE DEF Bad
    <2> QED
      BY <2>1, LeastElement
  <1>2. m \in 0 .. NumQueues /\ m \in Nat
    BY <1>0
  <1>3. And[m] = AndRow(And, m)
    BY <1>2, AndDefined
  <1>4. ASSUME NEW b \in 0 .. NumQueues
        PROVE  And[m][b] \in 0 .. m
    <2>1. CASE m = 0
      BY <1>3, <2>1 DEF AndRow
    <2>2. CASE m # 0
      <3> DEFINE h == m \div 2
                 k == b \div 2
      <3>1. h \in Nat /\ h < m /\ m % 2 \in {0, 1} /\ m = 2 * h + (m % 2)
        BY <1>2, <2>2, Halves
      <3>2. b \in Nat /\ k \in Nat /\ k <= b /\ b % 2 \in {0, 1}
        BY <1>0, Halves
      <3>3. h \in 0 .. NumQueues /\ k \in 0 .. NumQueues /\ h \notin Bad
        <4> HIDE DEF h, k, Bad
        <4>1. ~(m <= h) /\ h <= NumQueues
          BY <1>0, <1>2, <3>1
        <4>2. h \notin Bad
          BY <1>1, <4>1
        <4> QED
          BY <1>0, <3>1, <3>2, <4>1, <4>2
      <3>4. And[h][k] \in 0 .. h
        BY <3>3
      <3>5. And[m][b] = 2 * And[h][k] + (m % 2) * (b % 2)
        BY <1>3, <2>2 DEF AndRow
      <3>6. (m % 2) * (b % 2) \in 0 .. m % 2
        BY <3>1, <3>2
      <3>7. \A x, y, z, u \in Int : x \in 0 .. y /\ z \in 0 .. u => 2 * x + z \in 0 .. 2 * y + u
        OBVIOUS
      <3>8. And[h][k] \in Int /\ h \in Int /\ m % 2 \in Int /\ (m % 2) * (b % 2) \in Int
        BY <3>1, <3>4, <3>6
      <3> HIDE DEF h, k, Bad
      <3> QED
        BY <3>1, <3>4, <3>5, <3>6, <3>7, <3>8
    <2> QED
      BY <2>1, <2>2
  <1> QED
    BY <1>4

\* The offset names a queue of the server, whatever their number.
LEMMA NextQueueInRange == \A o \in Queues : NextQueue(o) \in Queues
  <1> TAKE o \in Queues
  <1>1. NumQueues \in Nat \ {0}
    BY VerbsAssumption
  <1>2. o + 1 \in 0 .. NumQueues /\ NumQueues - 1 \in 0 .. NumQueues
    BY <1>1 DEF Queues
  <1>3. NextQueue(o) \in 0 .. NumQueues - 1
    BY <1>2, AndBounded DEF NextQueue
  <1> QED
    BY <1>3 DEF Queues

-----------------------------------------------------------------------------
(* Entries of a family of queues: L gives the contents of each place, T the entries *)
(* of a place that count.                                                           *)

EntriesIn(L, T) ==
  UNION {{<<x, i>> : i \in {j \in DOMAIN L[x] : L[x][j] \in T[x]}} : x \in DOMAIN L}

HowMany(L, T) == Cardinality(EntriesIn(L, T))

LEMMA EntryIn ==
  ASSUME NEW L, NEW T, NEW x \in DOMAIN L, NEW i
  PROVE  <<x, i>> \in EntriesIn(L, T) <=> i \in DOMAIN L[x] /\ L[x][i] \in T[x]
  BY DEF EntriesIn

LEMMA EntryShape ==
  ASSUME NEW L, NEW T, NEW y \in EntriesIn(L, T)
  PROVE  \E x \in DOMAIN L : \E i \in DOMAIN L[x] : y = <<x, i>> /\ L[x][i] \in T[x]
  BY DEF EntriesIn

\* Queue a gets one entry more.
LEMMA EntryAdded ==
  ASSUME NEW L, NEW M, NEW T, NEW S, DOMAIN M = DOMAIN L, NEW a \in DOMAIN L,
         L[a] \in Seq(S), NEW e \in S, M[a] = Append(L[a], e),
         \A x \in DOMAIN L : x # a => M[x] = L[x], IsFiniteSet(EntriesIn(L, T))
  PROVE  /\ IsFiniteSet(EntriesIn(M, T))
         /\ HowMany(M, T) = IF e \in T[a] THEN HowMany(L, T) + 1 ELSE HowMany(L, T)
  <1> DEFINE n == Len(L[a]) + 1
  <1>1. /\ n \in Nat /\ DOMAIN L[a] = 1 .. n - 1 /\ DOMAIN M[a] = 1 .. n /\ M[a][n] = e
        /\ \A i \in 1 .. n - 1 : M[a][i] = L[a][i]
    BY AppendProperties
  <1> HIDE DEF n
  <1>2. <<a, n>> \notin EntriesIn(L, T)
    <2>1. n \notin DOMAIN L[a]
      BY <1>1
    <2> QED
      BY <2>1, EntryIn
  <1>3. ASSUME NEW x \in DOMAIN L, NEW i
        PROVE  <<x, i>> \in EntriesIn(M, T) <=>
                 <<x, i>> \in EntriesIn(L, T) \/ (x = a /\ i = n /\ e \in T[a])
    <2>1. <<x, i>> \in EntriesIn(M, T) <=> i \in DOMAIN M[x] /\ M[x][i] \in T[x]
      BY EntryIn
    <2>2. <<x, i>> \in EntriesIn(L, T) <=> i \in DOMAIN L[x] /\ L[x][i] \in T[x]
      BY EntryIn
    <2>3. CASE x # a
      BY <2>1, <2>2, <2>3
    <2>4. CASE x = a
      <3>1. CASE i = n
        BY <1>1, <2>1, <2>2, <2>4, <3>1
      <3>2. CASE i # n
        <4>1. i \in DOMAIN M[a] <=> i \in DOMAIN L[a]
          BY <1>1, <3>2
        <4>2. i \in DOMAIN L[a] => M[a][i] = L[a][i]
          BY <1>1
        <4> QED
          BY <2>1, <2>2, <2>4, <3>2, <4>1, <4>2
      <3> QED
        BY <3>1, <3>2
    <2> QED
      BY <2>3, <2>4
  <1>4. CASE e \in T[a]
    <2>1. EntriesIn(M, T) = EntriesIn(L, T) \cup {<<a, n>>}
      <3>1. \A y \in EntriesIn(M, T) : y \in EntriesIn(L, T) \/ y = <<a, n>>
        BY <1>3, EntryShape
      <3>2. \A y \in EntriesIn(L, T) : y \in EntriesIn(M, T)
        BY <1>3, EntryShape
      <3>3. <<a, n>> \in EntriesIn(M, T)
        BY <1>1, <1>3, <1>4
      <3> QED
        BY <3>1, <3>2, <3>3
    <2> QED
      BY <1>2, <1>4, <2>1, FS_AddElement DEF HowMany
  <1>5. CASE e \notin T[a]
    <2>1. EntriesIn(M, T) = EntriesIn(L, T)
      <3>1. \A y \in EntriesIn(M, T) : y \in EntriesIn(L, T)
        BY <1>3, <1>5, EntryShape
      <3>2. \A y \in EntriesIn(L, T) : y \in EntriesIn(M, T)
        BY <1>3, EntryShape
      <3> QED
        BY <3>1, <3>2
    <2> QED
      BY <1>5, <2>1 DEF HowMany
  <1> QED
    BY <1>4, <1>5

\* A renaming of entries keeps their number.
LEMMA EntriesRenamed ==
  ASSUME NEW A, NEW B, IsFiniteSet(A), NEW f \in [A -> B],
         \A y, z \in A : f[y] = f[z] => y = z, \A z \in B : \E y \in A : f[y] = z
  PROVE  IsFiniteSet(B) /\ Cardinality(B) = Cardinality(A)
  <1>1. f \in Bijection(A, B)
    BY DEF Bijection, Injection, Surjection, IsInjective
  <1>2. ExistsBijection(A, B)
    BY <1>1 DEF ExistsBijection
  <1> QED
    BY <1>2, FS_Bijection

\* M has k entries more than L.
Grows(L, M, T, k) ==
  IsFiniteSet(EntriesIn(L, T)) =>
    /\ IsFiniteSet(EntriesIn(M, T))
    /\ HowMany(L, T) \in Nat /\ HowMany(M, T) \in Nat
    /\ HowMany(M, T) = HowMany(L, T) + k

\* Queue a loses its first entry.
LEMMA GrowsByTail ==
  ASSUME NEW L, NEW M, NEW T, NEW S, DOMAIN M = DOMAIN L, NEW a \in DOMAIN L,
         L[a] \in Seq(S), L[a] # <<>>, M[a] = Tail(L[a]),
         \A x \in DOMAIN L : x # a => M[x] = L[x]
  PROVE  Grows(L, M, T, IF Head(L[a]) \in T[a] THEN 0 - 1 ELSE 0)
  <1> SUFFICES ASSUME IsFiniteSet(EntriesIn(L, T))
               PROVE  Grows(L, M, T, IF Head(L[a]) \in T[a] THEN 0 - 1 ELSE 0)
    BY DEF Grows
  <1> DEFINE n == Len(L[a])
             A == EntriesIn(L, T) \ {<<a, 1>>}
             f == [y \in A |-> IF y[1] = a THEN <<a, y[2] - 1>> ELSE y]
  <1>1. /\ n \in Nat \ {0} /\ DOMAIN L[a] = 1 .. n /\ DOMAIN M[a] = 1 .. n - 1
        /\ \A i \in 1 .. n - 1 : M[a][i] = L[a][i + 1]
        /\ Head(L[a]) = L[a][1]
    BY TailProperties
  <1> HIDE DEF n
  <1>2. ASSUME NEW y \in A
        PROVE  \E x \in DOMAIN L : \E i \in DOMAIN L[x] :
                 /\ y = <<x, i>> /\ L[x][i] \in T[x]
                 /\ x = a => i # 1 /\ f[y] = <<a, i - 1>> /\ <<a, i - 1>> \in EntriesIn(M, T)
                 /\ x # a => f[y] = y /\ y \in EntriesIn(M, T)
    <2>1. PICK x \in DOMAIN L : \E i \in DOMAIN L[x] : y = <<x, i>> /\ L[x][i] \in T[x]
      BY EntryShape
    <2>2. PICK i \in DOMAIN L[x] : y = <<x, i>> /\ L[x][i] \in T[x]
      BY <2>1
    <2>3. CASE x = a
      <3>1. i \in 1 .. n /\ i # 1
        BY <1>1, <2>2, <2>3
      <3>2. i - 1 \in 1 .. n - 1 /\ (i - 1) + 1 = i
        BY <1>1, <3>1
      <3>3. M[a][i - 1] \in T[a]
        BY <1>1, <2>2, <2>3, <3>2
      <3>4. <<a, i - 1>> \in EntriesIn(M, T)
        BY <1>1, <3>2, <3>3, EntryIn
      <3>5. y[1] = a /\ y[2] = i
        BY <2>2, <2>3
      <3>6. f[y] = <<a, i - 1>>
        BY <3>5
      <3> QED
        BY <2>2, <2>3, <3>1, <3>4, <3>6
    <2>4. CASE x # a
      <3>1. y[1] # a
        BY <2>2, <2>4
      <3>2. f[y] = y
        BY <3>1
      <3>3. y \in EntriesIn(M, T)
        BY <2>2, <2>4, EntryIn
      <3> QED
        BY <2>2, <2>4, <3>2, <3>3
    <2> QED
      BY <2>3, <2>4
  <1>3. f \in [A -> EntriesIn(M, T)]
    <2>1. \A y \in A : f[y] \in EntriesIn(M, T)
      BY ZenonT(60), <1>2
    <2>2. f = [y \in A |-> f[y]]
      OBVIOUS
    <2> HIDE DEF f, A
    <2> QED
      BY <2>1, <2>2
  <1>4. ASSUME NEW y \in A, NEW z \in A, f[y] = f[z]
        PROVE  y = z
    <2> HIDE DEF f, A
    <2>9. \A e \in A : \E x \in DOMAIN L : \E i \in DOMAIN L[x] :
            /\ e = <<x, i>>
            /\ x = a => f[e] = <<a, i - 1>>
            /\ x # a => f[e] = e
      <3> TAKE e \in A
      <3>1. PICK x \in DOMAIN L : \E i \in DOMAIN L[x] :
              /\ e = <<x, i>> /\ L[x][i] \in T[x]
              /\ x = a => i # 1 /\ f[e] = <<a, i - 1>> /\ <<a, i - 1>> \in EntriesIn(M, T)
              /\ x # a => f[e] = e /\ e \in EntriesIn(M, T)
        BY <1>2
      <3> QED
        BY <3>1
    <2>1. PICK x \in DOMAIN L : \E i \in DOMAIN L[x] :
            /\ y = <<x, i>>
            /\ x = a => f[y] = <<a, i - 1>>
            /\ x # a => f[y] = y
      BY <2>9
    <2>2. PICK i \in DOMAIN L[x] :
            /\ y = <<x, i>>
            /\ x = a => f[y] = <<a, i - 1>>
            /\ x # a => f[y] = y
      BY <2>1
    <2>3. PICK w \in DOMAIN L : \E j \in DOMAIN L[w] :
            /\ z = <<w, j>>
            /\ w = a => f[z] = <<a, j - 1>>
            /\ w # a => f[z] = z
      BY <2>9
    <2>4. PICK j \in DOMAIN L[w] :
            /\ z = <<w, j>>
            /\ w = a => f[z] = <<a, j - 1>>
            /\ w # a => f[z] = z
      BY <2>3
    <2>5. CASE x = a /\ w = a
      <3>1. <<a, i - 1>> = <<a, j - 1>>
        BY <1>4, <2>2, <2>4, <2>5
      <3>2. i \in Int /\ j \in Int /\ i - 1 = j - 1
        BY <1>1, <2>5, <3>1
      <3> QED
        BY <2>2, <2>4, <2>5, <3>2
    <2>6. CASE x # a /\ w # a
      BY <1>4, <2>2, <2>4, <2>6
    <2>7. CASE x = a /\ w # a
      <3>1. <<a, i - 1>> = <<w, j>>
        BY <1>4, <2>2, <2>4, <2>7
      <3> QED
        BY <2>7, <3>1
    <2>8. CASE x # a /\ w = a
      <3>1. <<x, i>> = <<a, j - 1>>
        BY <1>4, <2>2, <2>4, <2>8
      <3> QED
        BY <2>8, <3>1
    <2> QED
      BY <2>5, <2>6, <2>7, <2>8
  <1>5. ASSUME NEW z \in EntriesIn(M, T)
        PROVE  \E y \in A : f[y] = z
    <2>1. PICK x \in DOMAIN M : \E i \in DOMAIN M[x] : z = <<x, i>> /\ M[x][i] \in T[x]
      BY EntryShape
    <2>2. PICK i \in DOMAIN M[x] : z = <<x, i>> /\ M[x][i] \in T[x]
      BY <2>1
    <2>3. CASE x = a
      <3>1. i \in 1 .. n - 1 /\ i + 1 \in DOMAIN L[a] /\ i + 1 # 1 /\ (i + 1) - 1 = i
        BY <1>1, <2>2, <2>3
      <3>2. L[a][i + 1] \in T[a]
        BY <1>1, <2>2, <2>3, <3>1
      <3>3. <<a, i + 1>> \in EntriesIn(L, T)
        BY <3>1, <3>2, EntryIn
      <3>4. <<a, i + 1>> # <<a, 1>>
        BY <3>1
      <3>5. <<a, i + 1>> \in A
        BY <3>3, <3>4
      <3>6. f[<<a, i + 1>>] = <<a, i>>
        BY <3>1, <3>5
      <3> QED
        BY <2>2, <2>3, <3>5, <3>6
    <2>4. CASE x # a
      <3>1. z \in EntriesIn(L, T)
        BY <2>2, <2>4, EntryIn
      <3>2. z # <<a, 1>> /\ z[1] # a
        BY <2>2, <2>4
      <3>3. z \in A
        BY <3>1, <3>2
      <3>4. f[z] = z
        BY <3>2, <3>3
      <3> QED
        BY <3>3, <3>4
    <2> QED
      BY <2>3, <2>4
  <1>6. /\ IsFiniteSet(A) /\ HowMany(L, T) \in Nat
        /\ Cardinality(A) = IF <<a, 1>> \in EntriesIn(L, T) THEN HowMany(L, T) - 1
                            ELSE HowMany(L, T)
    BY FS_RemoveElement, FS_CardinalityType DEF HowMany
  <1>7. IsFiniteSet(EntriesIn(M, T)) /\ HowMany(M, T) = Cardinality(A)
    <2> HIDE DEF f, A
    <2> QED
      BY <1>3, <1>4, <1>5, <1>6, EntriesRenamed DEF HowMany
  <1>8. <<a, 1>> \in EntriesIn(L, T) <=> Head(L[a]) \in T[a]
    <2>1. 1 \in DOMAIN L[a]
      BY <1>1
    <2>2. <<a, 1>> \in EntriesIn(L, T) <=> 1 \in DOMAIN L[a] /\ L[a][1] \in T[a]
      BY EntryIn
    <2> QED
      BY <1>1, <2>1, <2>2
  <1>9. HowMany(M, T) \in Nat
    BY <1>7, FS_CardinalityType DEF HowMany
  <1> HIDE DEF A, f
  <1> QED
    BY <1>6, <1>7, <1>8, <1>9 DEF Grows

\* The first n entries of queue a go to the empty queue b.
LEMMA GrowsByMove ==
  ASSUME NEW L, NEW M, NEW T, NEW S, DOMAIN M = DOMAIN L, NEW a \in DOMAIN L,
         NEW b \in DOMAIN L, a # b, T[a] = T[b], L[b] = <<>>,
         L[a] \in Seq(S), NEW n \in 0 .. Len(L[a]),
         M[a] = SubSeq(L[a], n + 1, Len(L[a])), M[b] = SubSeq(L[a], 1, n),
         \A x \in DOMAIN L : x \notin {a, b} => M[x] = L[x]
  PROVE  Grows(L, M, T, 0)
  <1> SUFFICES ASSUME IsFiniteSet(EntriesIn(L, T))
               PROVE  Grows(L, M, T, 0)
    BY DEF Grows
  <1> DEFINE N == Len(L[a])
             A == EntriesIn(L, T)
             f == [y \in A |-> IF y[1] = a
                                 THEN IF y[2] <= n THEN <<b, y[2]>> ELSE <<a, y[2] - n>>
                                 ELSE y]
  <1>1. /\ N \in Nat /\ n \in 0 .. N /\ DOMAIN L[a] = 1 .. N
        /\ DOMAIN M[a] = 1 .. N - n /\ DOMAIN M[b] = 1 .. n /\ DOMAIN L[b] = {}
        /\ \A i \in 1 .. N - n : M[a][i] = L[a][n + i]
        /\ \A i \in 1 .. n : M[b][i] = L[a][i]
    <2>1. N \in Nat /\ n \in 0 .. N /\ DOMAIN L[a] = 1 .. N
      OBVIOUS
    <2>2. DOMAIN M[b] = 1 .. n /\ \A i \in 1 .. n : M[b][i] = L[a][i]
      BY <2>1, SubSeqProperties
    <2>3. DOMAIN M[a] = 1 .. N - n /\ \A i \in 1 .. N - n : M[a][i] = L[a][n + i]
      BY <2>1, SubSeqProperties
    <2> QED
      BY <2>1, <2>2, <2>3
  <1> HIDE DEF N
  <1>2. ASSUME NEW y \in A
        PROVE  \E x \in DOMAIN L : \E i \in DOMAIN L[x] :
                 /\ y = <<x, i>> /\ L[x][i] \in T[x] /\ x # b
                 /\ x = a /\ i <= n => f[y] = <<b, i>> /\ <<b, i>> \in EntriesIn(M, T)
                 /\ x = a /\ ~(i <= n) => f[y] = <<a, i - n>> /\ <<a, i - n>> \in EntriesIn(M, T)
                 /\ x # a => f[y] = y /\ y \in EntriesIn(M, T)
    <2>1. PICK x \in DOMAIN L : \E i \in DOMAIN L[x] : y = <<x, i>> /\ L[x][i] \in T[x]
      BY EntryShape
    <2>2. PICK i \in DOMAIN L[x] : y = <<x, i>> /\ L[x][i] \in T[x]
      BY <2>1
    <2>3. y[1] = x /\ y[2] = i /\ x # b
      BY <1>1, <2>2
    <2>4. CASE x = a /\ i <= n
      <3>1. i \in 1 .. n /\ M[b][i] \in T[b]
        BY <1>1, <2>2, <2>4
      <3>2. <<b, i>> \in EntriesIn(M, T)
        BY <1>1, <3>1, EntryIn
      <3>3. f[y] = <<b, i>>
        BY <2>3, <2>4
      <3> QED
        BY <2>2, <2>3, <2>4, <3>2, <3>3
    <2>5. CASE x = a /\ ~(i <= n)
      <3>1. i - n \in 1 .. N - n /\ n + (i - n) = i
        BY <1>1, <2>2, <2>5
      <3>2. M[a][i - n] \in T[a]
        BY <1>1, <2>2, <2>5, <3>1
      <3>3. <<a, i - n>> \in EntriesIn(M, T)
        BY <1>1, <3>1, <3>2, EntryIn
      <3>4. f[y] = <<a, i - n>>
        BY <2>3, <2>5
      <3> QED
        BY <2>2, <2>3, <2>5, <3>3, <3>4
    <2>6. CASE x # a
      <3>1. f[y] = y
        BY <2>3, <2>6
      <3>2. y \in EntriesIn(M, T)
        BY <2>2, <2>3, <2>6, EntryIn
      <3> QED
        BY <2>2, <2>3, <2>6, <3>1, <3>2
    <2> QED
      BY <2>4, <2>5, <2>6
  <1>3. f \in [A -> EntriesIn(M, T)]
    <2>1. \A y \in A : f[y] \in EntriesIn(M, T)
      BY ZenonT(60), <1>2
    <2>2. f = [y \in A |-> f[y]]
      OBVIOUS
    <2> HIDE DEF f, A
    <2> QED
      BY <2>1, <2>2
  <1>4. ASSUME NEW y \in A, NEW z \in A, f[y] = f[z]
        PROVE  y = z
    <2> DEFINE Named(u, x, i) ==
                 /\ u = <<x, i>> /\ x # b
                 /\ x = a /\ i <= n => f[u] = <<b, i>>
                 /\ x = a /\ ~(i <= n) => f[u] = <<a, i - n>>
                 /\ x # a => f[u] = u
    <2> HIDE DEF f, A
    <2>1. PICK x \in DOMAIN L : \E i \in DOMAIN L[x] : Named(y, x, i)
      BY ZenonT(60), <1>2
    <2>2. PICK i \in DOMAIN L[x] : Named(y, x, i)
      BY <2>1
    <2>3. PICK w \in DOMAIN L : \E j \in DOMAIN L[w] : Named(z, w, j)
      BY ZenonT(60), <1>2
    <2>4. PICK j \in DOMAIN L[w] : Named(z, w, j)
      BY <2>3
    <2>5. CASE x = a /\ w = a
      <3>0. i \in Int /\ j \in Int /\ n \in Int
        BY <1>1, <2>5
      <3>1. CASE i <= n /\ j <= n
        <4>1. <<b, i>> = <<b, j>>
          BY <1>4, <2>2, <2>4, <2>5, <3>1
        <4> QED
          BY <2>2, <2>4, <2>5, <4>1
      <3>2. CASE ~(i <= n) /\ ~(j <= n)
        <4>1. <<a, i - n>> = <<a, j - n>>
          BY <1>4, <2>2, <2>4, <2>5, <3>2
        <4>2. i - n = j - n
          BY <4>1
        <4>3. i = j
          BY <3>0, <4>2
        <4> QED
          BY <2>2, <2>4, <2>5, <4>3
      <3>3. CASE i <= n /\ ~(j <= n)
        <4>1. <<b, i>> = <<a, j - n>>
          BY <1>4, <2>2, <2>4, <2>5, <3>3
        <4> QED
          BY <4>1
      <3>4. CASE ~(i <= n) /\ j <= n
        <4>1. <<a, i - n>> = <<b, j>>
          BY <1>4, <2>2, <2>4, <2>5, <3>4
        <4> QED
          BY <4>1
      <3> QED
        BY <3>1, <3>2, <3>3, <3>4
    <2>6. CASE x # a /\ w # a
      BY <1>4, <2>2, <2>4, <2>6
    <2>7. CASE x = a /\ w # a
      BY <1>4, <2>2, <2>4, <2>7
    <2>8. CASE x # a /\ w = a
      BY <1>4, <2>2, <2>4, <2>8
    <2> QED
      BY <2>5, <2>6, <2>7, <2>8
  <1>5. ASSUME NEW z \in EntriesIn(M, T)
        PROVE  \E y \in A : f[y] = z
    <2>1. PICK x \in DOMAIN M : \E i \in DOMAIN M[x] : z = <<x, i>> /\ M[x][i] \in T[x]
      BY EntryShape
    <2>2. PICK i \in DOMAIN M[x] : z = <<x, i>> /\ M[x][i] \in T[x]
      BY <2>1
    <2>3. CASE x = a
      <3>1. i \in 1 .. N - n /\ n + i \in DOMAIN L[a] /\ ~(n + i <= n) /\ (n + i) - n = i
        BY <1>1, <2>2, <2>3
      <3>2. L[a][n + i] \in T[a]
        BY <1>1, <2>2, <2>3, <3>1
      <3>3. <<a, n + i>> \in A
        BY <3>1, <3>2, EntryIn
      <3>4. f[<<a, n + i>>] = <<a, i>>
        BY <3>1, <3>3
      <3> QED
        BY <2>2, <2>3, <3>3, <3>4
    <2>4. CASE x = b
      <3>1. i \in 1 .. n /\ i \in DOMAIN L[a] /\ i <= n /\ L[a][i] \in T[a]
        BY <1>1, <2>2, <2>4
      <3>2. <<a, i>> \in A
        BY <3>1, EntryIn
      <3>3. f[<<a, i>>] = <<b, i>>
        BY <3>1, <3>2
      <3> QED
        BY <2>2, <2>4, <3>2, <3>3
    <2>5. CASE x \notin {a, b}
      <3>1. z \in A /\ z[1] # a
        BY <2>2, <2>5, EntryIn
      <3>2. f[z] = z
        BY <3>1
      <3> QED
        BY <3>1, <3>2
    <2> QED
      BY <2>3, <2>4, <2>5
  <1> HIDE DEF f
  <1>6. IsFiniteSet(EntriesIn(M, T)) /\ HowMany(M, T) = HowMany(L, T)
    BY <1>3, <1>4, <1>5, EntriesRenamed DEF HowMany
  <1>7. HowMany(L, T) \in Nat
    BY FS_CardinalityType DEF HowMany
  <1> QED
    BY <1>6, <1>7 DEF Grows

-----------------------------------------------------------------------------
(* Types: the server's side and the client's side. *)

\* A thread holds completions only while it handles them, and a request only while
\* it serves one.
ServerSide ==
  /\ ServerTypeOK
  /\ \A t \in Threads :
       /\ pc[t] \in {"init", "poll"} => wc[t] = <<>>
       /\ cur[t] # NoReq <=> pc[t] \in {"postRecv", "postSend"}

\* Likewise for a client thread.  (That souts is no less than zero is shown with the
\* counting below.)
ClientSide ==
  /\ crq \in [ClientThreads -> Nat]
  /\ csq \in [ClientThreads -> Seq(Queues)]
  /\ ccq \in [ClientThreads -> Seq(Completions)]
  /\ cwc \in [ClientThreads -> Seq(Completions)]
  /\ souts \in [ClientThreads -> Int]
  /\ offset \in [ClientThreads -> Queues]
  /\ issuedTo \in [ClientThreads -> [Queues -> Nat]]
  /\ written \subseteq Nat
  /\ terminateLoad \in BOOLEAN
  /\ allCnts \in [ClientThreads -> Nat \X Nat]
  /\ drainLeft \in [ClientThreads -> 0 .. DrainPolls]
  /\ \A c \in ClientThreads :
       /\ cwc[c] # <<>> => cpc[c] \in Handling \cup {"resend"}
       /\ cpc[c] \in Handling => cwc[c] # <<>>

LEMMA RequestPacket ==
  ASSUME NEW c \in ClientThreads
  PROVE  [src |-> c, prio |-> 0, last |-> FALSE] \in Packet /\ c \in Sources
  <1>1. c \in Sources /\ 0 \in Priorities
    BY ClosedLoopAssumption, VerbsAssumption DEF Priorities
  <1> QED
    BY <1>1 DEF Packet

LEMMA TransmitDestination ==
  ASSUME ClientSide, NEW c \in ClientThreads, csq[c] # <<>>
  PROVE  Head(csq[c]) \in Queues /\ Tail(csq[c]) \in Seq(Queues)
  <1>1. csq[c] \in Seq(Queues)
    BY DEF ClientSide
  <1> QED
    BY <1>1, TailProperties

LEMMA ServerSideThread ==
  ASSUME ServerSide, NEW t \in Threads, ServerThread(t)
  PROVE  ServerSide'
  <1> DEFINE q == ConnOf(t)
  <1>0. /\ VerbsTypeOK /\ ThreadsTypeOK /\ pc \in [Threads -> ServerLocations]
        /\ wc \in [Threads -> Seq(Completion)] /\ cur \in [Threads -> Req \cup {NoReq}]
        /\ rcnt \in [Queues -> Nat]
    BY DEF ServerSide, ServerTypeOK, ThreadsTypeOK
  <1>1. q \in Queues
    BY ConnInRange
  <1>2. \A s : NextStep(s) \in ServerLocations /\ (NextStep(s) = "poll" => s = <<>>)
               /\ NextStep(s) \notin {"init", "postRecv", "postSend"}
    BY DEF NextStep, ServerLocations
  <1>3. \A u \in Threads : /\ pc[u] \in {"init", "poll"} => wc[u] = <<>>
                           /\ cur[u] # NoReq <=> pc[u] \in {"postRecv", "postSend"}
    BY DEF ServerSide
  <1>4. CASE Start(t)
    <2>1. VerbsTypeOK'
      BY <1>0, <1>4 DEF Start, verbsVars, VerbsTypeOK
    <2>2. ThreadsTypeOK' /\ pc' \in [Threads -> ServerLocations]
      BY <1>0, <1>4 DEF Start, Goto, ThreadsTypeOK, ServerLocations
    <2>3. \A u \in Threads : /\ pc'[u] \in {"init", "poll"} => wc'[u] = <<>>
                             /\ cur'[u] # NoReq <=> pc'[u] \in {"postRecv", "postSend"}
      BY <1>0, <1>3, <1>4 DEF Start, Goto
    <2> QED
      BY <2>1, <2>2, <2>3 DEF ServerSide, ServerTypeOK
  <1>5. CASE Poll(t)
    <2>1. VerbsTypeOK' /\ Polled(q) \in Seq(Completion)
      BY <1>0, <1>5, VerbsPoll DEF Poll
    <2>2. ThreadsTypeOK' /\ pc' \in [Threads -> ServerLocations]
      BY <1>0, <1>2, <1>5, <2>1 DEF Poll, Goto, ThreadsTypeOK
    <2>3. \A u \in Threads : /\ pc'[u] \in {"init", "poll"} => wc'[u] = <<>>
                             /\ cur'[u] # NoReq <=> pc'[u] \in {"postRecv", "postSend"}
      BY <1>0, <1>2, <1>3, <1>5 DEF Poll, Goto
    <2> QED
      BY <2>1, <2>2, <2>3 DEF ServerSide, ServerTypeOK
  <1>6. CASE SendCompletion(t)
    <2>1. VerbsTypeOK'
      BY <1>0, <1>6 DEF SendCompletion, verbsVars, VerbsTypeOK
    <2>2. Tail(wc[t]) \in Seq(Completion)
      BY <1>0, <1>6, TailProperties DEF SendCompletion
    <2>3. ThreadsTypeOK' /\ pc' \in [Threads -> ServerLocations]
      BY <1>0, <1>2, <1>6, <2>2 DEF SendCompletion, Goto, ThreadsTypeOK
    <2>4. \A u \in Threads : /\ pc'[u] \in {"init", "poll"} => wc'[u] = <<>>
                             /\ cur'[u] # NoReq <=> pc'[u] \in {"postRecv", "postSend"}
      BY <1>0, <1>2, <1>3, <1>6 DEF SendCompletion, Goto
    <2> QED
      BY <2>1, <2>3, <2>4 DEF ServerSide, ServerTypeOK
  <1>7. CASE RecvCompletion(t)
    <2> DEFINE c == Head(wc[t])
               r == [bufID |-> c.wr_id, srcQP |-> c.src_qp]
    <2>1. c \in Completion /\ Tail(wc[t]) \in Seq(Completion) /\ IsRecv(c)
      BY <1>0, <1>7, TailProperties DEF RecvCompletion
    <2>2. c.wr_id \in RecvIds /\ c.src_qp \in Sources
      BY <2>1, BufCount DEF Completion, IsRecv, SendIds, RecvIds
    <2>3. r \in Req /\ r # NoReq
      BY <2>2, ServerAssumption DEF Req
    <2>4. c.wr_id - NumBufs \in SendIds
      BY <2>2, RecvToSend
    <2>5. /\ bufSend' = [bufSend EXCEPT ![c.wr_id - NumBufs] = bufRecv[c.wr_id - NumBufs]]
          /\ cur' = [cur EXCEPT ![t] = r] /\ wc' = [wc EXCEPT ![t] = Tail(wc[t])]
          /\ pc' = [pc EXCEPT ![t] = "postRecv"]
          /\ UNCHANGED <<rq, cq, sq, sqDone, bufRecv, sent, replies, terminateRun, device>>
      BY <1>7 DEF RecvCompletion, Goto
    <2>6. rcnt' \in [Queues -> Nat]
      <3>1. CountRequest(t) /\ rcnt[q] \in Nat
        BY <1>0, <1>1, <1>7 DEF RecvCompletion
      <3>2. PICK n \in 1 .. rcnt[q] + 1 : rcnt' = [rcnt EXCEPT ![q] = n]
        BY <3>1 DEF CountRequest
      <3>3. n \in Nat
        BY <3>1, <3>2
      <3> QED
        BY <1>0, <1>1, <3>2, <3>3
    <2> HIDE DEF c, r
    <2>7. VerbsTypeOK'
      <3>1. bufSend' \in [SendIds -> 0 .. MaxPackets]
        BY <1>0, <2>4, <2>5 DEF VerbsTypeOK
      <3> QED
        BY <1>0, <2>5, <3>1 DEF VerbsTypeOK
    <2>8. ThreadsTypeOK' /\ pc' \in [Threads -> ServerLocations]
      BY <1>0, <2>1, <2>3, <2>5, <2>6 DEF ThreadsTypeOK, ServerLocations
    <2>9. \A u \in Threads : /\ pc'[u] \in {"init", "poll"} => wc'[u] = <<>>
                             /\ cur'[u] # NoReq <=> pc'[u] \in {"postRecv", "postSend"}
      BY <1>0, <1>3, <2>3, <2>5
    <2> QED
      BY <2>7, <2>8, <2>9 DEF ServerSide, ServerTypeOK
  <1>8. CASE PostRecv(t)
    <2>1. cur[t] \in Req /\ cur[t].bufID \in RecvIds
      BY <1>0, <1>3, <1>8 DEF PostRecv, Req
    <2>2. VerbsTypeOK'
      BY <1>0, <1>1, <1>8, <2>1, VerbsPostRecv DEF PostRecv
    <2>3. ThreadsTypeOK' /\ pc' \in [Threads -> ServerLocations]
      BY <1>0, <1>8 DEF PostRecv, Goto, ThreadsTypeOK, ServerLocations
    <2>4. \A u \in Threads : /\ pc'[u] \in {"init", "poll"} => wc'[u] = <<>>
                             /\ cur'[u] # NoReq <=> pc'[u] \in {"postRecv", "postSend"}
      BY <1>0, <1>3, <1>8 DEF PostRecv, Goto
    <2> QED
      BY <2>2, <2>3, <2>4 DEF ServerSide, ServerTypeOK
  <1>9. CASE PostSend(t)
    <2>1. cur[t] \in Req /\ cur[t].bufID \in RecvIds /\ cur[t].srcQP \in Sources
      BY <1>0, <1>3, <1>9 DEF PostSend, Req
    <2>2. Signaled(t) \in BOOLEAN
      BY DEF Signaled
    <2>3. VerbsTypeOK'
      BY <1>0, <1>1, <1>9, <2>1, <2>2, VerbsPostSend DEF PostSend
    <2>4. ThreadsTypeOK' /\ pc' \in [Threads -> ServerLocations]
      BY <1>0, <1>2, <1>9 DEF PostSend, Goto, ThreadsTypeOK
    <2>5. \A u \in Threads : /\ pc'[u] \in {"init", "poll"} => wc'[u] = <<>>
                             /\ cur'[u] # NoReq <=> pc'[u] \in {"postRecv", "postSend"}
      BY <1>0, <1>2, <1>3, <1>9 DEF PostSend, Goto
    <2> QED
      BY <2>3, <2>4, <2>5 DEF ServerSide, ServerTypeOK
  <1> QED
    BY <1>4, <1>5, <1>6, <1>7, <1>8, <1>9 DEF ServerThread

LEMMA ServerSideNext == ServerSide /\ ClientSide /\ [Next]_vars => ServerSide'
  <1> SUFFICES ASSUME ServerSide, ClientSide, [Next]_vars
               PROVE  ServerSide'
    OBVIOUS
  <1>1. ASSUME VerbsTypeOK', UNCHANGED serverVars
        PROVE  ServerSide'
    BY <1>1 DEF ServerSide, ServerTypeOK, ThreadsTypeOK, serverVars, threadVars
  <1>2. VerbsTypeOK
    BY DEF ServerSide, ServerTypeOK
  <1>3. ASSUME NEW c \in ClientThreads, Transmit(c)
        PROVE  ServerSide'
    <2> DEFINE q == Head(csq[c])
               pkt == [src |-> c, prio |-> 0, last |-> FALSE]
    <2>1. q \in Queues /\ pkt \in Packet
      BY <1>3, TransmitDestination, RequestPacket DEF Transmit
    <2>2. (NicDrop(q, pkt) \/ NicReceive(q, pkt)) /\ UNCHANGED serverVars
      BY <1>3 DEF Transmit
    <2> HIDE DEF q, pkt
    <2> QED
      BY <1>1, <1>2, <2>1, <2>2, VerbsDrop, VerbsReceive
  <1>4. ASSUME NEW q \in Queues, Respond(q)
        PROVE  ServerSide'
    BY <1>1, <1>2, <1>4, VerbsSend DEF Respond
  <1>5. ASSUME UNCHANGED <<verbsVars, serverVars>>
        PROVE  ServerSide'
    <2>1. VerbsTypeOK'
      BY <1>2, <1>5 DEF VerbsTypeOK, verbsVars
    <2> QED
      BY <1>1, <1>5, <2>1
  <1>6. ASSUME NEW c \in ClientThreads, ClientThread(c)
        PROVE  ServerSide'
    BY <1>5, <1>6 DEF ClientThread, EnterBarrier, LeaveBarrier, PostReceives, FillWindow,
       LoopTest, PollLoop, HandleSend, HandleRecv, Resend, HandleLate, Finish, DrainPoll,
       Publish, Dump, Close
  <1>7. CASE UNCHANGED vars
    BY <1>5, <1>7 DEF vars
  <1> QED
    BY <1>3, <1>4, <1>6, <1>7, ServerSideThread DEF Next, Network

\* What pp_post_send of a request does, or does not when the send queue is full.
LEMMA PostEffect ==
  ASSUME ClientSide, NEW c \in ClientThreads, PostRequest(c)
  PROVE  /\ csq' \in [ClientThreads -> Seq(Queues)]
         /\ souts' \in [ClientThreads -> Int]
         /\ offset' \in [ClientThreads -> Queues]
         /\ issuedTo' \in [ClientThreads -> [Queues -> Nat]]
         /\ \A d \in ClientThreads \ {c} : csq'[d] = csq[d] /\ souts'[d] = souts[d]
         /\ \/ csq'[c] = csq[c] /\ souts'[c] = souts[c]
            \/ /\ csq'[c] = Append(csq[c], offset[c]) /\ Len(csq'[c]) = Len(csq[c]) + 1
               /\ souts'[c] = souts[c] + 1
  <1> DEFINE o == offset[c]
  <1>1. /\ csq \in [ClientThreads -> Seq(Queues)] /\ souts \in [ClientThreads -> Int]
        /\ offset \in [ClientThreads -> Queues]
        /\ issuedTo \in [ClientThreads -> [Queues -> Nat]]
    BY DEF ClientSide
  <1>2. o \in Queues /\ NextQueue(o) \in Queues
    BY <1>1, NextQueueInRange
  <1>3. Append(csq[c], o) \in Seq(Queues) /\ Len(Append(csq[c], o)) = Len(csq[c]) + 1
    BY <1>1, <1>2, AppendProperties
  <1>4. offset' = [offset EXCEPT ![c] = NextQueue(o)]
    BY DEF PostRequest
  <1>5. CASE souts[c] >= ClientDepth
    BY <1>1, <1>2, <1>4, <1>5 DEF PostRequest
  <1>6. CASE ~(souts[c] >= ClientDepth)
    <2>1. /\ csq' = [csq EXCEPT ![c] = Append(csq[c], o)]
          /\ souts' = [souts EXCEPT ![c] = souts[c] + 1]
          /\ issuedTo' = [issuedTo EXCEPT ![c][o] = @ + 1]
      BY <1>6 DEF PostRequest
    <2>2. issuedTo' \in [ClientThreads -> [Queues -> Nat]]
      BY <1>1, <1>2, <2>1
    <2> HIDE DEF o
    <2>3. /\ csq' \in [ClientThreads -> Seq(Queues)] /\ souts' \in [ClientThreads -> Int]
          /\ offset' \in [ClientThreads -> Queues]
      BY <1>1, <1>2, <1>3, <1>4, <2>1
    <2>4. \A d \in ClientThreads \ {c} : csq'[d] = csq[d] /\ souts'[d] = souts[d]
      BY <1>1, <2>1
    <2>5. /\ csq'[c] = Append(csq[c], o) /\ Len(csq'[c]) = Len(csq[c]) + 1
          /\ souts'[c] = souts[c] + 1
      BY <1>1, <1>3, <2>1
    <2> QED
      BY <2>2, <2>3, <2>4, <2>5 DEF o
  <1> QED
    BY <1>5, <1>6

\* What a poll of the client's completion queue does.
LEMMA TakeEffect ==
  ASSUME ClientSide, NEW c \in ClientThreads, TakeCompletions(c)
  PROVE  /\ cwc' \in [ClientThreads -> Seq(Completions)]
         /\ ccq' \in [ClientThreads -> Seq(Completions)]
         /\ \A d \in ClientThreads \ {c} : cwc'[d] = cwc[d] /\ ccq'[d] = ccq[d]
         /\ ccq[c] = <<>> <=> cwc'[c] = <<>>
         /\ \E n \in 0 .. Len(ccq[c]) : /\ cwc'[c] = SubSeq(ccq[c], 1, n)
                                        /\ ccq'[c] = SubSeq(ccq[c], n + 1, Len(ccq[c]))
  <1> DEFINE n == IF c = Meas /\ Len(ccq[c]) > 2 THEN 2 ELSE Len(ccq[c])
  <1>1. /\ ccq \in [ClientThreads -> Seq(Completions)]
        /\ cwc \in [ClientThreads -> Seq(Completions)]
        /\ ccq[c] \in Seq(Completions) /\ Len(ccq[c]) \in Nat
    BY DEF ClientSide
  <1>2. n \in 0 .. Len(ccq[c]) /\ (Len(ccq[c]) # 0 => n # 0)
    BY <1>1
  <1>3. /\ cwc' = [cwc EXCEPT ![c] = SubSeq(ccq[c], 1, n)]
        /\ ccq' = [ccq EXCEPT ![c] = SubSeq(ccq[c], n + 1, Len(ccq[c]))]
    BY DEF TakeCompletions
  <1> HIDE DEF n
  <1>4. /\ SubSeq(ccq[c], 1, n) \in Seq(Completions) /\ Len(SubSeq(ccq[c], 1, n)) = n
        /\ SubSeq(ccq[c], n + 1, Len(ccq[c])) \in Seq(Completions)
    BY <1>1, <1>2, SubSeqProperties
  <1>5. /\ cwc'[c] = SubSeq(ccq[c], 1, n)
        /\ ccq'[c] = SubSeq(ccq[c], n + 1, Len(ccq[c]))
        /\ \A d \in ClientThreads \ {c} : cwc'[d] = cwc[d] /\ ccq'[d] = ccq[d]
    BY <1>1, <1>3
  <1>6. ccq[c] = <<>> <=> cwc'[c] = <<>>
    <2>1. ccq[c] = <<>> <=> Len(ccq[c]) = 0
      BY <1>1
    <2> DEFINE u == SubSeq(ccq[c], 1, n)
    <2>2. u \in Seq(Completions) /\ Len(u) = n /\ cwc'[c] = u
      BY <1>4, <1>5
    <2>3. n = 0 <=> Len(ccq[c]) = 0
      BY <1>1, <1>2
    <2> HIDE DEF u
    <2>4. u = <<>> <=> Len(u) = 0
      BY <2>2
    <2> QED
      BY <2>1, <2>2, <2>3, <2>4
  <1> QED
    BY <1>1, <1>2, <1>3, <1>4, <1>5, <1>6

\* The completion a client thread handles next.
LEMMA HandleEffect ==
  ASSUME ClientSide, NEW c \in ClientThreads, cwc[c] # <<>>,
         cwc' = [cwc EXCEPT ![c] = Tail(@)]
  PROVE  /\ Head(cwc[c]) \in Completions
         /\ cwc' \in [ClientThreads -> Seq(Completions)]
         /\ cwc'[c] = Tail(cwc[c]) /\ \A d \in ClientThreads \ {c} : cwc'[d] = cwc[d]
  <1>1. cwc \in [ClientThreads -> Seq(Completions)] /\ cwc[c] \in Seq(Completions)
    BY DEF ClientSide
  <1>2. Head(cwc[c]) \in Completions /\ Tail(cwc[c]) \in Seq(Completions)
    BY <1>1, TailProperties
  <1> QED
    BY <1>1, <1>2

\* Whom a response goes to.
LEMMA ResponseGoesTo ==
  ASSUME ServerSide, NEW q \in Queues, NicSend(q)
  PROVE  Head(sq[q]) \in SendRequest /\ Head(sq[q]).qpn \in ClientThreads
  <1>1. Head(sq[q]) \in SendRequest
    BY VerbsSend DEF ServerSide, ServerTypeOK
  <1> QED
    BY <1>1, ClosedLoopAssumption DEF SendRequest

Quiet(c, l) == (cwc[c] # <<>> => l \in Handling \cup {"resend"}) /\ (l \in Handling => cwc[c] # <<>>)

LEMMA ClientSideNetwork ==
  ASSUME ServerSide, ClientSide, Network
  PROVE  ClientSide'
  <1>0. /\ crq \in [ClientThreads -> Nat] /\ csq \in [ClientThreads -> Seq(Queues)]
        /\ ccq \in [ClientThreads -> Seq(Completions)]
        /\ {"send", "recv"} \subseteq Completions
    BY DEF ClientSide, Completions
  <1>1. ASSUME crq' \in [ClientThreads -> Nat], csq' \in [ClientThreads -> Seq(Queues)],
               ccq' \in [ClientThreads -> Seq(Completions)],
               UNCHANGED <<cpc, cwc, clientCounts, clientRun>>
        PROVE  ClientSide'
    BY <1>1 DEF ClientSide, clientCounts, clientRun
  <1>2. ASSUME NEW c \in ClientThreads, NEW e \in Completions
        PROVE  [ccq EXCEPT ![c] = Append(@, e)] \in [ClientThreads -> Seq(Completions)]
    <2>1. Append(ccq[c], e) \in Seq(Completions)
      BY <1>0, AppendProperties
    <2> QED
      BY <1>0, <2>1
  <1>3. ASSUME NEW c \in ClientThreads, Transmit(c)
        PROVE  ClientSide'
    <2>1. csq' \in [ClientThreads -> Seq(Queues)]
      BY <1>0, <1>3, TransmitDestination DEF Transmit
    <2>2. ccq' \in [ClientThreads -> Seq(Completions)]
      BY <1>0, <1>2, <1>3 DEF Transmit
    <2> QED
      BY <1>0, <1>1, <1>3, <2>1, <2>2 DEF Transmit
  <1>4. ASSUME NEW q \in Queues, Respond(q)
        PROVE  ClientSide'
    <2> DEFINE c == Head(sq[q]).qpn
    <2>1. c \in ClientThreads
      BY <1>4, ResponseGoesTo DEF Respond
    <2>2. \/ UNCHANGED <<crq, ccq>>
          \/ /\ crq[c] # 0 /\ crq' = [crq EXCEPT ![c] = @ - 1]
             /\ ccq' = [ccq EXCEPT ![c] = Append(@, "recv")]
      BY <1>4 DEF Respond
    <2>3. UNCHANGED <<cpc, cwc, csq, clientCounts, clientRun>>
      BY <1>4 DEF Respond
    <2> HIDE DEF c
    <2>4. crq' \in [ClientThreads -> Nat]
      BY <1>0, <2>1, <2>2
    <2>5. ccq' \in [ClientThreads -> Seq(Completions)]
      <3>1. [ccq EXCEPT ![c] = Append(@, "recv")] \in [ClientThreads -> Seq(Completions)]
        BY <1>0, <1>2, <2>1
      <3> QED
        BY <1>0, <2>2, <3>1
    <2> QED
      BY <1>0, <1>1, <2>3, <2>4, <2>5
  <1> QED
    BY <1>3, <1>4 DEF Network

LEMMA ClientSideThread ==
  ASSUME Phases, Published, ClientSide, NEW c \in ClientThreads, ClientThread(c)
  PROVE  ClientSide'
  <1>0. /\ cpc \in [ClientThreads -> ClientLocations]
        /\ {crcnt, cscnt} \subseteq [ClientThreads -> Nat]
        /\ crcnt[c] \in Nat /\ cscnt[c] \in Nat
    BY DEF Phases, ControlTypeOK, Published
  <1>1. /\ crq \in [ClientThreads -> Nat] /\ csq \in [ClientThreads -> Seq(Queues)]
        /\ ccq \in [ClientThreads -> Seq(Completions)]
        /\ cwc \in [ClientThreads -> Seq(Completions)]
        /\ souts \in [ClientThreads -> Int] /\ offset \in [ClientThreads -> Queues]
        /\ issuedTo \in [ClientThreads -> [Queues -> Nat]]
        /\ written \subseteq Nat /\ terminateLoad \in BOOLEAN
        /\ allCnts \in [ClientThreads -> Nat \X Nat]
        /\ drainLeft \in [ClientThreads -> 0 .. DrainPolls]
        /\ \A d \in ClientThreads : Quiet(d, cpc[d])
    BY DEF ClientSide, Quiet
  <1>2. /\ "barrier" \notin Handling \cup {"resend"} /\ "loop" \notin Handling \cup {"resend"}
        /\ Handling = {"handle", "awaitHandle", "drainHandle"}
    BY DEF Handling
  <1>3. ASSUME NEW l, cpc' = [cpc EXCEPT ![c] = l], cwc' = cwc, Quiet(c, l)
        PROVE  \A d \in ClientThreads : Quiet(d, cpc[d])'
    BY <1>0, <1>1, <1>3 DEF Quiet
  <1>4. ASSUME EnterBarrier(c) \/ LeaveBarrier(c) \/ LoopTest(c)
        PROVE  ClientSide'
    <2>1. PICK l : cpc' = [cpc EXCEPT ![c] = l] /\ l \notin Handling
      <3>1. CASE EnterBarrier(c)
        BY <1>2, <3>1 DEF EnterBarrier, CGoto
      <3>2. CASE LeaveBarrier(c)
        <4>1. gate[c] \in 1 .. 3
          BY <3>2 DEF LeaveBarrier, Phases, ControlTypeOK, InPhase
        <4>2. AfterBarrier(c) \notin Handling
          BY <1>2, <4>1 DEF AfterBarrier
        <4> QED
          BY <3>2, <4>2 DEF LeaveBarrier, CGoto
      <3>3. CASE LoopTest(c)
        <4>1. AfterLoop(c) \notin Handling /\ "poll" \notin Handling
          BY <1>2 DEF AfterLoop
        <4> QED
          BY <3>3, <4>1 DEF LoopTest, CGoto
      <3> QED
        BY <1>4, <3>1, <3>2, <3>3
    <2>2. cwc[c] = <<>>
      BY <1>1, <1>2, <1>4 DEF EnterBarrier, LeaveBarrier, LoopTest, Quiet
    <2>3. UNCHANGED <<cwc, clientDevice, clientCounts, written, terminateLoad, allCnts, drainLeft>>
      BY <1>4 DEF EnterBarrier, LeaveBarrier, LoopTest, clientRun
    <2>4. \A d \in ClientThreads : Quiet(d, cpc[d])'
      BY <1>3, <2>1, <2>2, <2>3 DEF Quiet
    <2> QED
      BY <1>1, <2>3, <2>4 DEF ClientSide, Quiet, clientDevice, clientCounts
  <1>5. ASSUME PostReceives(c)
        PROVE  ClientSide'
    <2>1. WindowOf(c) \in Nat
      BY ClosedLoopAssumption DEF WindowOf
    <2>2. crq' \in [ClientThreads -> Nat]
      BY <1>1, <1>5, <2>1 DEF PostReceives
    <2>3. Quiet(c, "send")
      BY <1>1, <1>2, <1>5 DEF PostReceives, Quiet
    <2>4. \A d \in ClientThreads : Quiet(d, cpc[d])'
      BY <1>3, <1>5, <2>3 DEF PostReceives, CGoto
    <2> QED
      BY <1>1, <1>5, <2>2, <2>4 DEF PostReceives, ClientSide, Quiet, clientCounts, clientRun
  <1>6. ASSUME FillWindow(c) \/ Resend(c) \/ Dump(c)
        PROVE  ClientSide'
    <2>1. PostRequest(c) /\ UNCHANGED <<cwc, crq, ccq, clientRun>>
      BY <1>6 DEF FillWindow, Resend, Dump
    <2>2. PICK l : cpc' = [cpc EXCEPT ![c] = l] /\ Quiet(c, l)
      BY ZenonT(60), <1>1, <1>2, <1>6 DEF FillWindow, Resend, Dump, CGoto, Quiet
    <2>3. \A d \in ClientThreads : Quiet(d, cpc[d])'
      BY <1>3, <2>1, <2>2
    <2>4. /\ csq' \in [ClientThreads -> Seq(Queues)] /\ souts' \in [ClientThreads -> Int]
          /\ offset' \in [ClientThreads -> Queues]
          /\ issuedTo' \in [ClientThreads -> [Queues -> Nat]]
      BY <2>1, PostEffect
    <2> QED
      BY <1>1, <2>1, <2>3, <2>4 DEF ClientSide, Quiet, clientRun
  <1>7. ASSUME PollLoop(c) \/ DrainPoll(c)
        PROVE  ClientSide'
    <2>1. TakeCompletions(c)
      BY <1>7 DEF PollLoop, DrainPoll
    <2>2. /\ cwc' \in [ClientThreads -> Seq(Completions)]
          /\ ccq' \in [ClientThreads -> Seq(Completions)]
          /\ \A d \in ClientThreads \ {c} : cwc'[d] = cwc[d]
          /\ ccq[c] = <<>> <=> cwc'[c] = <<>>
      BY <2>1, TakeEffect
    <2>3. PICK l : /\ cpc' = [cpc EXCEPT ![c] = l]
                   /\ cwc'[c] # <<>> => l \in Handling \cup {"resend"}
                   /\ l \in Handling => cwc'[c] # <<>>
      BY <1>2, <1>7, <2>2 DEF PollLoop, DrainPoll, CGoto
    <2>4. \A d \in ClientThreads : Quiet(d, cpc[d])'
      BY <1>0, <1>1, <2>2, <2>3 DEF Quiet
    <2>5. drainLeft' \in [ClientThreads -> 0 .. DrainPolls]
      <3>1. CASE PollLoop(c)
        BY <1>1, <3>1 DEF PollLoop, clientRun
      <3>2. CASE DrainPoll(c)
        <4>1. drainLeft[c] \in 0 .. DrainPolls /\ drainLeft[c] > 0 /\ DrainPolls \in Nat
          BY <1>1, <3>2, ClosedLoopAssumption DEF DrainPoll
        <4>2. drainLeft[c] - 1 \in 0 .. DrainPolls
          BY <4>1
        <4> QED
          BY <1>1, <3>2, <4>2 DEF DrainPoll
      <3> QED
        BY <1>7, <3>1, <3>2
    <2>6. UNCHANGED <<crq, csq, clientCounts, written, terminateLoad, allCnts>>
      BY <1>7 DEF PollLoop, DrainPoll, clientRun
    <2> QED
      BY <1>1, <2>2, <2>4, <2>5, <2>6 DEF ClientSide, Quiet, clientCounts
  <1>8. ASSUME HandleSend(c) \/ HandleRecv(c) \/ HandleLate(c)
        PROVE  ClientSide'
    <2>1. cwc[c] # <<>> /\ cwc' = [cwc EXCEPT ![c] = Tail(@)]
      BY <1>8 DEF HandleSend, HandleRecv, HandleLate
    <2>2. /\ cwc' \in [ClientThreads -> Seq(Completions)] /\ cwc'[c] = Tail(cwc[c])
          /\ \A d \in ClientThreads \ {c} : cwc'[d] = cwc[d]
      BY <2>1, HandleEffect
    <2>3. PICK n : CGoto(c, Onward(c, Tail(cwc[c]), n)) \/ CGoto(c, "resend")
      BY <1>8 DEF HandleSend, HandleRecv, HandleLate
    <2>4. cpc[c] \in Handling
      BY <1>2, <1>8 DEF HandleSend, HandleRecv, HandleLate
    <2>5. PICK l : /\ cpc' = [cpc EXCEPT ![c] = l]
                   /\ cwc'[c] # <<>> => l \in Handling \cup {"resend"}
                   /\ l \in Handling => cwc'[c] # <<>>
      <3>1. CASE CGoto(c, "resend")
        <4>1. "resend" \notin Handling
          BY DEF Handling
        <4>2. cpc' = [cpc EXCEPT ![c] = "resend"]
          BY <3>1 DEF CGoto
        <4> QED
          BY <4>1, <4>2
      <3>2. CASE CGoto(c, Onward(c, Tail(cwc[c]), n))
        <4>1. CASE Tail(cwc[c]) # <<>>
          BY <2>2, <2>4, <3>2, <4>1 DEF CGoto, Onward
        <4>2. CASE Tail(cwc[c]) = <<>>
          <5>1. Onward(c, Tail(cwc[c]), n) \notin Handling
            BY <2>4, <4>2 DEF Onward, Handling
          <5> QED
            BY <2>2, <3>2, <4>2, <5>1 DEF CGoto
        <4> QED
          BY <4>1, <4>2
      <3> QED
        BY <2>3, <3>1, <3>2
    <2>6. \A d \in ClientThreads : Quiet(d, cpc[d])'
      BY <1>0, <1>1, <2>2, <2>5 DEF Quiet
    <2>7. /\ crq' \in [ClientThreads -> Nat] /\ souts' \in [ClientThreads -> Int]
          /\ written' \subseteq Nat
      <3>1. CASE HandleSend(c)
        BY <1>1, <3>1 DEF HandleSend, clientDevice, clientRun
      <3>2. CASE HandleRecv(c)
        <4>1. crq' = [crq EXCEPT ![c] = @ + 1] /\ UNCHANGED souts
          BY <3>2 DEF HandleRecv, Repost
        <4>2. written' = written \/ written' = written \cup {crcnt[c]}
          BY <3>2 DEF HandleRecv, SampleIndex
        <4>3. written' \subseteq Nat
          BY <1>0, <1>1, <4>2
        <4>4. crq' \in [ClientThreads -> Nat]
          BY <1>1, <4>1
        <4> QED
          BY <1>1, <4>1, <4>3, <4>4
      <3>3. CASE HandleLate(c)
        BY <1>1, <3>3 DEF HandleLate, clientDevice, clientRun
      <3> QED
        BY <1>8, <3>1, <3>2, <3>3
    <2>8. UNCHANGED <<csq, ccq, offset, issuedTo, terminateLoad, allCnts, drainLeft>>
      BY <1>8 DEF HandleSend, HandleRecv, HandleLate, clientDevice, clientRun
    <2> QED
      BY <1>1, <2>2, <2>6, <2>7, <2>8 DEF ClientSide, Quiet
  <1>9. ASSUME Finish(c) \/ Publish(c)
        PROVE  ClientSide'
    <2>1. allCnts' \in [ClientThreads -> Nat \X Nat] /\ terminateLoad' \in BOOLEAN
      <3>1. <<crcnt[c], cscnt[c]>> \in Nat \X Nat
        BY <1>0
      <3>2. allCnts' = [allCnts EXCEPT ![c] = <<crcnt[c], cscnt[c]>>]
        BY <1>9 DEF Finish, Publish
      <3>3. terminateLoad' \in BOOLEAN
        BY <1>1, <1>9 DEF Finish, Publish
      <3> QED
        BY <1>1, <3>1, <3>2, <3>3
    <2>2. Quiet(c, "barrier")
      BY <1>1, <1>2, <1>9 DEF Finish, Publish, Quiet
    <2>3. UNCHANGED <<cwc, clientDevice, clientCounts, written, drainLeft>> /\ CGoto(c, "barrier")
      BY <1>9 DEF Finish, Publish
    <2>4. \A d \in ClientThreads : Quiet(d, cpc[d])'
      BY <1>3, <2>2, <2>3 DEF CGoto
    <2> QED
      BY <1>1, <2>1, <2>3, <2>4 DEF ClientSide, Quiet, clientDevice, clientCounts
  <1>10. ASSUME Close(c)
         PROVE  ClientSide'
    <2>1. /\ crq' \in [ClientThreads -> Nat] /\ csq' \in [ClientThreads -> Seq(Queues)]
          /\ ccq' \in [ClientThreads -> Seq(Completions)]
      BY <1>1, <1>10 DEF Close
    <2>2. Quiet(c, "done")
      BY <1>1, <1>2, <1>10 DEF Close, Quiet
    <2>3. UNCHANGED <<cwc, clientCounts, clientRun>> /\ CGoto(c, "done")
      BY <1>10 DEF Close
    <2>4. \A d \in ClientThreads : Quiet(d, cpc[d])'
      BY <1>3, <2>2, <2>3 DEF CGoto
    <2> QED
      BY <1>1, <2>1, <2>3, <2>4 DEF ClientSide, Quiet, clientRun, clientCounts
  <1> QED
    BY <1>4, <1>5, <1>6, <1>7, <1>8, <1>9, <1>10 DEF ClientThread

LEMMA ClientSideNext ==
  Phases /\ Published /\ ServerSide /\ ClientSide /\ [Next]_vars => ClientSide'
  <1> SUFFICES ASSUME Phases, Published, ServerSide, ClientSide, [Next]_vars
               PROVE  ClientSide'
    OBVIOUS
  <1>1. ASSUME UNCHANGED clientVars
        PROVE  ClientSide'
    BY <1>1 DEF ClientSide, clientVars, clientDevice, clientCounts, clientRun
  <1>2. CASE UNCHANGED vars
    BY <1>1, <1>2 DEF vars
  <1> QED
    BY <1>1, <1>2, ClientSideNetwork, ClientSideThread DEF Next

LEMMA SidesInit == Init => ServerSide /\ ClientSide
  <1> SUFFICES ASSUME Init
               PROVE  ServerSide /\ ClientSide
    OBVIOUS
  <1>1. VerbsTypeOK
    BY VerbsInitType DEF Init, ServerInit
  <1>2. ServerSide
    <2>1. /\ pc = [t \in Threads |-> "init"] /\ wc = [t \in Threads |-> <<>>]
          /\ cur = [t \in Threads |-> NoReq] /\ rcnt = [q \in Queues |-> 0]
          /\ terminateRun = FALSE /\ device = "open"
      BY DEF Init, ServerInit, ThreadsInit
    <2>2. ThreadsTypeOK
      <3>1. wc \in [Threads -> Seq(Completion)] /\ cur \in [Threads -> Req \cup {NoReq}]
        BY <2>1
      <3>2. rcnt \in [Queues -> Nat] /\ terminateRun \in BOOLEAN
        BY <2>1
      <3>3. device \in {"open", "closed", "crashed"}
        BY <2>1
      <3> QED
        BY <3>1, <3>2, <3>3 DEF ThreadsTypeOK
    <2>3. pc \in [Threads -> ServerLocations]
      BY <2>1 DEF ServerLocations
    <2> QED
      BY <1>1, <2>1, <2>2, <2>3 DEF ServerSide, ServerTypeOK
  <1>3. offset \in [ClientThreads -> Queues]
    <2>1. \A c \in ClientThreads : c % NumQueues \in Queues
      <3>1. NumQueues \in Nat \ {0} /\ NumLoad \in Nat
        BY VerbsAssumption, ClosedLoopAssumption
      <3>2. \A a \in Nat, b \in Nat \ {0} : a % b \in 0 .. b - 1
        OBVIOUS
      <3> QED
        BY <3>1, <3>2 DEF ClientThreads, Queues
    <2> QED
      BY <2>1 DEF Init, ClientInit
  <1>4. DrainPolls \in 0 .. DrainPolls
    BY ClosedLoopAssumption
  <1>5. ClientSide
    <2>1. /\ crq \in [ClientThreads -> Nat] /\ csq \in [ClientThreads -> Seq(Queues)]
          /\ ccq \in [ClientThreads -> Seq(Completions)]
          /\ cwc \in [ClientThreads -> Seq(Completions)]
      BY DEF Init, ClientInit
    <2>2. /\ souts \in [ClientThreads -> Int] /\ issuedTo \in [ClientThreads -> [Queues -> Nat]]
          /\ written \subseteq Nat /\ terminateLoad \in BOOLEAN
      <3>1. souts = [c \in ClientThreads |-> 0] /\ written = {} /\ terminateLoad = FALSE
        BY DEF Init, ClientInit
      <3>2. issuedTo = [c \in ClientThreads |-> [q \in Queues |-> 0]]
        BY DEF Init, ClientInit
      <3>3. terminateLoad \in BOOLEAN
        BY <3>1
      <3> QED
        BY <3>1, <3>2, <3>3
    <2>3. allCnts \in [ClientThreads -> Nat \X Nat]
      <3>1. <<0, 0>> \in Nat \X Nat
        OBVIOUS
      <3> QED
        BY <3>1 DEF Init, ClientInit
    <2>4. drainLeft \in [ClientThreads -> 0 .. DrainPolls]
      BY <1>4 DEF Init, ClientInit
    <2>5. \A c \in ClientThreads : cwc[c] = <<>> /\ cpc[c] \notin Handling
      BY DEF Init, ClientInit, Handling
    <2> QED
      BY <1>3, <2>1, <2>2, <2>3, <2>4, <2>5 DEF ClientSide
  <1> QED
    BY <1>2, <1>5

-----------------------------------------------------------------------------
(* Requests under way.  A request of client c that the network has delivered is an *)
(* entry somewhere: a completion at the server or polled by a thread, the request a *)
(* thread serves, a response in a send queue, a completion at the client.          *)

PlacesOf(c) ==
  ({"cq", "sq"} \X Queues) \cup ({"wc", "cur"} \X Threads) \cup ({"ccq", "cwc"} \X {c})

\* Q, S, W, R, K and V stand for cq, sq, wc, cur, ccq and cwc.
Contents(c, Q, S, W, R, K, V) ==
  [x \in PlacesOf(c) |->
     IF x[1] = "cq" THEN Q[x[2]]
     ELSE IF x[1] = "sq" THEN S[x[2]]
     ELSE IF x[1] = "wc" THEN W[x[2]]
     ELSE IF x[1] = "cur" THEN (IF R[x[2]] = NoReq THEN <<>> ELSE <<R[x[2]]>>)
     ELSE IF x[1] = "ccq" THEN K[c]
     ELSE V[c]]

RequestsOf(c) == {e \in Completion : IsRecv(e) /\ e.src_qp = c}
AnswersTo(c) == {e \in SendRequest : e.qpn = c}
ServedFor(c) == {e \in Req : e.srcQP = c}

\* The entries that are a request of c or its response.
OfClient(c) ==
  [x \in PlacesOf(c) |->
     IF x[1] \in {"cq", "wc"} THEN RequestsOf(c)
     ELSE IF x[1] = "sq" THEN AnswersTo(c)
     ELSE IF x[1] = "cur" THEN ServedFor(c)
     ELSE {"recv"}]

\* The entries that are a completed send of c.
SendsOf(c) == [x \in PlacesOf(c) |-> IF x[1] \in {"ccq", "cwc"} THEN {"send"} ELSE {}]

UnderWay(c) == Contents(c, cq, sq, wc, cur, ccq, cwc)

LEMMA CountedAt ==
  ASSUME NEW c
  PROVE  /\ \A q \in Queues :
              /\ OfClient(c)[<<"cq", q>>] = RequestsOf(c)
              /\ OfClient(c)[<<"sq", q>>] = AnswersTo(c)
              /\ SendsOf(c)[<<"cq", q>>] = {} /\ SendsOf(c)[<<"sq", q>>] = {}
         /\ \A t \in Threads :
              /\ OfClient(c)[<<"wc", t>>] = RequestsOf(c)
              /\ OfClient(c)[<<"cur", t>>] = ServedFor(c)
              /\ SendsOf(c)[<<"wc", t>>] = {} /\ SendsOf(c)[<<"cur", t>>] = {}
         /\ OfClient(c)[<<"ccq", c>>] = {"recv"} /\ OfClient(c)[<<"cwc", c>>] = {"recv"}
         /\ SendsOf(c)[<<"ccq", c>>] = {"send"} /\ SendsOf(c)[<<"cwc", c>>] = {"send"}
  BY DEF OfClient, SendsOf, PlacesOf

LEMMA GrowsTwice ==
  ASSUME NEW L, NEW M, NEW N, NEW T, NEW j \in Int, NEW k \in Int,
         Grows(L, M, T, j), Grows(M, N, T, k)
  PROVE  Grows(L, N, T, j + k)
  <1> SUFFICES ASSUME IsFiniteSet(EntriesIn(L, T))
               PROVE  /\ IsFiniteSet(EntriesIn(N, T))
                      /\ HowMany(L, T) \in Nat /\ HowMany(N, T) \in Nat
                      /\ HowMany(N, T) = HowMany(L, T) + (j + k)
    BY DEF Grows
  <1>1. /\ IsFiniteSet(EntriesIn(M, T)) /\ HowMany(L, T) \in Nat /\ HowMany(M, T) \in Nat
        /\ HowMany(M, T) = HowMany(L, T) + j
    BY DEF Grows
  <1>2. /\ IsFiniteSet(EntriesIn(N, T)) /\ HowMany(N, T) \in Nat
        /\ HowMany(N, T) = HowMany(M, T) + k
    BY <1>1 DEF Grows
  <1> QED
    BY <1>1, <1>2

LEMMA GrowsByAppend ==
  ASSUME NEW L, NEW M, NEW T, NEW S, DOMAIN M = DOMAIN L, NEW a \in DOMAIN L,
         L[a] \in Seq(S), NEW e \in S, M[a] = Append(L[a], e),
         \A x \in DOMAIN L : x # a => M[x] = L[x]
  PROVE  Grows(L, M, T, IF e \in T[a] THEN 1 ELSE 0)
  <1> SUFFICES ASSUME IsFiniteSet(EntriesIn(L, T))
               PROVE  Grows(L, M, T, IF e \in T[a] THEN 1 ELSE 0)
    BY DEF Grows
  <1>1. HowMany(L, T) \in Nat
    BY FS_CardinalityType DEF HowMany
  <1>2. /\ IsFiniteSet(EntriesIn(M, T))
        /\ HowMany(M, T) = IF e \in T[a] THEN HowMany(L, T) + 1 ELSE HowMany(L, T)
    BY EntryAdded
  <1> QED
    BY <1>1, <1>2 DEF Grows

\* The server's device writes a completion.
LEMMA ServerCompletes ==
  ASSUME NEW c, NEW T, NEW Q, NEW S, NEW W, NEW R, NEW K, NEW V, NEW N,
         NEW q \in Queues, Q[q] \in Seq(Completion), NEW e \in Completion,
         N[q] = Append(Q[q], e), \A x \in Queues : x # q => N[x] = Q[x]
  PROVE  Grows(Contents(c, Q, S, W, R, K, V), Contents(c, N, S, W, R, K, V),
               T, IF e \in T[<<"cq", q>>] THEN 1 ELSE 0)
  <1> DEFINE L == Contents(c, Q, S, W, R, K, V)
             M == Contents(c, N, S, W, R, K, V)
             a == <<"cq", q>>
  <1>1. DOMAIN L = PlacesOf(c) /\ a \in PlacesOf(c) /\ L[a] = Q[q]
    BY DEF Contents, PlacesOf
  <1>2. DOMAIN M = PlacesOf(c) /\ M[a] = N[q]
    BY DEF Contents, PlacesOf
  <1>3. \A x \in PlacesOf(c) : x # a => M[x] = L[x]
    BY DEF Contents, PlacesOf
  <1> HIDE DEF L, M, a
  <1>4. /\ DOMAIN M = DOMAIN L /\ a \in DOMAIN L /\ L[a] \in Seq(Completion)
        /\ M[a] = Append(L[a], e) /\ \A x \in DOMAIN L : x # a => M[x] = L[x]
    BY <1>1, <1>2, <1>3
  <1>5. Grows(L, M, T, IF e \in T[a] THEN 1 ELSE 0)
    BY <1>4, GrowsByAppend
  <1> QED
    BY <1>1, <1>5 DEF L, M, a

\* A server thread takes the next completion of its poll.
LEMMA ServerHandles ==
  ASSUME NEW c, NEW T, NEW Q, NEW S, NEW W, NEW R, NEW K, NEW V, NEW N,
         NEW t \in Threads, W[t] \in Seq(Completion), W[t] # <<>>,
         N[t] = Tail(W[t]), \A x \in Threads : x # t => N[x] = W[x]
  PROVE  Grows(Contents(c, Q, S, W, R, K, V), Contents(c, Q, S, N, R, K, V),
               T, IF Head(W[t]) \in T[<<"wc", t>>] THEN 0 - 1 ELSE 0)
  <1> DEFINE L == Contents(c, Q, S, W, R, K, V)
             M == Contents(c, Q, S, N, R, K, V)
             a == <<"wc", t>>
  <1>1. DOMAIN L = PlacesOf(c) /\ a \in PlacesOf(c) /\ L[a] = W[t]
    BY DEF Contents, PlacesOf
  <1>2. DOMAIN M = PlacesOf(c) /\ M[a] = N[t]
    BY DEF Contents, PlacesOf
  <1>3. \A x \in PlacesOf(c) : x # a => M[x] = L[x]
    BY DEF Contents, PlacesOf
  <1> HIDE DEF L, M, a
  <1>4. /\ DOMAIN M = DOMAIN L /\ a \in DOMAIN L /\ L[a] \in Seq(Completion) /\ L[a] # <<>>
        /\ M[a] = Tail(L[a]) /\ \A x \in DOMAIN L : x # a => M[x] = L[x]
    BY <1>1, <1>2, <1>3
  <1>5. Grows(L, M, T, IF Head(L[a]) \in T[a] THEN 0 - 1 ELSE 0)
    BY <1>4, GrowsByTail
  <1> QED
    BY <1>1, <1>5 DEF L, M, a

\* A response is posted.
LEMMA ServerAnswers ==
  ASSUME NEW c, NEW T, NEW Q, NEW S, NEW W, NEW R, NEW K, NEW V, NEW N,
         NEW q \in Queues, S[q] \in Seq(SendRequest), NEW e \in SendRequest,
         N[q] = Append(S[q], e), \A x \in Queues : x # q => N[x] = S[x]
  PROVE  Grows(Contents(c, Q, S, W, R, K, V), Contents(c, Q, N, W, R, K, V),
               T, IF e \in T[<<"sq", q>>] THEN 1 ELSE 0)
  <1> DEFINE L == Contents(c, Q, S, W, R, K, V)
             M == Contents(c, Q, N, W, R, K, V)
             a == <<"sq", q>>
  <1>1. DOMAIN L = PlacesOf(c) /\ a \in PlacesOf(c) /\ L[a] = S[q]
    BY DEF Contents, PlacesOf
  <1>2. DOMAIN M = PlacesOf(c) /\ M[a] = N[q]
    BY DEF Contents, PlacesOf
  <1>3. \A x \in PlacesOf(c) : x # a => M[x] = L[x]
    BY DEF Contents, PlacesOf
  <1> HIDE DEF L, M, a
  <1>4. /\ DOMAIN M = DOMAIN L /\ a \in DOMAIN L /\ L[a] \in Seq(SendRequest)
        /\ M[a] = Append(L[a], e) /\ \A x \in DOMAIN L : x # a => M[x] = L[x]
    BY <1>1, <1>2, <1>3
  <1>5. Grows(L, M, T, IF e \in T[a] THEN 1 ELSE 0)
    BY <1>4, GrowsByAppend
  <1> QED
    BY <1>1, <1>5 DEF L, M, a

\* A response leaves the send queue.
LEMMA ServerTransmits ==
  ASSUME NEW c, NEW T, NEW Q, NEW S, NEW W, NEW R, NEW K, NEW V, NEW N,
         NEW q \in Queues, S[q] \in Seq(SendRequest), S[q] # <<>>,
         N[q] = Tail(S[q]), \A x \in Queues : x # q => N[x] = S[x]
  PROVE  Grows(Contents(c, Q, S, W, R, K, V), Contents(c, Q, N, W, R, K, V),
               T, IF Head(S[q]) \in T[<<"sq", q>>] THEN 0 - 1 ELSE 0)
  <1> DEFINE L == Contents(c, Q, S, W, R, K, V)
             M == Contents(c, Q, N, W, R, K, V)
             a == <<"sq", q>>
  <1>1. DOMAIN L = PlacesOf(c) /\ a \in PlacesOf(c) /\ L[a] = S[q]
    BY DEF Contents, PlacesOf
  <1>2. DOMAIN M = PlacesOf(c) /\ M[a] = N[q]
    BY DEF Contents, PlacesOf
  <1>3. \A x \in PlacesOf(c) : x # a => M[x] = L[x]
    BY DEF Contents, PlacesOf
  <1> HIDE DEF L, M, a
  <1>4. /\ DOMAIN M = DOMAIN L /\ a \in DOMAIN L /\ L[a] \in Seq(SendRequest) /\ L[a] # <<>>
        /\ M[a] = Tail(L[a]) /\ \A x \in DOMAIN L : x # a => M[x] = L[x]
    BY <1>1, <1>2, <1>3
  <1>5. Grows(L, M, T, IF Head(L[a]) \in T[a] THEN 0 - 1 ELSE 0)
    BY <1>4, GrowsByTail
  <1> QED
    BY <1>1, <1>5 DEF L, M, a

\* The client's device writes a completion.
LEMMA ClientCompletes ==
  ASSUME NEW c, NEW T, NEW Q, NEW S, NEW W, NEW R, NEW K, NEW V, NEW N,
         K[c] \in Seq(Completions), NEW e \in Completions,
         N[c] = Append(K[c], e)
  PROVE  Grows(Contents(c, Q, S, W, R, K, V), Contents(c, Q, S, W, R, N, V),
               T, IF e \in T[<<"ccq", c>>] THEN 1 ELSE 0)
  <1> DEFINE L == Contents(c, Q, S, W, R, K, V)
             M == Contents(c, Q, S, W, R, N, V)
             a == <<"ccq", c>>
  <1>1. DOMAIN L = PlacesOf(c) /\ a \in PlacesOf(c) /\ L[a] = K[c]
    BY DEF Contents, PlacesOf
  <1>2. DOMAIN M = PlacesOf(c) /\ M[a] = N[c]
    BY DEF Contents, PlacesOf
  <1>3. \A x \in PlacesOf(c) : x # a => M[x] = L[x]
    BY DEF Contents, PlacesOf
  <1> HIDE DEF L, M, a
  <1>4. /\ DOMAIN M = DOMAIN L /\ a \in DOMAIN L /\ L[a] \in Seq(Completions)
        /\ M[a] = Append(L[a], e) /\ \A x \in DOMAIN L : x # a => M[x] = L[x]
    BY <1>1, <1>2, <1>3
  <1>5. Grows(L, M, T, IF e \in T[a] THEN 1 ELSE 0)
    BY <1>4, GrowsByAppend
  <1> QED
    BY <1>1, <1>5 DEF L, M, a

\* A client thread takes the next completion of its poll.
LEMMA ClientHandles ==
  ASSUME NEW c, NEW T, NEW Q, NEW S, NEW W, NEW R, NEW K, NEW V, NEW N,
         V[c] \in Seq(Completions), V[c] # <<>>,
         N[c] = Tail(V[c])
  PROVE  Grows(Contents(c, Q, S, W, R, K, V), Contents(c, Q, S, W, R, K, N),
               T, IF Head(V[c]) \in T[<<"cwc", c>>] THEN 0 - 1 ELSE 0)
  <1> DEFINE L == Contents(c, Q, S, W, R, K, V)
             M == Contents(c, Q, S, W, R, K, N)
             a == <<"cwc", c>>
  <1>1. DOMAIN L = PlacesOf(c) /\ a \in PlacesOf(c) /\ L[a] = V[c]
    BY DEF Contents, PlacesOf
  <1>2. DOMAIN M = PlacesOf(c) /\ M[a] = N[c]
    BY DEF Contents, PlacesOf
  <1>3. \A x \in PlacesOf(c) : x # a => M[x] = L[x]
    BY DEF Contents, PlacesOf
  <1> HIDE DEF L, M, a
  <1>4. /\ DOMAIN M = DOMAIN L /\ a \in DOMAIN L /\ L[a] \in Seq(Completions) /\ L[a] # <<>>
        /\ M[a] = Tail(L[a]) /\ \A x \in DOMAIN L : x # a => M[x] = L[x]
    BY <1>1, <1>2, <1>3
  <1>5. Grows(L, M, T, IF Head(L[a]) \in T[a] THEN 0 - 1 ELSE 0)
    BY <1>4, GrowsByTail
  <1> QED
    BY <1>1, <1>5 DEF L, M, a

\* A server thread polls.
LEMMA ServerPolls ==
  ASSUME NEW c, NEW T, NEW Q, NEW S, NEW W, NEW R, NEW K, NEW V, NEW N, NEW P,
         NEW q \in Queues, NEW t \in Threads, T[<<"cq", q>>] = T[<<"wc", t>>],
         W[t] = <<>>, Q[q] \in Seq(Completion), NEW n \in 0 .. Len(Q[q]),
         N[q] = SubSeq(Q[q], n + 1, Len(Q[q])), P[t] = SubSeq(Q[q], 1, n),
         \A x \in Queues : x # q => N[x] = Q[x],
         \A x \in Threads : x # t => P[x] = W[x]
  PROVE  Grows(Contents(c, Q, S, W, R, K, V), Contents(c, N, S, P, R, K, V), T, 0)
  <1> DEFINE L == Contents(c, Q, S, W, R, K, V)
             M == Contents(c, N, S, P, R, K, V)
             a == <<"cq", q>>
             b == <<"wc", t>>
  <1>1. /\ DOMAIN L = PlacesOf(c) /\ a \in PlacesOf(c) /\ L[a] = Q[q]
        /\ b \in PlacesOf(c) /\ L[b] = W[t]
    BY DEF Contents, PlacesOf
  <1>2. DOMAIN M = PlacesOf(c) /\ M[a] = N[q] /\ M[b] = P[t]
    BY DEF Contents, PlacesOf
  <1>3. \A x \in PlacesOf(c) : x \notin {a, b} => M[x] = L[x]
    BY DEF Contents, PlacesOf
  <1>4. a # b /\ T[a] = T[b]
    OBVIOUS
  <1> HIDE DEF L, M, a, b
  <1>5. /\ DOMAIN M = DOMAIN L /\ a \in DOMAIN L /\ b \in DOMAIN L
        /\ L[b] = <<>> /\ L[a] \in Seq(Completion) /\ n \in 0 .. Len(L[a])
        /\ M[a] = SubSeq(L[a], n + 1, Len(L[a])) /\ M[b] = SubSeq(L[a], 1, n)
        /\ \A x \in DOMAIN L : x \notin {a, b} => M[x] = L[x]
    BY <1>1, <1>2, <1>3
  <1>6. Grows(L, M, T, 0)
    BY SMTT(30), <1>4, <1>5, GrowsByMove
  <1> QED
    BY <1>6 DEF L, M

\* A client thread polls.
LEMMA ClientPolls ==
  ASSUME NEW c, NEW T, NEW Q, NEW S, NEW W, NEW R, NEW K, NEW V, NEW N, NEW P,
         T[<<"ccq", c>>] = T[<<"cwc", c>>],
         V[c] = <<>>, K[c] \in Seq(Completions), NEW n \in 0 .. Len(K[c]),
         N[c] = SubSeq(K[c], n + 1, Len(K[c])), P[c] = SubSeq(K[c], 1, n)
  PROVE  Grows(Contents(c, Q, S, W, R, K, V), Contents(c, Q, S, W, R, N, P), T, 0)
  <1> DEFINE L == Contents(c, Q, S, W, R, K, V)
             M == Contents(c, Q, S, W, R, N, P)
             a == <<"ccq", c>>
             b == <<"cwc", c>>
  <1>1. /\ DOMAIN L = PlacesOf(c) /\ a \in PlacesOf(c) /\ L[a] = K[c]
        /\ b \in PlacesOf(c) /\ L[b] = V[c]
    BY DEF Contents, PlacesOf
  <1>2. DOMAIN M = PlacesOf(c) /\ M[a] = N[c] /\ M[b] = P[c]
    BY DEF Contents, PlacesOf
  <1>3. \A x \in PlacesOf(c) : x \notin {a, b} => M[x] = L[x]
    BY DEF Contents, PlacesOf
  <1>4. a # b /\ T[a] = T[b]
    OBVIOUS
  <1> HIDE DEF L, M, a, b
  <1>5. /\ DOMAIN M = DOMAIN L /\ a \in DOMAIN L /\ b \in DOMAIN L
        /\ L[b] = <<>> /\ L[a] \in Seq(Completions) /\ n \in 0 .. Len(L[a])
        /\ M[a] = SubSeq(L[a], n + 1, Len(L[a])) /\ M[b] = SubSeq(L[a], 1, n)
        /\ \A x \in DOMAIN L : x \notin {a, b} => M[x] = L[x]
    BY <1>1, <1>2, <1>3
  <1>6. Grows(L, M, T, 0)
    BY ZenonT(60), <1>4, <1>5, GrowsByMove
  <1> QED
    BY <1>6 DEF L, M

\* A thread starts to serve a request.
LEMMA ServerTakes ==
  ASSUME NEW c, NEW T, NEW Q, NEW S, NEW W, NEW R, NEW K, NEW V, NEW N,
         NEW t \in Threads, R[t] = NoReq, NEW e \in Req, N[t] = e,
         \A x \in Threads : x # t => N[x] = R[x]
  PROVE  Grows(Contents(c, Q, S, W, R, K, V), Contents(c, Q, S, W, N, K, V),
               T, IF e \in T[<<"cur", t>>] THEN 1 ELSE 0)
  <1> DEFINE L == Contents(c, Q, S, W, R, K, V)
             M == Contents(c, Q, S, W, N, K, V)
             a == <<"cur", t>>
  <1>0. e # NoReq
    BY ServerAssumption DEF Req
  <1>1. DOMAIN L = PlacesOf(c) /\ a \in PlacesOf(c) /\ L[a] = <<>>
    BY DEF Contents, PlacesOf
  <1>2. DOMAIN M = PlacesOf(c) /\ M[a] = <<e>>
    BY <1>0 DEF Contents, PlacesOf
  <1>3. \A x \in PlacesOf(c) : x # a => M[x] = L[x]
    BY DEF Contents, PlacesOf
  <1>4. <<>> \in Seq(Req) /\ <<e>> = Append(<<>>, e)
    OBVIOUS
  <1> HIDE DEF L, M, a
  <1>5. /\ DOMAIN M = DOMAIN L /\ a \in DOMAIN L /\ L[a] \in Seq(Req)
        /\ M[a] = Append(L[a], e) /\ \A x \in DOMAIN L : x # a => M[x] = L[x]
    BY <1>1, <1>2, <1>3, <1>4
  <1>6. Grows(L, M, T, IF e \in T[a] THEN 1 ELSE 0)
    BY <1>5, GrowsByAppend
  <1> QED
    BY <1>6 DEF L, M, a

\* It is done with it.
LEMMA ServerReleases ==
  ASSUME NEW c, NEW T, NEW Q, NEW S, NEW W, NEW R, NEW K, NEW V, NEW N,
         NEW t \in Threads, R[t] \in Req, N[t] = NoReq,
         \A x \in Threads : x # t => N[x] = R[x]
  PROVE  Grows(Contents(c, Q, S, W, R, K, V), Contents(c, Q, S, W, N, K, V),
               T, IF R[t] \in T[<<"cur", t>>] THEN 0 - 1 ELSE 0)
  <1> DEFINE L == Contents(c, Q, S, W, R, K, V)
             M == Contents(c, Q, S, W, N, K, V)
             a == <<"cur", t>>
             e == R[t]
  <1>0. e # NoReq
    BY ServerAssumption DEF Req
  <1>1. DOMAIN L = PlacesOf(c) /\ a \in PlacesOf(c) /\ L[a] = <<e>>
    BY <1>0 DEF Contents, PlacesOf
  <1>2. DOMAIN M = PlacesOf(c) /\ M[a] = <<>>
    BY DEF Contents, PlacesOf
  <1>3. \A x \in PlacesOf(c) : x # a => M[x] = L[x]
    BY DEF Contents, PlacesOf
  <1>4. e \in Req
    OBVIOUS
  <1> HIDE DEF L, M, a, e
  <1>5. <<e>> \in Seq(Req) /\ <<e>> # <<>> /\ Tail(<<e>>) = <<>> /\ Head(<<e>>) = e
    BY <1>4
  <1>6. /\ DOMAIN M = DOMAIN L /\ a \in DOMAIN L /\ L[a] \in Seq(Req) /\ L[a] # <<>>
        /\ M[a] = Tail(L[a]) /\ \A x \in DOMAIN L : x # a => M[x] = L[x]
    BY <1>1, <1>2, <1>3, <1>5
  <1>7. Grows(L, M, T, IF Head(L[a]) \in T[a] THEN 0 - 1 ELSE 0)
    BY <1>6, GrowsByTail
  <1> QED
    BY <1>1, <1>5, <1>7 DEF L, M, a, e

LEMMA GrowsSame ==
  ASSUME NEW L, NEW T
  PROVE  Grows(L, L, T, 0)
  BY FS_CardinalityType DEF Grows, HowMany

LEMMA ContentsSame ==
  ASSUME NEW c, NEW Q, NEW S, NEW W, NEW R, NEW K, NEW V, NEW M, NEW N, M[c] = K[c], N[c] = V[c]
  PROVE  Contents(c, Q, S, W, R, M, N) = Contents(c, Q, S, W, R, K, V)
  BY DEF Contents

\* A step brings client d at most so many requests more under way, and exactly so many
\* completed sends.
Carries(d, most, sends) ==
  /\ \E k \in Int : k <= most /\ Grows(UnderWay(d), UnderWay(d)', OfClient(d), k)
  /\ Grows(UnderWay(d), UnderWay(d)', SendsOf(d), sends)

LEMMA CarriesNothing ==
  ASSUME NEW d, UNCHANGED <<cq, sq, wc, cur>>, ccq'[d] = ccq[d], cwc'[d] = cwc[d]
  PROVE  Carries(d, 0, 0)
  <1>1. UnderWay(d)' = UnderWay(d)
    BY ContentsSame DEF UnderWay
  <1>2. Grows(UnderWay(d), UnderWay(d)', OfClient(d), 0)
    BY <1>1, GrowsSame
  <1>3. Grows(UnderWay(d), UnderWay(d)', SendsOf(d), 0)
    BY <1>1, GrowsSame
  <1> QED
    BY <1>2, <1>3 DEF Carries

\* A completion at the client of another changes nothing, one at client d counts.
LEMMA CarriesToClient ==
  ASSUME ClientSide, NEW c \in ClientThreads, NEW d \in ClientThreads, NEW e \in Completions,
         ccq' = [ccq EXCEPT ![c] = Append(@, e)], NEW Q, NEW S, NEW T
  PROVE  Grows(Contents(d, Q, S, wc, cur, ccq, cwc), Contents(d, Q, S, wc, cur, ccq', cwc),
               T, IF d = c /\ e \in T[<<"ccq", c>>] THEN 1 ELSE 0)
  <1>1. ccq \in [ClientThreads -> Seq(Completions)] /\ ccq[c] \in Seq(Completions)
    BY DEF ClientSide
  <1>2. CASE d = c
    <2>1. ccq'[c] = Append(ccq[c], e)
      BY <1>1
    <2> QED
      BY <1>1, <1>2, <2>1, ClientCompletes
  <1>3. CASE d # c
    <2>1. ccq'[d] = ccq[d]
      BY <1>1, <1>3
    <2>2. Contents(d, Q, S, wc, cur, ccq', cwc) = Contents(d, Q, S, wc, cur, ccq, cwc)
      BY <2>1 DEF Contents
    <2> QED
      BY <1>3, <2>2, GrowsSame
  <1> QED
    BY <1>2, <1>3

LEMMA TransmitCarries ==
  ASSUME ServerSide, ClientSide, NEW c \in ClientThreads, NEW d \in ClientThreads, Transmit(c)
  PROVE  IF d = c THEN Carries(d, 1, 1) ELSE Carries(d, 0, 0)
  <1> DEFINE q == Head(csq[c])
             pkt == [src |-> c, prio |-> 0, last |-> FALSE]
             e == [wr_id |-> Head(rq[q]), src_qp |-> c]
             L == UnderWay(d)
             M == Contents(d, cq', sq, wc, cur, ccq, cwc)
  <1>1. q \in Queues /\ pkt \in Packet /\ c \in Sources
    BY TransmitDestination, RequestPacket DEF Transmit
  <1>2. /\ cq \in [Queues -> Seq(Completion)] /\ rq \in [Queues -> Seq(RecvIds)]
        /\ VerbsTypeOK
    BY DEF ServerSide, ServerTypeOK, VerbsTypeOK
  <1>3. UNCHANGED <<sq, wc, cur, cwc>>
    BY DEF Transmit, serverVars, threadVars, NicDrop, NicReceive
  <1>4. UnderWay(d)' = Contents(d, cq', sq, wc, cur, ccq', cwc)
    BY <1>3 DEF UnderWay
  <1>5. \/ cq' = cq
        \/ /\ e \in Completion /\ IsRecv(e) /\ e.src_qp = c
           /\ cq'[q] = Append(cq[q], e) /\ \A r \in Queues : r # q => cq'[r] = cq[r]
    <2>1. CASE rq[q] = <<>>
      BY <2>1 DEF Transmit, NicDrop
    <2>2. CASE rq[q] # <<>>
      <3>1. NicReceive(q, pkt) /\ pkt.src = c
        BY <2>2 DEF Transmit
      <3>2. Head(rq[q]) \in RecvIds
        BY <1>1, <1>2, <3>1, VerbsReceive
      <3>3. e \in Completion /\ IsRecv(e) /\ e.src_qp = c
        BY <1>1, <3>2, BufCount DEF Completion, RecvIds, IsRecv
      <3>4. cq' = [cq EXCEPT ![q] = Append(cq[q], e)]
        BY <3>1 DEF NicReceive
      <3> HIDE DEF e, q, pkt
      <3> QED
        BY <1>1, <1>2, <3>3, <3>4
    <2> QED
      BY <2>1, <2>2
  <1> HIDE DEF q, pkt, e
  <1>6. \E k \in Int : k <= (IF d = c THEN 1 ELSE 0) /\ Grows(L, M, OfClient(d), k)
    <2>1. CASE cq' = cq
      <3>1. M = L
        BY <2>1 DEF UnderWay
      <3>2. Grows(L, M, OfClient(d), 0)
        BY <3>1, GrowsSame
      <3> QED
        BY <3>2
    <2>2. CASE cq' # cq
      <3>1. Grows(L, M, OfClient(d), IF e \in OfClient(d)[<<"cq", q>>] THEN 1 ELSE 0)
        BY <1>1, <1>2, <1>5, <2>2, ServerCompletes DEF UnderWay
      <3>2. e \in OfClient(d)[<<"cq", q>>] <=> d = c
        <4>1. OfClient(d)[<<"cq", q>>] = RequestsOf(d)
          BY <1>1, CountedAt
        <4> QED
          BY <1>5, <2>2, <4>1 DEF RequestsOf
      <3> QED
        BY <3>1, <3>2
    <2> QED
      BY <2>1, <2>2
  <1>7. Grows(L, M, SendsOf(d), 0)
    <2>1. CASE cq' = cq
      BY <2>1, GrowsSame DEF UnderWay
    <2>2. CASE cq' # cq
      <3>1. Grows(L, M, SendsOf(d), IF e \in SendsOf(d)[<<"cq", q>>] THEN 1 ELSE 0)
        BY <1>1, <1>2, <1>5, <2>2, ServerCompletes DEF UnderWay
      <3>2. e \notin SendsOf(d)[<<"cq", q>>]
        BY <1>1, CountedAt
      <3> QED
        BY <3>1, <3>2
    <2> QED
      BY <2>1, <2>2
  <1>8. "send" \in Completions /\ ccq' = [ccq EXCEPT ![c] = Append(@, "send")]
    BY DEF Transmit, Completions
  <1>9. Grows(M, UnderWay(d)', OfClient(d), 0)
    <2>1. Grows(M, UnderWay(d)', OfClient(d),
                IF d = c /\ "send" \in OfClient(d)[<<"ccq", c>>] THEN 1 ELSE 0)
      BY ZenonT(60), <1>4, <1>8, CarriesToClient
    <2>2. OfClient(c)[<<"ccq", c>>] = {"recv"}
      BY CountedAt
    <2> QED
      BY <2>1, <2>2
  <1>10. Grows(M, UnderWay(d)', SendsOf(d), IF d = c THEN 1 ELSE 0)
    <2>1. Grows(M, UnderWay(d)', SendsOf(d),
                IF d = c /\ "send" \in SendsOf(d)[<<"ccq", c>>] THEN 1 ELSE 0)
      BY ZenonT(60), <1>4, <1>8, CarriesToClient
    <2>2. d = c => "send" \in SendsOf(d)[<<"ccq", c>>]
      BY CountedAt
    <2> QED
      BY <2>1, <2>2
  <1> HIDE DEF L, M
  <1>11. \E k \in Int : k <= (IF d = c THEN 1 ELSE 0) /\ Grows(L, UnderWay(d)', OfClient(d), k)
    <2>1. PICK k \in Int : k <= (IF d = c THEN 1 ELSE 0) /\ Grows(L, M, OfClient(d), k)
      BY <1>6
    <2>2. Grows(L, UnderWay(d)', OfClient(d), k + 0) /\ k + 0 = k
      BY <1>9, <2>1, GrowsTwice
    <2> QED
      BY <2>1, <2>2
  <1>12. Grows(L, UnderWay(d)', SendsOf(d), IF d = c THEN 1 ELSE 0)
    <2>1. Grows(L, UnderWay(d)', SendsOf(d), 0 + (IF d = c THEN 1 ELSE 0))
      BY <1>7, <1>10, GrowsTwice
    <2>2. 0 + (IF d = c THEN 1 ELSE 0) = IF d = c THEN 1 ELSE 0
      OBVIOUS
    <2> QED
      BY <2>1, <2>2
  <1>13. CASE d = c
    BY <1>11, <1>12, <1>13 DEF Carries, L
  <1>14. CASE d # c
    BY <1>11, <1>12, <1>14 DEF Carries, L
  <1> QED
    BY <1>13, <1>14

LEMMA RespondCarries ==
  ASSUME ServerSide, ClientSide, NEW d \in ClientThreads, NEW q \in Queues, Respond(q)
  PROVE  Carries(d, 0, 0)
  <1> DEFINE wr == Head(sq[q])
             c == wr.qpn
             e == [wr_id |-> wr.wr_id, src_qp |-> wr.qpn]
             L == UnderWay(d)
             M == Contents(d, cq, sq', wc, cur, ccq, cwc)
             N == Contents(d, cq', sq', wc, cur, ccq, cwc)
             O == UnderWay(d)'
  <1>1. wr \in SendRequest /\ c \in ClientThreads /\ c \in Sources /\ wr.wr_id \in SendIds
    BY ResponseGoesTo DEF Respond, SendRequest
  <1>2. cq \in [Queues -> Seq(Completion)] /\ sq \in [Queues -> Seq(SendRequest)]
    BY DEF ServerSide, ServerTypeOK, VerbsTypeOK
  <1>3. /\ sq[q] # <<>> /\ sq' = [sq EXCEPT ![q] = Tail(sq[q])]
        /\ cq' = IF wr.signal THEN [cq EXCEPT ![q] = Append(cq[q], e)] ELSE cq
        /\ UNCHANGED <<wc, cur, cwc>>
        /\ \/ UNCHANGED ccq
           \/ ccq' = [ccq EXCEPT ![c] = Append(@, "recv")]
    BY DEF Respond, NicSend, serverVars, threadVars
  <1>4. e \in Completion /\ ~IsRecv(e)
    BY <1>1, BufCount DEF Completion, IsRecv, SendIds
  <1> HIDE DEF e
  <1>5. wr \in OfClient(d)[<<"sq", q>>] <=> d = c
    <2>1. OfClient(d)[<<"sq", q>>] = AnswersTo(d)
      BY CountedAt
    <2> QED
      BY <1>1, <2>1 DEF AnswersTo
  <1>6. ASSUME NEW T
        PROVE  Grows(L, M, T, IF wr \in T[<<"sq", q>>] THEN 0 - 1 ELSE 0)
    <2>1. sq'[q] = Tail(sq[q]) /\ (\A r \in Queues : r # q => sq'[r] = sq[r])
      BY <1>2, <1>3
    <2>2. sq[q] \in Seq(SendRequest)
      BY <1>2
    <2> QED
      BY <1>3, <2>1, <2>2, ServerTransmits DEF UnderWay
  <1>7. ASSUME NEW T, e \notin T[<<"cq", q>>]
        PROVE  Grows(M, N, T, 0)
    <2>1. CASE wr.signal
      <3>1. cq'[q] = Append(cq[q], e) /\ (\A r \in Queues : r # q => cq'[r] = cq[r])
        BY <1>2, <1>3, <2>1
      <3>2. cq[q] \in Seq(Completion)
        BY <1>2
      <3>3. Grows(M, N, T, IF e \in T[<<"cq", q>>] THEN 1 ELSE 0)
        BY <1>4, <3>1, <3>2, ServerCompletes
      <3> QED
        BY <1>7, <3>3
    <2>2. CASE ~wr.signal
      BY <1>3, <2>2, GrowsSame
    <2> QED
      BY <2>1, <2>2
  <1>8. e \notin OfClient(d)[<<"cq", q>>] /\ e \notin SendsOf(d)[<<"cq", q>>]
    <2>1. OfClient(d)[<<"cq", q>>] = RequestsOf(d) /\ SendsOf(d)[<<"cq", q>>] = {}
      BY CountedAt
    <2> QED
      BY <1>4, <2>1 DEF RequestsOf
  <1>9. ASSUME NEW T
        PROVE  \/ Grows(N, O, T, 0)
               \/ Grows(N, O, T, IF d = c /\ "recv" \in T[<<"ccq", c>>] THEN 1 ELSE 0)
    <2>0. O = Contents(d, cq', sq', wc, cur, ccq', cwc)
      BY <1>3 DEF UnderWay
    <2>1. CASE UNCHANGED ccq
      BY <2>0, <2>1, GrowsSame
    <2>2. CASE ccq' = [ccq EXCEPT ![c] = Append(@, "recv")]
      <3>1. "recv" \in Completions
        BY DEF Completions
      <3>2. c \in ClientThreads
        BY <1>1
      <3> HIDE DEF c
      <3>3. Grows(Contents(d, cq', sq', wc, cur, ccq, cwc),
                  Contents(d, cq', sq', wc, cur, ccq', cwc),
                  T, IF d = c /\ "recv" \in T[<<"ccq", c>>] THEN 1 ELSE 0)
        BY <2>2, <3>1, <3>2, CarriesToClient
      <3> QED
        BY <2>0, <3>3
    <2> QED
      BY <1>3, <2>1, <2>2
  <1> HIDE DEF L, M, N, O, wr
  <1>10. \E k \in Int : k <= 0 /\ Grows(L, O, OfClient(d), k)
    <2>1. Grows(L, M, OfClient(d), IF d = c THEN 0 - 1 ELSE 0)
      BY <1>5, <1>6
    <2>2. Grows(M, N, OfClient(d), 0)
      BY <1>7, <1>8
    <2>3. Grows(N, O, OfClient(d), 0) \/ Grows(N, O, OfClient(d), IF d = c THEN 1 ELSE 0)
      <3>1. d = c => OfClient(d)[<<"ccq", c>>] = {"recv"}
        BY CountedAt
      <3>2. Grows(N, O, OfClient(d), 0)
              \/ Grows(N, O, OfClient(d), IF d = c /\ "recv" \in OfClient(d)[<<"ccq", c>>] THEN 1 ELSE 0)
        BY <1>9
      <3>3. (IF d = c /\ "recv" \in OfClient(d)[<<"ccq", c>>] THEN 1 ELSE 0)
              = IF d = c THEN 1 ELSE 0
        BY <3>1
      <3> QED
        BY <3>2, <3>3
    <2>4. PICK i \in Int : Grows(N, O, OfClient(d), i) /\ (i = 0 \/ (d = c /\ i = 1))
      BY <2>3
    <2>5. PICK k \in Int : Grows(L, M, OfClient(d), k) /\ (IF d = c THEN k = 0 - 1 ELSE k = 0)
      BY <2>1
    <2>6. Grows(L, N, OfClient(d), k + 0)
      BY <2>2, <2>5, GrowsTwice
    <2>7. Grows(L, O, OfClient(d), (k + 0) + i) /\ (k + 0) + i <= 0 /\ (k + 0) + i \in Int
      <3>1. k + 0 \in Int /\ (k + 0) + i <= 0 /\ (k + 0) + i \in Int
        BY <2>4, <2>5
      <3> QED
        BY <2>4, <2>6, <3>1, GrowsTwice
    <2> QED
      BY <2>7
  <1>11. Grows(L, O, SendsOf(d), 0)
    <2>1. SendsOf(d)[<<"sq", q>>] = {} /\ (d = c => SendsOf(d)[<<"ccq", c>>] = {"send"})
      BY CountedAt
    <2>2. Grows(L, M, SendsOf(d), 0) /\ Grows(M, N, SendsOf(d), 0)
      BY <1>6, <1>7, <1>8, <2>1
    <2>3. Grows(N, O, SendsOf(d), 0)
      BY <1>9, <2>1
    <2>4. Grows(L, N, SendsOf(d), 0 + 0)
      BY <2>2, GrowsTwice
    <2>5. Grows(L, N, SendsOf(d), 0)
      BY <2>4
    <2>6. Grows(L, O, SendsOf(d), 0 + 0)
      BY <2>3, <2>5, GrowsTwice
    <2> QED
      BY <2>6
  <1> QED
    BY <1>10, <1>11 DEF Carries, L, O

LEMMA ThreadCarries ==
  ASSUME ServerSide, NEW d \in ClientThreads, NEW t \in Threads, ServerThread(t),
         UNCHANGED clientVars
  PROVE  Carries(d, 0, 0)
  <1> DEFINE q == ConnOf(t)
             L == UnderWay(d)
             O == UnderWay(d)'
             Mine == OfClient(d)
             Sent == SendsOf(d)
  <1>1. q \in Queues
    BY ConnInRange
  <1>2. /\ cq \in [Queues -> Seq(Completion)] /\ sq \in [Queues -> Seq(SendRequest)]
        /\ wc \in [Threads -> Seq(Completion)] /\ cur \in [Threads -> Req \cup {NoReq}]
        /\ VerbsTypeOK
    BY DEF ServerSide, ServerTypeOK, VerbsTypeOK, ThreadsTypeOK
  <1>3. UNCHANGED <<ccq, cwc>>
    BY DEF clientVars, clientDevice
  <1>4. O = Contents(d, cq', sq', wc', cur', ccq, cwc)
    BY <1>3 DEF UnderWay
  <1>5. /\ Mine[<<"cq", q>>] = RequestsOf(d) /\ Mine[<<"wc", t>>] = RequestsOf(d)
        /\ Mine[<<"sq", q>>] = AnswersTo(d) /\ Mine[<<"cur", t>>] = ServedFor(d)
        /\ Sent[<<"cq", q>>] = {} /\ Sent[<<"wc", t>>] = {}
        /\ Sent[<<"sq", q>>] = {} /\ Sent[<<"cur", t>>] = {}
    BY <1>1, CountedAt
  <1>6. CASE Start(t) \/ PostRecv(t)
    BY <1>3, <1>6, CarriesNothing DEF Start, PostRecv, verbsVars
  <1>7. CASE Poll(t)
    <2> DEFINE n == PollCount(q)
    <2>1. wc[t] = <<>>
      BY <1>7 DEF Poll, ServerSide
    <2>2. cq[q] \in Seq(Completion) /\ n \in 0 .. Len(cq[q])
      BY <1>1, <1>2, BufCount DEF PollCount
    <2> HIDE DEF n, q
    <2>3. /\ cq' = [cq EXCEPT ![q] = SubSeq(cq[q], n + 1, Len(cq[q]))]
          /\ wc' = [wc EXCEPT ![t] = SubSeq(cq[q], 1, n)]
          /\ UNCHANGED <<sq, cur>>
      BY <1>7 DEF Poll, PollCq, Polled, n, q
    <2>4. /\ cq'[q] = SubSeq(cq[q], n + 1, Len(cq[q])) /\ wc'[t] = SubSeq(cq[q], 1, n)
          /\ \A x \in Queues : x # q => cq'[x] = cq[x]
          /\ \A x \in Threads : x # t => wc'[x] = wc[x]
      BY <1>1, <1>2, <2>3
    <2>5. ASSUME NEW T, T[<<"cq", q>>] = T[<<"wc", t>>]
          PROVE  Grows(L, O, T, 0)
      <3>1. Grows(Contents(d, cq, sq, wc, cur, ccq, cwc),
                  Contents(d, cq', sq, wc', cur, ccq, cwc), T, 0)
        BY <1>1, <2>1, <2>2, <2>4, <2>5, ServerPolls
      <3> QED
        BY <1>4, <2>3, <3>1 DEF UnderWay
    <2>6. Grows(L, O, Mine, 0) /\ Grows(L, O, Sent, 0)
      <3> HIDE DEF L, O, Mine, Sent
      <3> QED
        BY <1>5, <2>5
    <2> QED
      BY <2>6 DEF Carries
  <1>8. CASE SendCompletion(t)
    <2>1. /\ wc[t] \in Seq(Completion) /\ wc[t] # <<>> /\ ~IsRecv(Head(wc[t]))
          /\ wc'[t] = Tail(wc[t]) /\ \A x \in Threads : x # t => wc'[x] = wc[x]
          /\ UNCHANGED <<cq, sq, cur>>
      BY <1>2, <1>8 DEF SendCompletion, verbsVars
    <2>2. ASSUME NEW T
          PROVE  Grows(L, O, T, IF Head(wc[t]) \in T[<<"wc", t>>] THEN 0 - 1 ELSE 0)
      <3>1. Grows(Contents(d, cq, sq, wc, cur, ccq, cwc),
                  Contents(d, cq, sq, wc', cur, ccq, cwc),
                  T, IF Head(wc[t]) \in T[<<"wc", t>>] THEN 0 - 1 ELSE 0)
        BY <2>1, ServerHandles
      <3> QED
        BY <1>4, <2>1, <3>1 DEF UnderWay
    <2>3. Head(wc[t]) \notin RequestsOf(d)
      BY <2>1 DEF RequestsOf
    <2>4. Grows(L, O, Mine, 0) /\ Grows(L, O, Sent, 0)
      <3> HIDE DEF L, O, Mine, Sent
      <3> QED
        BY <1>5, <2>2, <2>3
    <2> QED
      BY <2>4 DEF Carries
  <1>9. CASE RecvCompletion(t)
    <2> DEFINE h == Head(wc[t])
               e == [bufID |-> h.wr_id, srcQP |-> h.src_qp]
               M == Contents(d, cq, sq, wc', cur, ccq, cwc)
    <2>1. /\ wc[t] \in Seq(Completion) /\ wc[t] # <<>> /\ IsRecv(h)
          /\ wc'[t] = Tail(wc[t]) /\ (\A x \in Threads : x # t => wc'[x] = wc[x])
          /\ cur'[t] = e /\ (\A x \in Threads : x # t => cur'[x] = cur[x])
          /\ UNCHANGED <<cq, sq>> /\ cur[t] = NoReq
      BY <1>2, <1>9 DEF RecvCompletion, ServerSide
    <2>2. h \in Completion /\ h.wr_id \in RecvIds /\ h.src_qp \in Sources
      <3>1. h \in Completion
        BY <2>1, TailProperties
      <3> QED
        BY <2>1, <3>1, BufCount DEF Completion, IsRecv, SendIds, RecvIds
    <2>3. e \in Req /\ e.srcQP = h.src_qp
      BY <2>2 DEF Req
    <2> HIDE DEF h, e
    <2>4. ASSUME NEW T
          PROVE  Grows(L, M, T, IF h \in T[<<"wc", t>>] THEN 0 - 1 ELSE 0)
      <3>1. Grows(Contents(d, cq, sq, wc, cur, ccq, cwc),
                  Contents(d, cq, sq, wc', cur, ccq, cwc),
                  T, IF Head(wc[t]) \in T[<<"wc", t>>] THEN 0 - 1 ELSE 0)
        BY <2>1, ServerHandles
      <3> QED
        BY <3>1 DEF UnderWay, h
    <2>5. ASSUME NEW T
          PROVE  Grows(M, O, T, IF e \in T[<<"cur", t>>] THEN 1 ELSE 0)
      <3>1. Grows(Contents(d, cq, sq, wc', cur, ccq, cwc),
                  Contents(d, cq, sq, wc', cur', ccq, cwc),
                  T, IF e \in T[<<"cur", t>>] THEN 1 ELSE 0)
        BY <2>1, <2>3, ServerTakes
      <3> QED
        BY <1>4, <2>1, <3>1
    <2>6. h \in RequestsOf(d) <=> e \in ServedFor(d)
      BY <2>1, <2>2, <2>3 DEF RequestsOf, ServedFor
    <2> HIDE DEF L, M, O, Mine, Sent
    <2>7. PICK k \in Int : Grows(L, M, Mine, k) /\ Grows(M, O, Mine, 0 - k)
      <3>1. CASE h \in RequestsOf(d)
        <4>1. Grows(L, M, Mine, 0 - 1) /\ Grows(M, O, Mine, 1)
          BY <1>5, <2>4, <2>5, <2>6, <3>1
        <4>2. 0 - (0 - 1) = 1 /\ 0 - 1 \in Int
          OBVIOUS
        <4> QED
          BY <4>1, <4>2
      <3>2. CASE h \notin RequestsOf(d)
        <4>1. Grows(L, M, Mine, 0) /\ Grows(M, O, Mine, 0)
          BY <1>5, <2>4, <2>5, <2>6, <3>2
        <4>2. 0 - 0 = 0
          OBVIOUS
        <4> QED
          BY <4>1, <4>2
      <3> QED
        BY <3>1, <3>2
    <2>8. Grows(L, O, Mine, k + (0 - k)) /\ k + (0 - k) = 0
      BY <2>7, GrowsTwice
    <2>9. Grows(L, O, Sent, 0 + 0) /\ 0 + 0 = 0
      <3>1. Grows(L, M, Sent, 0) /\ Grows(M, O, Sent, 0)
        BY <1>5, <2>4, <2>5
      <3> QED
        BY <3>1, GrowsTwice
    <2> QED
      BY <2>8, <2>9 DEF Carries, L, O, Mine, Sent
  <1>10. CASE PostSend(t)
    <2> DEFINE r == cur[t]
               e == [wr_id |-> r.bufID - NumBufs, qpn |-> r.srcQP,
                     pkt |-> Payload(r.bufID - NumBufs), signal |-> Signaled(t)]
               M == Contents(d, cq, sq, wc, cur', ccq, cwc)
    <2>1. r \in Req /\ r.bufID \in RecvIds /\ r.srcQP \in Sources
      BY <1>2, <1>10 DEF PostSend, Req, ServerSide
    <2>2. /\ cur'[t] = NoReq /\ (\A x \in Threads : x # t => cur'[x] = cur[x])
          /\ UNCHANGED <<cq, wc>>
          /\ \/ sq' = sq
             \/ sq' = [sq EXCEPT ![q] = Append(sq[q], e)]
      BY <1>2, <1>10 DEF PostSend, PostSendWR
    <2>3. e \in SendRequest /\ e.qpn = r.srcQP
      <3>1. r.bufID - NumBufs \in SendIds
        BY <2>1, RecvToSend
      <3>2. Payload(r.bufID - NumBufs) \in 0 .. MaxPackets
        BY <1>2, <3>1 DEF Payload, VerbsTypeOK
      <3>3. Signaled(t) \in BOOLEAN
        BY DEF Signaled
      <3> HIDE DEF r
      <3> QED
        BY <2>1, <3>1, <3>2, <3>3 DEF SendRequest
    <2> HIDE DEF e
    <2>4. ASSUME NEW T
          PROVE  Grows(L, M, T, IF r \in T[<<"cur", t>>] THEN 0 - 1 ELSE 0)
      <3>1. Grows(Contents(d, cq, sq, wc, cur, ccq, cwc),
                  Contents(d, cq, sq, wc, cur', ccq, cwc),
                  T, IF cur[t] \in T[<<"cur", t>>] THEN 0 - 1 ELSE 0)
        BY <2>1, <2>2, ServerReleases
      <3> QED
        BY <3>1 DEF UnderWay
    <2>5. ASSUME NEW T
          PROVE  \/ Grows(M, O, T, 0)
                 \/ Grows(M, O, T, IF e \in T[<<"sq", q>>] THEN 1 ELSE 0)
      <3>1. O = Contents(d, cq, sq', wc, cur', ccq, cwc)
        BY <1>4, <2>2
      <3>2. CASE sq' = sq
        BY <3>1, <3>2, GrowsSame
      <3>3. CASE sq' = [sq EXCEPT ![q] = Append(sq[q], e)]
        <4> HIDE DEF q
        <4>1. /\ sq[q] \in Seq(SendRequest) /\ sq'[q] = Append(sq[q], e)
              /\ \A x \in Queues : x # q => sq'[x] = sq[x]
          BY <1>1, <1>2, <3>3
        <4>2. Grows(Contents(d, cq, sq, wc, cur', ccq, cwc),
                    Contents(d, cq, sq', wc, cur', ccq, cwc),
                    T, IF e \in T[<<"sq", q>>] THEN 1 ELSE 0)
          BY <1>1, <2>3, <4>1, ServerAnswers
        <4> QED
          BY <3>1, <4>2
      <3> QED
        BY <2>2, <3>2, <3>3
    <2>6. r \in ServedFor(d) <=> e \in AnswersTo(d)
      BY <2>1, <2>3 DEF AnswersTo, ServedFor
    <2> HIDE DEF L, M, O, Mine, Sent, r, q
    <2>7. PICK k \in Int, i \in Int : Grows(L, M, Mine, k) /\ Grows(M, O, Mine, i) /\ k + i <= 0
      <3>1. Grows(L, M, Mine, IF r \in ServedFor(d) THEN 0 - 1 ELSE 0)
        BY <1>5, <2>4
      <3>2. \/ Grows(M, O, Mine, 0)
            \/ Grows(M, O, Mine, IF r \in ServedFor(d) THEN 1 ELSE 0)
        <4>1. \/ Grows(M, O, Mine, 0)
              \/ Grows(M, O, Mine, IF e \in Mine[<<"sq", q>>] THEN 1 ELSE 0)
          BY <2>5
        <4> QED
          BY <1>5, <2>6, <4>1
      <3>3. CASE r \in ServedFor(d)
        <4>1. Grows(L, M, Mine, 0 - 1) /\ (Grows(M, O, Mine, 0) \/ Grows(M, O, Mine, 1))
          BY <3>1, <3>2, <3>3
        <4>2. 0 - 1 \in Int /\ (0 - 1) + 0 <= 0 /\ (0 - 1) + 1 <= 0
          OBVIOUS
        <4> QED
          BY <4>1, <4>2
      <3>4. CASE r \notin ServedFor(d)
        <4>1. Grows(L, M, Mine, 0) /\ Grows(M, O, Mine, 0)
          BY <3>1, <3>2, <3>4
        <4> QED
          BY <4>1
      <3> QED
        BY <3>3, <3>4
    <2>8. Grows(L, O, Mine, k + i) /\ k + i \in Int
      BY <2>7, GrowsTwice
    <2>9. Grows(L, O, Sent, 0 + 0) /\ 0 + 0 = 0
      <3>1. Grows(L, M, Sent, 0)
        BY <1>5, <2>4
      <3>2. Grows(M, O, Sent, 0)
        <4>1. \/ Grows(M, O, Sent, 0)
              \/ Grows(M, O, Sent, IF e \in Sent[<<"sq", q>>] THEN 1 ELSE 0)
          BY <2>5
        <4> QED
          BY <1>5, <4>1
      <3> QED
        BY <3>1, <3>2, GrowsTwice
    <2> QED
      BY <2>7, <2>8, <2>9 DEF Carries, L, O, Mine, Sent
  <1> QED
    BY <1>6, <1>7, <1>8, <1>9, <1>10 DEF ServerThread

\* A poll of client c moves completions, handling one removes it.
LEMMA PollCarries ==
  ASSUME ClientSide, NEW c \in ClientThreads, NEW d \in ClientThreads,
         PollLoop(c) \/ DrainPoll(c)
  PROVE  Carries(d, 0, 0)
  <1>1. TakeCompletions(c) /\ UNCHANGED <<cq, sq, wc, cur>>
    BY DEF PollLoop, DrainPoll, verbsVars, serverVars, threadVars
  <1>2. CASE d # c
    <2>1. ccq'[d] = ccq[d] /\ cwc'[d] = cwc[d]
      BY <1>1, <1>2, TakeEffect
    <2> QED
      BY <1>1, <2>1, CarriesNothing
  <1>3. CASE d = c
    <2>1. cwc[c] = <<>> /\ ccq[c] \in Seq(Completions)
      BY DEF PollLoop, DrainPoll, ClientSide, Handling
    <2>2. PICK n \in 0 .. Len(ccq[c]) : /\ cwc'[c] = SubSeq(ccq[c], 1, n)
                                        /\ ccq'[c] = SubSeq(ccq[c], n + 1, Len(ccq[c]))
      BY <1>1, TakeEffect
    <2>3. ASSUME NEW T, T[<<"ccq", c>>] = T[<<"cwc", c>>]
          PROVE  Grows(UnderWay(c), UnderWay(c)', T, 0)
      <3>1. Grows(Contents(c, cq, sq, wc, cur, ccq, cwc),
                  Contents(c, cq, sq, wc, cur, ccq', cwc'), T, 0)
        BY <2>1, <2>2, <2>3, ClientPolls
      <3> QED
        BY <1>1, <3>1 DEF UnderWay
    <2>4. /\ OfClient(c)[<<"ccq", c>>] = OfClient(c)[<<"cwc", c>>]
          /\ SendsOf(c)[<<"ccq", c>>] = SendsOf(c)[<<"cwc", c>>]
      BY CountedAt
    <2>5. Grows(UnderWay(c), UnderWay(c)', OfClient(c), 0)
      BY <2>3, <2>4
    <2>6. Grows(UnderWay(c), UnderWay(c)', SendsOf(c), 0)
      BY <2>3, <2>4
    <2> QED
      BY <1>3, <2>5, <2>6 DEF Carries
  <1> QED
    BY <1>2, <1>3

LEMMA HandleCarries ==
  ASSUME ClientSide, NEW c \in ClientThreads, NEW d \in ClientThreads,
         HandleSend(c) \/ HandleRecv(c) \/ HandleLate(c)
  PROVE  /\ d # c => Carries(d, 0, 0)
         /\ d = c /\ Head(cwc[c]) = "send" => Carries(c, 0, 0 - 1)
         /\ d = c /\ Head(cwc[c]) = "recv" => Carries(c, 0 - 1, 0)
  <1>1. /\ cwc[c] # <<>> /\ cwc' = [cwc EXCEPT ![c] = Tail(@)]
        /\ UNCHANGED <<cq, sq, wc, cur, ccq>>
    BY DEF HandleSend, HandleRecv, HandleLate, verbsVars, serverVars, threadVars, clientDevice
  <1>2. cwc'[c] = Tail(cwc[c]) /\ \A x \in ClientThreads \ {c} : cwc'[x] = cwc[x]
    BY <1>1, HandleEffect
  <1>3. ASSUME d # c
        PROVE  Carries(d, 0, 0)
    BY <1>1, <1>2, <1>3, CarriesNothing
  <1>4. ASSUME NEW T
        PROVE  Grows(UnderWay(c), UnderWay(c)', T,
                     IF Head(cwc[c]) \in T[<<"cwc", c>>] THEN 0 - 1 ELSE 0)
    <2>1. cwc[c] \in Seq(Completions)
      BY DEF ClientSide
    <2>2. Grows(Contents(c, cq, sq, wc, cur, ccq, cwc),
                Contents(c, cq, sq, wc, cur, ccq, cwc'),
                T, IF Head(cwc[c]) \in T[<<"cwc", c>>] THEN 0 - 1 ELSE 0)
      BY <1>1, <1>2, <2>1, ClientHandles
    <2> QED
      BY <1>1, <2>2 DEF UnderWay
  <1>5. OfClient(c)[<<"cwc", c>>] = {"recv"} /\ SendsOf(c)[<<"cwc", c>>] = {"send"}
    BY CountedAt
  <1>6. ASSUME Head(cwc[c]) = "send"
        PROVE  Carries(c, 0, 0 - 1)
    <2>1. Grows(UnderWay(c), UnderWay(c)', OfClient(c), 0)
      BY <1>4, <1>5, <1>6
    <2>2. Grows(UnderWay(c), UnderWay(c)', SendsOf(c), 0 - 1)
      BY <1>4, <1>5, <1>6
    <2> QED
      BY <2>1, <2>2 DEF Carries
  <1>7. ASSUME Head(cwc[c]) = "recv"
        PROVE  Carries(c, 0 - 1, 0)
    <2>1. Grows(UnderWay(c), UnderWay(c)', OfClient(c), 0 - 1)
      BY <1>4, <1>5, <1>7
    <2>2. Grows(UnderWay(c), UnderWay(c)', SendsOf(c), 0)
      BY <1>4, <1>5, <1>7
    <2>3. 0 - 1 \in Int /\ 0 - 1 <= 0 - 1
      OBVIOUS
    <2> QED
      BY <2>1, <2>2, <2>3 DEF Carries
  <1> QED
    BY <1>3, <1>6, <1>7

-----------------------------------------------------------------------------
(* No response without a request.  Every request a client has posted is accounted for *)
(* at most once: in its send queue, under way, or answered; and souts is the number   *)
(* of sends posted whose completion was not handled.                                  *)

FlowOf(c) ==
  LET L == UnderWay(c) IN
    /\ IsFiniteSet(EntriesIn(L, OfClient(c)))
    /\ IsFiniteSet(EntriesIn(L, SendsOf(c)))
    /\ HowMany(L, OfClient(c)) + crcnt[c] + Len(csq[c]) <= Posted(c)
    /\ souts[c] = Len(csq[c]) + HowMany(L, SendsOf(c))

Flow == \A c \in ClientThreads : cpc[c] # "done" => FlowOf(c)

Base == Phases /\ Published /\ ServerSide /\ ClientSide

LEMMA CountTypes ==
  ASSUME Base, NEW c \in ClientThreads
  PROVE  /\ crcnt[c] \in Nat /\ cscnt[c] \in Nat /\ souts[c] \in Int
         /\ Len(csq[c]) \in Nat /\ Posted(c) \in Int
  <1>1. crcnt[c] \in Nat /\ cscnt[c] \in Nat /\ souts[c] \in Int /\ csq[c] \in Seq(Queues)
    BY DEF Base, Published, ClientSide
  <1> QED
    BY <1>1 DEF Posted

\* The counters make up for what the step carries.
Balances(d, most, sends) ==
  /\ most + (crcnt'[d] - crcnt[d]) + (Len(csq'[d]) - Len(csq[d]))
       <= (cscnt'[d] - cscnt[d]) + (souts'[d] - souts[d])
  /\ souts'[d] - souts[d] = (Len(csq'[d]) - Len(csq[d])) + sends

LEMMA FlowStep ==
  ASSUME NEW d \in ClientThreads, FlowOf(d), Base, Base',
         NEW m \in Int, NEW j \in Int, Carries(d, m, j), Balances(d, m, j)
  PROVE  FlowOf(d)'
  <1> DEFINE L == UnderWay(d)
             M == UnderWay(d)'
  <1>1. /\ crcnt[d] \in Nat /\ cscnt[d] \in Nat /\ souts[d] \in Int /\ Len(csq[d]) \in Nat
    BY CountTypes
  <1>2. /\ crcnt'[d] \in Nat /\ cscnt'[d] \in Nat /\ souts'[d] \in Int /\ Len(csq'[d]) \in Nat
    <2>1. /\ crcnt'[d] \in Nat /\ cscnt'[d] \in Nat /\ souts'[d] \in Int
          /\ csq'[d] \in Seq(Queues)
      BY DEF Base, Published, ClientSide
    <2> QED
      BY <2>1
  <1>3. /\ IsFiniteSet(EntriesIn(L, OfClient(d))) /\ IsFiniteSet(EntriesIn(L, SendsOf(d)))
        /\ HowMany(L, OfClient(d)) + crcnt[d] + Len(csq[d]) <= cscnt[d] + souts[d]
        /\ souts[d] = Len(csq[d]) + HowMany(L, SendsOf(d))
    BY DEF FlowOf, Posted
  <1> HIDE DEF L, M
  <1>4. PICK k \in Int : k <= m /\ Grows(L, M, OfClient(d), k)
    BY DEF Carries, L, M
  <1>5. /\ IsFiniteSet(EntriesIn(M, OfClient(d)))
        /\ HowMany(L, OfClient(d)) \in Nat /\ HowMany(M, OfClient(d)) \in Nat
        /\ HowMany(M, OfClient(d)) = HowMany(L, OfClient(d)) + k
    BY <1>3, <1>4 DEF Grows
  <1>6. Grows(L, M, SendsOf(d), j)
    BY DEF Carries, L, M
  <1>7. /\ IsFiniteSet(EntriesIn(M, SendsOf(d)))
        /\ HowMany(L, SendsOf(d)) \in Nat /\ HowMany(M, SendsOf(d)) \in Nat
        /\ HowMany(M, SendsOf(d)) = HowMany(L, SendsOf(d)) + j
    BY <1>3, <1>6 DEF Grows
  <1> DEFINE u == Len(csq[d])
             w == Len(csq'[d])
             v == souts[d]
             z == souts'[d]
             a == HowMany(L, OfClient(d))
             b == HowMany(M, OfClient(d))
             s == HowMany(L, SendsOf(d))
             t == HowMany(M, SendsOf(d))
             r == crcnt[d]
             e == crcnt'[d]
             x == cscnt[d]
             y == cscnt'[d]
  <1>8. /\ u \in Int /\ w \in Int /\ v \in Int /\ z \in Int /\ a \in Int /\ b \in Int
        /\ s \in Int /\ t \in Int /\ r \in Int /\ e \in Int /\ x \in Int /\ y \in Int
    BY SMTT(30), <1>1, <1>2, <1>5, <1>7
  <1>9. /\ a + r + u <= x + v /\ b = a + k
        /\ m + (e - r) + (w - u) <= (y - x) + (z - v)
    BY <1>3, <1>5 DEF Balances
  <1>10. v = u + s /\ t = s + j /\ z - v = (w - u) + j
    BY <1>3, <1>7 DEF Balances
  <1> HIDE DEF u, w, v, z, a, b, s, t, r, e, x, y
  <1>11. b + e + w <= y + z
    <2>1. k \in Int /\ m \in Int /\ k <= m
      BY <1>4
    <2>2. b <= a + m
      BY <2>1, <1>8, <1>9
    <2>3. m + (e - r) + (w - u) + (a + r + u) = m + a + e + w
      BY <2>1, <1>8
    <2> QED
      BY <2>1, <2>2, <2>3, <1>8, <1>9
  <1>12. z = w + t
    BY <1>8, <1>10
  <1> QED
    BY <1>5, <1>7, <1>11, <1>12 DEF FlowOf, Posted, M, w, z, b, t, e, y

LEMMA DoneStays ==
  ASSUME Phases, [Next]_vars, NEW d \in ClientThreads, cpc'[d] # "done"
  PROVE  cpc[d] # "done"
  <1> SUFFICES ASSUME cpc[d] = "done"
               PROVE  FALSE
    OBVIOUS
  <1>1. cpc \in [ClientThreads -> ClientLocations]
    BY DEF Phases, ControlTypeOK
  <1>2. ASSUME NEW c \in ClientThreads, ClientThread(c)
        PROVE  cpc[c] # "done" /\ \E l : cpc' = [cpc EXCEPT ![c] = l]
    BY <1>2 DEF ClientThread, EnterBarrier, LeaveBarrier, PostReceives, FillWindow, LoopTest,
                PollLoop, HandleSend, HandleRecv, Resend, HandleLate, Finish, DrainPoll,
                Publish, Dump, Close, CGoto, Handling
  <1>3. ASSUME NEW c \in ClientThreads, ClientThread(c)
        PROVE  FALSE
    <2>1. c # d
      BY <1>2, <1>3
    <2> QED
      BY <1>1, <1>2, <1>3, <2>1
  <1>4. ASSUME cpc' = cpc
        PROVE  FALSE
    BY <1>4
  <1>5. CASE Network
    BY <1>4, <1>5 DEF Network, Transmit, Respond
  <1>6. CASE UNCHANGED clientVars
    BY <1>4, <1>6 DEF clientVars
  <1>7. CASE UNCHANGED vars
    BY <1>4, <1>7 DEF vars, clientVars
  <1> QED
    BY <1>3, <1>5, <1>6, <1>7 DEF Next

CountsStill(d) ==
  crcnt'[d] = crcnt[d] /\ cscnt'[d] = cscnt[d] /\ souts'[d] = souts[d] /\ csq'[d] = csq[d]

LEMMA FlowStill ==
  ASSUME NEW d \in ClientThreads, FlowOf(d), Base, Base', Carries(d, 0, 0), CountsStill(d)
  PROVE  FlowOf(d)'
  <1>0. crcnt'[d] = crcnt[d] /\ cscnt'[d] = cscnt[d] /\ souts'[d] = souts[d] /\ csq'[d] = csq[d]
    BY DEF CountsStill
  <1>1. /\ crcnt[d] \in Nat /\ cscnt[d] \in Nat /\ souts[d] \in Int /\ Len(csq[d]) \in Nat
    BY CountTypes
  <1>2. 0 + (crcnt'[d] - crcnt[d]) + (Len(csq'[d]) - Len(csq[d]))
           <= (cscnt'[d] - cscnt[d]) + (souts'[d] - souts[d])
    BY <1>0, <1>1
  <1>3. souts'[d] - souts[d] = (Len(csq'[d]) - Len(csq[d])) + 0
    BY <1>0, <1>1
  <1>4. Balances(d, 0, 0)
    BY <1>2, <1>3 DEF Balances
  <1> QED
    BY <1>4, FlowStep

LEMMA FlowNetwork ==
  ASSUME NEW d \in ClientThreads, FlowOf(d), Base, Base', Network
  PROVE  FlowOf(d)'
  <1>0. ServerSide /\ ClientSide
    BY DEF Base
  <1>1. ASSUME NEW c \in ClientThreads, Transmit(c)
        PROVE  FlowOf(d)'
    <2>1. /\ csq' = [csq EXCEPT ![c] = Tail(@)] /\ csq[c] # <<>>
          /\ crcnt'[d] = crcnt[d] /\ cscnt'[d] = cscnt[d] /\ souts'[d] = souts[d]
      BY <1>1 DEF Transmit, clientCounts
    <2>2. csq \in [ClientThreads -> Seq(Queues)]
      BY <1>0 DEF ClientSide
    <2>3. CASE d # c
      <3>1. csq'[d] = csq[d]
        BY <2>1, <2>2, <2>3
      <3>2. Carries(d, 0, 0)
        BY <1>0, <1>1, <2>3, TransmitCarries
      <3> QED
        BY <2>1, <3>1, <3>2, FlowStill DEF CountsStill
    <2>4. CASE d = c
      <3>1. Carries(d, 1, 1)
        BY <1>0, <1>1, <2>4, TransmitCarries
      <3>2. csq'[d] = Tail(csq[d]) /\ csq[d] \in Seq(Queues) /\ csq[d] # <<>>
        BY <2>1, <2>2, <2>4
      <3>3. Len(csq'[d]) = Len(csq[d]) - 1 /\ Len(csq[d]) \in Nat
        BY <3>2, TailProperties
      <3>4. /\ crcnt[d] \in Nat /\ cscnt[d] \in Nat /\ souts[d] \in Int
        BY CountTypes
      <3>5. 1 + (crcnt'[d] - crcnt[d]) + (Len(csq'[d]) - Len(csq[d]))
               <= (cscnt'[d] - cscnt[d]) + (souts'[d] - souts[d])
        BY <2>1, <3>3, <3>4
      <3>6. souts'[d] - souts[d] = (Len(csq'[d]) - Len(csq[d])) + 1
        <4> DEFINE n == Len(csq[d])
        <4>1. Len(csq'[d]) = n - 1 /\ n \in Int /\ souts'[d] - souts[d] = 0
          BY <2>1, <3>3, <3>4
        <4> HIDE DEF n
        <4>2. 0 = ((n - 1) - n) + 1
          BY <4>1
        <4> QED
          BY <4>1, <4>2 DEF n
      <3>7. Balances(d, 1, 1)
        BY <3>5, <3>6 DEF Balances
      <3> QED
        BY <3>1, <3>7, FlowStep
    <2> QED
      BY <2>3, <2>4
  <1>2. ASSUME NEW q \in Queues, Respond(q)
        PROVE  FlowOf(d)'
    <2>1. Carries(d, 0, 0)
      BY <1>0, <1>2, RespondCarries
    <2>2. /\ crcnt'[d] = crcnt[d] /\ cscnt'[d] = cscnt[d] /\ souts'[d] = souts[d]
          /\ csq'[d] = csq[d]
      BY <1>2 DEF Respond, clientCounts
    <2> QED
      BY <2>1, <2>2, FlowStill DEF CountsStill
  <1> QED
    BY <1>1, <1>2 DEF Network

LEMMA FlowThread ==
  ASSUME NEW d \in ClientThreads, FlowOf(d), Base, Base', NEW c \in ClientThreads,
         ClientThread(c), cpc'[d] # "done"
  PROVE  FlowOf(d)'
  <1>0. /\ Phases /\ ServerSide /\ ClientSide
        /\ cpc \in [ClientThreads -> ClientLocations] /\ {crcnt, cscnt} \subseteq [ClientThreads -> Nat]
        /\ csq \in [ClientThreads -> Seq(Queues)] /\ souts \in [ClientThreads -> Int]
        /\ ccq \in [ClientThreads -> Seq(Completions)]
    BY DEF Base, Phases, ControlTypeOK, Published, ClientSide
  <1>1. /\ crcnt[d] \in Nat /\ cscnt[d] \in Nat /\ souts[d] \in Int /\ Len(csq[d]) \in Nat
    BY CountTypes
  <1>2. ASSUME \/ EnterBarrier(c) \/ LeaveBarrier(c) \/ PostReceives(c) \/ LoopTest(c)
               \/ Finish(c) \/ Publish(c)
        PROVE  FlowOf(d)'
    <2>1. UNCHANGED <<cq, sq, wc, cur, ccq, cwc, csq, crcnt, cscnt, souts>>
      BY <1>2 DEF EnterBarrier, LeaveBarrier, PostReceives, LoopTest, Finish, Publish,
                  verbsVars, serverVars, threadVars, clientDevice, clientCounts
    <2>2. Carries(d, 0, 0)
      BY <2>1, CarriesNothing
    <2> QED
      BY <2>1, <2>2, FlowStill DEF CountsStill
  <1>3. ASSUME FillWindow(c) \/ Resend(c) \/ Dump(c)
        PROVE  FlowOf(d)'
    <2>1. PostRequest(c) /\ UNCHANGED <<cq, sq, wc, cur, ccq, cwc, crcnt, cscnt>>
      BY <1>3 DEF FillWindow, Resend, Dump, verbsVars, serverVars, threadVars
    <2>2. Carries(d, 0, 0)
      BY <2>1, CarriesNothing
    <2>3. \/ csq'[d] = csq[d] /\ souts'[d] = souts[d]
          \/ Len(csq'[d]) = Len(csq[d]) + 1 /\ souts'[d] = souts[d] + 1
      BY <1>0, <2>1, PostEffect
    <2>4. crcnt'[d] = crcnt[d] /\ cscnt'[d] = cscnt[d]
      BY <2>1
    <2>5. CASE csq'[d] = csq[d] /\ souts'[d] = souts[d]
      BY <2>2, <2>4, <2>5, FlowStill DEF CountsStill
    <2>6. CASE Len(csq'[d]) = Len(csq[d]) + 1 /\ souts'[d] = souts[d] + 1
      <3>1. 0 + (crcnt'[d] - crcnt[d]) + (Len(csq'[d]) - Len(csq[d]))
               <= (cscnt'[d] - cscnt[d]) + (souts'[d] - souts[d])
        BY <1>1, <2>4, <2>6
      <3>2. souts'[d] - souts[d] = (Len(csq'[d]) - Len(csq[d])) + 0
        BY <1>1, <2>6
      <3>3. Balances(d, 0, 0)
        BY <3>1, <3>2 DEF Balances
      <3> QED
        BY <2>2, <3>3, FlowStep
    <2> QED
      BY <2>3, <2>5, <2>6
  <1>4. ASSUME PollLoop(c) \/ DrainPoll(c)
        PROVE  FlowOf(d)'
    <2>1. Carries(d, 0, 0)
      BY <1>0, <1>4, PollCarries
    <2>2. UNCHANGED <<csq, crcnt, cscnt, souts>>
      BY <1>4 DEF PollLoop, DrainPoll, clientCounts
    <2> QED
      BY <2>1, <2>2, FlowStill DEF CountsStill
  <1>5. ASSUME HandleSend(c)
        PROVE  FlowOf(d)'
    <2>1. /\ cscnt' = [cscnt EXCEPT ![c] = @ + 1] /\ souts' = [souts EXCEPT ![c] = @ - 1]
          /\ UNCHANGED <<csq, crcnt>> /\ Head(cwc[c]) = "send"
      BY <1>5 DEF HandleSend, clientDevice
    <2>2. CASE d # c
      <3>1. Carries(d, 0, 0)
        BY <1>0, <1>5, <2>2, HandleCarries
      <3>2. cscnt'[d] = cscnt[d] /\ souts'[d] = souts[d]
        BY <1>0, <2>1, <2>2
      <3> QED
        BY <2>1, <3>1, <3>2, FlowStill DEF CountsStill
    <2>3. CASE d = c
      <3>1. Carries(d, 0, 0 - 1)
        BY <1>0, <1>5, <2>1, <2>3, HandleCarries
      <3>2. cscnt'[d] = cscnt[d] + 1 /\ souts'[d] = souts[d] - 1
        BY <1>0, <2>1, <2>3
      <3>3. 0 + (crcnt'[d] - crcnt[d]) + (Len(csq'[d]) - Len(csq[d]))
               <= (cscnt'[d] - cscnt[d]) + (souts'[d] - souts[d])
        BY <1>1, <2>1, <3>2
      <3>4. souts'[d] - souts[d] = (Len(csq'[d]) - Len(csq[d])) + (0 - 1)
        BY <1>1, <2>1, <3>2
      <3>5. Balances(d, 0, 0 - 1)
        BY <3>3, <3>4 DEF Balances
      <3> QED
        BY <3>1, <3>5, FlowStep
    <2> QED
      BY <2>2, <2>3
  <1>6. ASSUME HandleRecv(c) \/ HandleLate(c)
        PROVE  FlowOf(d)'
    <2>1. /\ crcnt' = [crcnt EXCEPT ![c] = @ + 1]
          /\ UNCHANGED <<csq, cscnt, souts>> /\ Head(cwc[c]) = "recv"
      BY <1>6 DEF HandleRecv, HandleLate, clientDevice
    <2>2. CASE d # c
      <3>1. Carries(d, 0, 0)
        BY <1>0, <1>6, <2>2, HandleCarries
      <3>2. crcnt'[d] = crcnt[d]
        BY <1>0, <2>1, <2>2
      <3> QED
        BY <2>1, <3>1, <3>2, FlowStill DEF CountsStill
    <2>3. CASE d = c
      <3>1. Carries(d, 0 - 1, 0)
        BY <1>0, <1>6, <2>1, <2>3, HandleCarries
      <3>2. crcnt'[d] = crcnt[d] + 1
        BY <1>0, <2>1, <2>3
      <3>3. (0 - 1) + (crcnt'[d] - crcnt[d]) + (Len(csq'[d]) - Len(csq[d]))
               <= (cscnt'[d] - cscnt[d]) + (souts'[d] - souts[d])
        BY <1>1, <2>1, <3>2
      <3>4. souts'[d] - souts[d] = (Len(csq'[d]) - Len(csq[d])) + 0
        BY <1>1, <2>1
      <3>5. Balances(d, 0 - 1, 0)
        BY <3>3, <3>4 DEF Balances
      <3> QED
        BY <3>1, <3>5, FlowStep
    <2> QED
      BY <2>2, <2>3
  <1>7. ASSUME Close(c)
        PROVE  FlowOf(d)'
    <2>1. d # c
      BY <1>0, <1>7 DEF Close, CGoto
    <2>2. /\ UNCHANGED <<cq, sq, wc, cur, cwc, crcnt, cscnt, souts>>
          /\ csq' = [csq EXCEPT ![c] = <<>>] /\ ccq' = [ccq EXCEPT ![c] = <<>>]
      BY <1>7 DEF Close, verbsVars, serverVars, threadVars, clientCounts
    <2>3. ccq'[d] = ccq[d] /\ csq'[d] = csq[d]
      BY <1>0, <2>1, <2>2
    <2>4. Carries(d, 0, 0)
      BY <2>2, <2>3, CarriesNothing
    <2> QED
      BY <2>2, <2>3, <2>4, FlowStill DEF CountsStill
  <1> QED
    BY <1>2, <1>3, <1>4, <1>5, <1>6, <1>7 DEF ClientThread

LEMMA FlowNext == Base /\ Base' /\ Flow /\ [Next]_vars => Flow'
  <1> SUFFICES ASSUME Base, Base', Flow, [Next]_vars, NEW d \in ClientThreads,
                      cpc'[d] # "done"
               PROVE  FlowOf(d)'
    BY DEF Flow
  <1>0. Phases /\ ServerSide
    BY DEF Base
  <1>1. FlowOf(d)
    BY <1>0, DoneStays DEF Flow
  <1>2. CASE Network
    BY <1>1, <1>2, FlowNetwork
  <1>3. ASSUME NEW c \in ClientThreads, ClientThread(c)
        PROVE  FlowOf(d)'
    BY <1>1, <1>3, FlowThread
  <1>4. ASSUME NEW t \in Threads, ServerThread(t), UNCHANGED clientVars
        PROVE  FlowOf(d)'
    <2>1. Carries(d, 0, 0)
      BY <1>0, <1>4, ThreadCarries
    <2>2. UNCHANGED <<csq, crcnt, cscnt, souts>>
      BY <1>4 DEF clientVars, clientDevice, clientCounts
    <2> QED
      BY <1>1, <2>1, <2>2, FlowStill DEF CountsStill
  <1>5. CASE UNCHANGED vars
    <2>1. UNCHANGED <<cq, sq, wc, cur, ccq, cwc, csq, crcnt, cscnt, souts>>
      BY <1>5 DEF vars, clientVars, clientDevice, clientCounts, verbsVars, serverVars, threadVars
    <2>2. Carries(d, 0, 0)
      BY <2>1, CarriesNothing
    <2> QED
      BY <1>1, <2>1, <2>2, FlowStill DEF CountsStill
  <1> QED
    BY <1>2, <1>3, <1>4, <1>5 DEF Next

LEMMA FlowInit == Init => Flow
  <1> SUFFICES ASSUME Init, NEW c \in ClientThreads
               PROVE  FlowOf(c)
    BY DEF Flow
  <1> DEFINE L == UnderWay(c)
  <1>1. /\ cq = [q \in Queues |-> <<>>] /\ sq = [q \in Queues |-> <<>>]
        /\ wc = [t \in Threads |-> <<>>] /\ cur = [t \in Threads |-> NoReq]
        /\ ccq[c] = <<>> /\ cwc[c] = <<>> /\ csq[c] = <<>>
        /\ crcnt[c] = 0 /\ cscnt[c] = 0 /\ souts[c] = 0
    BY DEF Init, ServerInit, VerbsInit, ThreadsInit, ClientInit
  <1>2. \A x \in DOMAIN L : L[x] = <<>>
    BY <1>1 DEF UnderWay, Contents, PlacesOf
  <1>3. ASSUME NEW T
        PROVE  EntriesIn(L, T) = {}
    BY <1>2 DEF EntriesIn
  <1>4. /\ EntriesIn(L, OfClient(c)) = {} /\ EntriesIn(L, SendsOf(c)) = {}
    BY <1>3
  <1>5. IsFiniteSet({}) /\ Cardinality({}) = 0
    BY FS_EmptySet
  <1> QED
    BY <1>1, <1>4, <1>5 DEF FlowOf, HowMany, Posted

LEMMA FlowCounts ==
  ASSUME NEW c \in ClientThreads, Base, FlowOf(c)
  PROVE  /\ HowMany(UnderWay(c), OfClient(c)) \in Nat /\ HowMany(UnderWay(c), SendsOf(c)) \in Nat
         /\ souts[c] \in Nat /\ crcnt[c] <= Posted(c)
  <1> DEFINE a == HowMany(UnderWay(c), OfClient(c))
             b == HowMany(UnderWay(c), SendsOf(c))
  <1>1. a \in Nat /\ b \in Nat
    BY FS_CardinalityType DEF FlowOf, HowMany
  <1>2. /\ crcnt[c] \in Nat /\ Len(csq[c]) \in Nat /\ souts[c] \in Int /\ Posted(c) \in Int
    BY CountTypes
  <1>3. a + crcnt[c] + Len(csq[c]) <= Posted(c) /\ souts[c] = Len(csq[c]) + b
    BY DEF FlowOf
  <1> HIDE DEF a, b
  <1>4. souts[c] \in Nat /\ crcnt[c] <= Posted(c)
    BY <1>1, <1>2, <1>3
  <1> QED
    BY <1>1, <1>4 DEF a, b

\* A thread that is done does not touch its counters.
SoutsNat == \A c \in ClientThreads : souts[c] \in Nat

LEMMA SoutsNext ==
  ASSUME Base, Base', Flow', SoutsNat, [Next]_vars
  PROVE  SoutsNat'
  <1> SUFFICES ASSUME NEW d \in ClientThreads
               PROVE  souts'[d] \in Nat
    BY DEF SoutsNat
  <1>0. /\ Phases /\ ClientSide /\ cpc \in [ClientThreads -> ClientLocations]
        /\ souts \in [ClientThreads -> Int] /\ souts[d] \in Nat
    BY DEF Base, Phases, ControlTypeOK, ClientSide, SoutsNat
  <1>1. CASE cpc'[d] # "done"
    <2>1. FlowOf(d)'
      BY <1>1 DEF Flow
    <2> QED
      <3>1. IsFiniteSet(EntriesIn(UnderWay(d)', SendsOf(d)))
        BY <2>1 DEF FlowOf
      <3>2. HowMany(UnderWay(d)', SendsOf(d)) \in Nat
        BY <3>1, FS_CardinalityType DEF HowMany
      <3>3. csq'[d] \in Seq(Queues)
        BY DEF Base, ClientSide
      <3>4. Len(csq'[d]) \in Nat
        BY <3>3
      <3>5. souts'[d] = Len(csq'[d]) + HowMany(UnderWay(d)', SendsOf(d))
        BY <2>1 DEF FlowOf
      <3> QED
        BY <3>2, <3>4, <3>5
  <1>2. CASE cpc'[d] = "done"
    <2>1. ASSUME NEW c \in ClientThreads, FillWindow(c) \/ Resend(c) \/ Dump(c)
          PROVE  souts'[d] \in Nat
      <3>1. c # d
        BY <1>0, <1>2, <2>1 DEF FillWindow, Resend, Dump, CGoto
      <3> QED
        BY <1>0, <2>1, <3>1, PostEffect DEF FillWindow, Resend, Dump
    <2>2. ASSUME NEW c \in ClientThreads, HandleSend(c)
          PROVE  souts'[d] \in Nat
      <3>1. Onward(c, Tail(cwc[c]), crcnt[c]) # "done"
        BY <2>2 DEF HandleSend, Handling, Onward
      <3>2. c # d
        BY <1>0, <1>2, <2>2, <3>1 DEF HandleSend, CGoto
      <3> QED
        BY <1>0, <2>2, <3>2 DEF HandleSend
    <2>3. ASSUME NEW c \in ClientThreads, ClientThread(c),
                 ~(FillWindow(c) \/ Resend(c) \/ Dump(c) \/ HandleSend(c))
          PROVE  souts' = souts
      BY <2>3 DEF ClientThread, EnterBarrier, LeaveBarrier, PostReceives, LoopTest, PollLoop,
                  HandleRecv, HandleLate, Finish, DrainPoll, Publish, Close, clientCounts
    <2>4. ASSUME Network \/ UNCHANGED clientVars \/ UNCHANGED vars
          PROVE  souts' = souts
      BY <2>4 DEF Network, Transmit, Respond, vars, clientVars, clientCounts
    <2> QED
      BY <1>0, <2>1, <2>2, <2>3, <2>4 DEF Next
  <1> QED
    BY <1>1, <1>2

ClosedInv == Base /\ Flow /\ SoutsNat

LEMMA ClosedInit == Init => ClosedInv
  <1>1. Init => SoutsNat
    BY DEF Init, ClientInit, SoutsNat
  <1> QED
    BY <1>1, PhasesInit, SidesInit, FlowInit DEF ClosedInv, Base

LEMMA ClosedNext == ClosedInv /\ [Next]_vars => ClosedInv'
  <1> SUFFICES ASSUME ClosedInv, [Next]_vars
               PROVE  ClosedInv'
    OBVIOUS
  <1>1. Base /\ Flow /\ SoutsNat /\ Phases /\ Published /\ ServerSide /\ ClientSide
    BY DEF ClosedInv, Base
  <1>2. Base'
    BY <1>1, PhasesNext, PublishedNext, ServerSideNext, ClientSideNext DEF Base
  <1>3. Flow'
    BY <1>1, <1>2, FlowNext
  <1>4. SoutsNat'
    BY <1>1, <1>2, <1>3, SoutsNext
  <1> QED
    BY <1>2, <1>3, <1>4 DEF ClosedInv

LEMMA ClosedAlways == Spec => []ClosedInv
  BY ClosedInit, ClosedNext, PTL DEF Spec

\* The type invariant of the closed loop for every number of threads, queues, buffers,
\* requests and every window.  Its hard part is souts, which is unsigned in
\* pp_client_connection: it is decremented for every send completion the thread polls,
\* so the completions polled or not polled yet must never outnumber it.
THEOREM ClosedTypeCorrect == Spec => []TypeOK
  <1>1. ClosedInv => TypeOK
    <2> SUFFICES ASSUME ClosedInv
                 PROVE  TypeOK
      OBVIOUS
    <2>1. Base /\ SoutsNat /\ Phases /\ Published /\ ServerSide /\ ClientSide
      BY DEF ClosedInv, Base
    <2>2. ServerTypeOK
      BY <2>1 DEF ServerSide
    <2>3. cpc \in [ClientThreads -> ClientLocations] /\ gate \in [ClientThreads -> 0 .. 3]
      BY <2>1 DEF Phases, ControlTypeOK
    <2>4. crcnt \in [ClientThreads -> Nat] /\ cscnt \in [ClientThreads -> Nat]
      BY <2>1 DEF Published
    <2>5. souts \in [ClientThreads -> Nat]
      BY <2>1 DEF SoutsNat, ClientSide
    <2> QED
      BY <2>1, <2>2, <2>3, <2>4, <2>5 DEF TypeOK, ClientSide
  <1> QED
    BY <1>1, ClosedAlways, PTL

-----------------------------------------------------------------------------
(* The windows.  The counters of a thread are its own, so that between two of its *)
(* steps they stand still; what it may post next depends on where it is.          *)

\* Thread c, at location l after g barriers, has not posted anything yet.
Fresh(c, l, g) ==
  \/ l \in {"connect", "fill"}
  \/ l = "ready" /\ c # Meas
  \/ l = "barrier" /\ g < (IF c = Meas THEN 2 ELSE 3)

\* p requests posted and r responses taken.
WindowedAt(c, l, g, p, r) ==
  /\ Fresh(c, l, g) => p = 0 /\ r = 0
  /\ l = "send" => p < WindowOf(c) /\ r = 0
  /\ l = "resend" => p - r < WindowOf(c)
  /\ p - r <= WindowOf(c)

Windowed == \A c \in ClientThreads : WindowedAt(c, cpc[c], gate[c], Posted(c), crcnt[c])

\* The measurement thread learns of the response to its one request after the completion
\* of its send, whether it has polled them or not.
Sorted(s) == \A i, j \in DOMAIN s : i < j /\ s[i] = "recv" => s[j] # "send"

After(s, u) == \A i \in DOMAIN s, j \in DOMAIN u : s[i] = "recv" => u[j] # "send"

OrderedAt(w, k) == Sorted(w) /\ Sorted(k) /\ After(w, k)

Ordered == cpc[Meas] # "done" => OrderedAt(cwc[Meas], ccq[Meas])

\* Its counters: it never posts more than sync_iters requests before the last barrier,
\* takes one response before the second barrier, and none is under way at the last.
\* s sends are completed, w are the completions it handles.
MeasuredAt(l, g, p, r, s, w) ==
  /\ g < 3 => p <= SyncIters
  /\ l = "resend" => p = r /\ s = r /\ r < SyncIters /\ w = <<>>
  /\ (l = "finish" \/ (g = 3 /\ l \in {"barrier", "dump"})) => p = r /\ r = SyncIters
  /\ g = 1 /\ r # 0 => r = 1 /\ l \in {"resend", "loop", "ready"} /\ s >= 1
  /\ l = "ready" => r # 0

Measured ==
  MeasuredAt(cpc[Meas], gate[Meas], Posted(Meas), crcnt[Meas], cscnt[Meas], cwc[Meas])

\* The samples it has stored.
SampledAt(g, r, S) ==
  /\ g < 2 => S = {}
  /\ g = 2 => r >= 1 /\ S = 1 .. r - 1
  /\ g = 3 => S = 1 .. SyncIters - 1

Sampled == SampledAt(gate[Meas], crcnt[Meas], written)

-----------------------------------------------------------------------------
(* What the steps of a thread do to its own counters. *)

OwnStill(d) ==
  /\ cpc'[d] = cpc[d] /\ gate'[d] = gate[d] /\ crcnt'[d] = crcnt[d] /\ cscnt'[d] = cscnt[d]
  /\ souts'[d] = souts[d] /\ cwc'[d] = cwc[d] /\ Posted(d)' = Posted(d)
  /\ d = Meas => written' = written

LEMMA OthersStill ==
  ASSUME Base, NEW c \in ClientThreads, NEW d \in ClientThreads, c # d, ClientThread(c)
  PROVE  OwnStill(d)
  <1>0. /\ cpc \in [ClientThreads -> ClientLocations] /\ gate \in [ClientThreads -> 0 .. 3]
        /\ crcnt \in [ClientThreads -> Nat] /\ cscnt \in [ClientThreads -> Nat]
        /\ souts \in [ClientThreads -> Int] /\ cwc \in [ClientThreads -> Seq(Completions)]
        /\ ClientSide
    BY DEF Base, Phases, ControlTypeOK, Published, ClientSide
  <1>1. /\ \E l : cpc' = [cpc EXCEPT ![c] = l]
        /\ gate' = gate \/ gate' = [gate EXCEPT ![c] = @ + 1]
        /\ crcnt' = crcnt \/ crcnt' = [crcnt EXCEPT ![c] = @ + 1]
        /\ cscnt' = cscnt \/ cscnt' = [cscnt EXCEPT ![c] = @ + 1]
    BY DEF ClientThread, EnterBarrier, LeaveBarrier, PostReceives, FillWindow, LoopTest,
           PollLoop, HandleSend, HandleRecv, Resend, HandleLate, Finish, DrainPoll,
           Publish, Dump, Close, CGoto, clientRun, clientCounts
  <1>2. /\ souts' = souts \/ souts' = [souts EXCEPT ![c] = @ - 1] \/ PostRequest(c)
        /\ cwc' = cwc \/ cwc' = [cwc EXCEPT ![c] = Tail(@)] \/ TakeCompletions(c)
        /\ d = Meas => written' = written
    BY DEF ClientThread, EnterBarrier, LeaveBarrier, PostReceives, FillWindow, LoopTest,
           PollLoop, HandleSend, HandleRecv, Resend, HandleLate, Finish, DrainPoll,
           Publish, Dump, Close, clientRun, clientCounts
  <1>3. cpc'[d] = cpc[d] /\ gate'[d] = gate[d] /\ crcnt'[d] = crcnt[d] /\ cscnt'[d] = cscnt[d]
    BY <1>0, <1>1
  <1>4. souts'[d] = souts[d]
    BY <1>0, <1>2, PostEffect
  <1>5. cwc'[d] = cwc[d]
    BY <1>0, <1>2, TakeEffect
  <1> QED
    BY <1>2, <1>3, <1>4, <1>5 DEF OwnStill, Posted

LEMMA NobodyMoves ==
  ASSUME Network \/ UNCHANGED clientVars \/ UNCHANGED vars
  PROVE  \A d \in ClientThreads : OwnStill(d)
  <1>1. UNCHANGED <<cpc, gate, crcnt, cscnt, souts, cwc, written>>
    BY DEF Network, Transmit, Respond, vars, clientVars, clientCounts, clientRun
  <1> QED
    BY <1>1 DEF OwnStill, Posted

LEMMA OwnSteps ==
  ASSUME Base, [Next]_vars, NEW d \in ClientThreads
  PROVE  ClientThread(d) \/ OwnStill(d)
  BY OthersStill, NobodyMoves DEF Next

\* The step takes thread c to location l, after g barriers, with p requests posted, r
\* responses taken, s sends completed and w completions left.
Moves(c, l, g, p, r, s, w) ==
  /\ cpc'[c] = l /\ gate'[c] = g /\ Posted(c)' = p /\ crcnt'[c] = r /\ cscnt'[c] = s
  /\ cwc'[c] = w

\* The steps that count nothing.
LEMMA QuietMoves ==
  ASSUME Base, NEW c \in ClientThreads
  PROVE  /\ EnterBarrier(c) =>
              Moves(c, "barrier", gate[c] + 1, Posted(c), crcnt[c], cscnt[c], cwc[c])
         /\ LeaveBarrier(c) =>
              Moves(c, AfterBarrier(c), gate[c], Posted(c), crcnt[c], cscnt[c], cwc[c])
         /\ PostReceives(c) =>
              Moves(c, "send", gate[c], Posted(c), crcnt[c], cscnt[c], cwc[c])
         /\ LoopTest(c) =>
              Moves(c, IF LoopOver(c) THEN AfterLoop(c) ELSE "poll", gate[c],
                    Posted(c), crcnt[c], cscnt[c], cwc[c])
         /\ Finish(c) \/ Publish(c) =>
              Moves(c, "barrier", gate[c] + 1, Posted(c), crcnt[c], cscnt[c], cwc[c])
         /\ Close(c) =>
              Moves(c, "done", gate[c], Posted(c), crcnt[c], cscnt[c], cwc[c])
         /\ PollLoop(c) => \E w :
              Moves(c, IF cpc[c] = "poll" THEN "handle" ELSE "awaitHandle", gate[c],
                    Posted(c), crcnt[c], cscnt[c], w)
         /\ DrainPoll(c) => \E w : \E l \in {"drain", "drainHandle"} :
              Moves(c, l, gate[c], Posted(c), crcnt[c], cscnt[c], w)
  <1>0. cpc \in [ClientThreads -> ClientLocations] /\ gate \in [ClientThreads -> 0 .. 3]
    BY DEF Base, Phases, ControlTypeOK
  <1>1. ASSUME NEW l, NEW g, NEW w, CGoto(c, l), gate'[c] = g, cwc'[c] = w,
               UNCHANGED clientCounts
        PROVE  Moves(c, l, g, Posted(c), crcnt[c], cscnt[c], w)
    BY <1>0, <1>1 DEF CGoto, Moves, Posted, clientCounts
  <1>2. EnterBarrier(c) => Moves(c, "barrier", gate[c] + 1, Posted(c), crcnt[c], cscnt[c], cwc[c])
    BY <1>0, <1>1 DEF EnterBarrier
  <1>3. LeaveBarrier(c) => Moves(c, AfterBarrier(c), gate[c], Posted(c), crcnt[c], cscnt[c], cwc[c])
    BY <1>0, <1>1 DEF LeaveBarrier, clientRun
  <1>4. PostReceives(c) => Moves(c, "send", gate[c], Posted(c), crcnt[c], cscnt[c], cwc[c])
    BY <1>0, <1>1 DEF PostReceives, clientRun
  <1>5. LoopTest(c) => Moves(c, IF LoopOver(c) THEN AfterLoop(c) ELSE "poll", gate[c],
                             Posted(c), crcnt[c], cscnt[c], cwc[c])
    BY <1>0, <1>1 DEF LoopTest, clientRun
  <1>6. Finish(c) \/ Publish(c) =>
          Moves(c, "barrier", gate[c] + 1, Posted(c), crcnt[c], cscnt[c], cwc[c])
    BY <1>0, <1>1 DEF Finish, Publish
  <1>7. Close(c) => Moves(c, "done", gate[c], Posted(c), crcnt[c], cscnt[c], cwc[c])
    BY <1>0, <1>1 DEF Close, clientRun
  <1>8. PollLoop(c) => \E w : Moves(c, IF cpc[c] = "poll" THEN "handle" ELSE "awaitHandle",
                                    gate[c], Posted(c), crcnt[c], cscnt[c], w)
    BY <1>0, <1>1 DEF PollLoop, clientRun
  <1>9. DrainPoll(c) => \E w : \E l \in {"drain", "drainHandle"} :
                          Moves(c, l, gate[c], Posted(c), crcnt[c], cscnt[c], w)
    <2>1. DrainPoll(c) => \/ Moves(c, "drain", gate[c], Posted(c), crcnt[c], cscnt[c], cwc'[c])
                          \/ Moves(c, "drainHandle", gate[c], Posted(c), crcnt[c], cscnt[c], cwc'[c])
      BY <1>0, <1>1 DEF DrainPoll
    <2> QED
      BY <2>1
  <1> QED
    BY <1>2, <1>3, <1>4, <1>5, <1>6, <1>7, <1>8, <1>9

\* The steps that post a request, which fails when the send queue is full.
LEMMA PostMoves ==
  ASSUME Base, NEW c \in ClientThreads
  PROVE  \E p \in {Posted(c), Posted(c) + 1} :
           /\ FillWindow(c) => Moves(c, IF WindowSent(c) THEN "loop" ELSE "send", gate[c],
                                     p, crcnt[c], cscnt[c], cwc[c])
           /\ Resend(c) => Moves(c, IF cwc[c] = <<>> THEN "loop" ELSE "handle", gate[c],
                                 p, crcnt[c], cscnt[c], cwc[c])
           /\ Dump(c) => Moves(c, "await", gate[c], p, crcnt[c], cscnt[c], cwc[c])
  <1>0. /\ cpc \in [ClientThreads -> ClientLocations] /\ gate \in [ClientThreads -> 0 .. 3]
        /\ ClientSide /\ souts[c] \in Int /\ cscnt[c] \in Nat
    BY CountTypes DEF Base, Phases, ControlTypeOK
  <1>1. ASSUME FillWindow(c) \/ Resend(c) \/ Dump(c)
        PROVE  Posted(c)' \in {Posted(c), Posted(c) + 1}
    <2>1. PostRequest(c) /\ cscnt' = cscnt
      BY <1>1 DEF FillWindow, Resend, Dump
    <2>2. souts'[c] = souts[c] \/ souts'[c] = souts[c] + 1
      BY <1>0, <2>1, PostEffect
    <2> QED
      BY <1>0, <2>1, <2>2 DEF Posted
  <1>2. ASSUME NEW l, CGoto(c, l), UNCHANGED <<cwc, crcnt, cscnt, clientRun>>
        PROVE  Moves(c, l, gate[c], Posted(c)', crcnt[c], cscnt[c], cwc[c])
    BY <1>0, <1>2 DEF CGoto, Moves, clientRun
  <1>3. FillWindow(c) => Moves(c, IF WindowSent(c) THEN "loop" ELSE "send", gate[c],
                               Posted(c)', crcnt[c], cscnt[c], cwc[c])
    BY <1>2 DEF FillWindow
  <1>4. Resend(c) => Moves(c, IF cwc[c] = <<>> THEN "loop" ELSE "handle", gate[c],
                           Posted(c)', crcnt[c], cscnt[c], cwc[c])
    BY <1>2 DEF Resend
  <1>5. Dump(c) => Moves(c, "await", gate[c], Posted(c)', crcnt[c], cscnt[c], cwc[c])
    BY <1>2 DEF Dump
  <1>6. CASE FillWindow(c) \/ Resend(c) \/ Dump(c)
    BY <1>1, <1>3, <1>4, <1>5, <1>6
  <1> QED
    BY <1>6

\* The steps that handle a completion.
LEMMA HandleMoves ==
  ASSUME Base, NEW c \in ClientThreads
  PROVE  /\ HandleSend(c) =>
              Moves(c, Onward(c, Tail(cwc[c]), crcnt[c]), gate[c], Posted(c), crcnt[c],
                    cscnt[c] + 1, Tail(cwc[c]))
         /\ HandleRecv(c) =>
              Moves(c, IF MoreToSend(c) THEN "resend" ELSE Onward(c, Tail(cwc[c]), crcnt[c] + 1),
                    gate[c], Posted(c), crcnt[c] + 1, cscnt[c], Tail(cwc[c]))
         /\ HandleLate(c) =>
              Moves(c, Onward(c, Tail(cwc[c]), crcnt[c] + 1), gate[c], Posted(c), crcnt[c] + 1,
                    cscnt[c], Tail(cwc[c]))
  <1>0. /\ cpc \in [ClientThreads -> ClientLocations] /\ gate \in [ClientThreads -> 0 .. 3]
        /\ crcnt \in [ClientThreads -> Nat] /\ cscnt \in [ClientThreads -> Nat]
        /\ souts \in [ClientThreads -> Int] /\ cwc \in [ClientThreads -> Seq(Completions)]
    BY DEF Base, Phases, ControlTypeOK, Published, ClientSide
  <1>1. ASSUME HandleSend(c)
        PROVE  Moves(c, Onward(c, Tail(cwc[c]), crcnt[c]), gate[c], Posted(c), crcnt[c],
                     cscnt[c] + 1, Tail(cwc[c]))
    <2>1. cscnt'[c] = cscnt[c] + 1 /\ souts'[c] = souts[c] - 1
      BY <1>0, <1>1 DEF HandleSend
    <2>2. Posted(c)' = Posted(c)
      BY <1>0, <2>1 DEF Posted
    <2> QED
      BY <1>0, <1>1, <2>1, <2>2 DEF HandleSend, CGoto, clientRun, Moves
  <1>2. ASSUME HandleRecv(c)
        PROVE  Moves(c, IF MoreToSend(c) THEN "resend" ELSE Onward(c, Tail(cwc[c]), crcnt[c] + 1),
                     gate[c], Posted(c), crcnt[c] + 1, cscnt[c], Tail(cwc[c]))
    BY <1>0, <1>2 DEF HandleRecv, CGoto, Moves, Posted
  <1>3. ASSUME HandleLate(c)
        PROVE  Moves(c, Onward(c, Tail(cwc[c]), crcnt[c] + 1), gate[c], Posted(c), crcnt[c] + 1,
                     cscnt[c], Tail(cwc[c]))
    BY <1>0, <1>3 DEF HandleLate, CGoto, clientRun, Moves, Posted
  <1> QED
    BY <1>1, <1>2, <1>3

LEMMA WindowedThread ==
  ASSUME Base, Windowed, Measured, NEW c \in ClientThreads, ClientThread(c)
  PROVE  WindowedAt(c, cpc[c], gate[c], Posted(c), crcnt[c])'
  <1> DEFINE l == cpc[c]
             g == gate[c]
             p == Posted(c)
             r == crcnt[c]
             W == WindowOf(c)
  <1>1. /\ g \in 0 .. 3 /\ p \in Int /\ r \in Nat /\ W \in Nat \ {0}
        /\ InPhase(c, l, g)
    BY CountTypes, ClosedLoopAssumption DEF Base, Phases, ControlTypeOK, WindowOf
  <1>2. WindowedAt(c, l, g, p, r)
    BY DEF Windowed
  <1>3. ASSUME NEW m, NEW n, NEW q, NEW e, NEW x, NEW y, Moves(c, m, n, q, e, x, y),
               WindowedAt(c, m, n, q, e)
        PROVE  WindowedAt(c, cpc[c], gate[c], Posted(c), crcnt[c])'
    BY <1>3 DEF Moves, WindowedAt, Fresh
  <1> HIDE DEF p, r, W
  <1>4. CASE EnterBarrier(c)
    <2>1. Moves(c, "barrier", g + 1, p, r, cscnt[c], cwc[c])
      BY <1>4, QuietMoves DEF p, r
    <2>2. l \in {"connect", "ready"} /\ (c = Meas /\ l = "ready" => g = 1)
      BY <1>1, <1>4 DEF EnterBarrier, InPhase, MeasPhase
    <2>3. WindowedAt(c, "barrier", g + 1, p, r)
      BY <1>1, <1>2, <2>2 DEF WindowedAt, Fresh, W
    <2> QED
      BY <1>3, <2>1, <2>3
  <1>5. CASE LeaveBarrier(c)
    <2>1. Moves(c, AfterBarrier(c), g, p, r, cscnt[c], cwc[c])
      BY <1>5, QuietMoves DEF p, r
    <2>2. l = "barrier" /\ g \in 1 .. 3
      BY <1>1, <1>5 DEF LeaveBarrier, InPhase
    <2>3. /\ AfterBarrier(c) \notin {"send", "resend", "connect", "barrier"}
          /\ AfterBarrier(c) \in {"fill", "ready"} /\ ~(AfterBarrier(c) = "ready" /\ c = Meas)
               => g < IF c = Meas THEN 2 ELSE 3
      BY <2>2 DEF AfterBarrier
    <2>4. WindowedAt(c, AfterBarrier(c), g, p, r)
      BY <1>1, <1>2, <2>2, <2>3 DEF WindowedAt, Fresh, W
    <2> QED
      BY <1>3, <2>1, <2>4
  <1>6. CASE PostReceives(c)
    <2>1. Moves(c, "send", g, p, r, cscnt[c], cwc[c])
      BY <1>6, QuietMoves DEF p, r
    <2>2. l = "fill"
      BY <1>6 DEF PostReceives
    <2>3. p = 0 /\ r = 0
      BY <1>2, <2>2 DEF WindowedAt, Fresh
    <2>4. WindowedAt(c, "send", g, p, r)
      BY <1>1, <2>3 DEF WindowedAt, Fresh, W
    <2> QED
      BY <1>3, <2>1, <2>4
  <1>7. CASE FillWindow(c)
    <2>1. PICK q \in {p, p + 1} : Moves(c, IF WindowSent(c) THEN "loop" ELSE "send", g,
                                        q, r, cscnt[c], cwc[c])
      BY <1>7, PostMoves DEF p, r
    <2>2. l = "send" /\ p < W /\ r = 0
      BY <1>2, <1>7 DEF FillWindow, WindowedAt, W
    <2>3. ~WindowSent(c) => p + 1 < W
      BY <1>1 DEF WindowSent, p, W
    <2>4. q <= W /\ q - r <= W /\ (~WindowSent(c) => q < W)
      BY <1>1, <2>1, <2>2, <2>3
    <2>5. WindowedAt(c, IF WindowSent(c) THEN "loop" ELSE "send", g, q, r)
      BY <2>2, <2>4 DEF WindowedAt, Fresh, W
    <2> QED
      BY <1>3, <2>1, <2>5
  <1>8. CASE LoopTest(c)
    <2>1. Moves(c, IF LoopOver(c) THEN AfterLoop(c) ELSE "poll", g, p, r, cscnt[c], cwc[c])
      BY <1>8, QuietMoves DEF p, r
    <2>2. WindowedAt(c, IF LoopOver(c) THEN AfterLoop(c) ELSE "poll", g, p, r)
      BY <1>2 DEF WindowedAt, Fresh, AfterLoop
    <2> QED
      BY <1>3, <2>1, <2>2
  <1>9. CASE PollLoop(c)
    <2>1. PICK w : Moves(c, IF l = "poll" THEN "handle" ELSE "awaitHandle", g, p, r, cscnt[c], w)
      BY <1>9, QuietMoves DEF p, r
    <2>2. WindowedAt(c, IF l = "poll" THEN "handle" ELSE "awaitHandle", g, p, r)
      BY <1>2 DEF WindowedAt, Fresh
    <2> QED
      BY <1>3, <2>1, <2>2
  <1>10. CASE HandleSend(c)
    <2>1. Moves(c, Onward(c, Tail(cwc[c]), r), g, p, r, cscnt[c] + 1, Tail(cwc[c]))
      BY <1>10, HandleMoves DEF p, r
    <2>2. Onward(c, Tail(cwc[c]), r) \in Handling \cup {"loop", "drain", "close", "await"}
      BY <1>10 DEF HandleSend, Handling, Onward
    <2>3. WindowedAt(c, Onward(c, Tail(cwc[c]), r), g, p, r)
      BY <1>2, <2>2 DEF WindowedAt, Fresh, Handling
    <2> QED
      BY <1>3, <2>1, <2>3
  <1>11. CASE HandleRecv(c) \/ HandleLate(c)
    <2>1. PICK m : /\ Moves(c, m, g, p, r + 1, cscnt[c], Tail(cwc[c]))
                   /\ m \in Handling \cup {"resend", "loop", "drain", "close", "await"}
      <3> DEFINE o == Onward(c, Tail(cwc[c]), r + 1)
      <3>1. o \in Handling \cup {"loop", "drain", "close", "await"}
        BY <1>11 DEF HandleRecv, HandleLate, Handling, Onward
      <3>2. HandleRecv(c) => Moves(c, IF MoreToSend(c) THEN "resend" ELSE o, g, p, r + 1,
                                   cscnt[c], Tail(cwc[c]))
        BY HandleMoves DEF p, r
      <3>3. HandleLate(c) => Moves(c, o, g, p, r + 1, cscnt[c], Tail(cwc[c]))
        BY HandleMoves DEF p, r
      <3> HIDE DEF o
      <3> QED
        BY <1>11, <3>1, <3>2, <3>3
    <2>2. p - (r + 1) < W
      BY <1>1, <1>2 DEF WindowedAt, W
    <2>3. WindowedAt(c, m, g, p, r + 1)
      BY <1>1, <2>1, <2>2 DEF WindowedAt, Fresh, Handling, W
    <2> QED
      BY <1>3, <2>1, <2>3
  <1>12. CASE Resend(c)
    <2>1. PICK q \in {p, p + 1} : Moves(c, IF cwc[c] = <<>> THEN "loop" ELSE "handle", g,
                                        q, r, cscnt[c], cwc[c])
      BY <1>12, PostMoves DEF p, r
    <2>2. p - r < W
      BY <1>2, <1>12 DEF Resend, WindowedAt, W
    <2>3. q - r <= W
      BY <1>1, <2>1, <2>2
    <2>4. WindowedAt(c, IF cwc[c] = <<>> THEN "loop" ELSE "handle", g, q, r)
      BY <2>3 DEF WindowedAt, Fresh, W
    <2> QED
      BY <1>3, <2>1, <2>4
  <1>13. CASE Finish(c) \/ Publish(c)
    <2>1. Moves(c, "barrier", g + 1, p, r, cscnt[c], cwc[c])
      BY <1>13, QuietMoves DEF p, r
    <2>2. g = 2
      BY <1>1, <1>13 DEF Finish, Publish, InPhase, MeasPhase, LoadPhase
    <2>3. WindowedAt(c, "barrier", g + 1, p, r)
      BY <1>2, <2>2 DEF WindowedAt, Fresh
    <2> QED
      BY <1>3, <2>1, <2>3
  <1>14. CASE DrainPoll(c)
    <2>1. PICK w : \E m \in {"drain", "drainHandle"} : Moves(c, m, g, p, r, cscnt[c], w)
      BY <1>14, QuietMoves DEF p, r
    <2>2. PICK m \in {"drain", "drainHandle"} : Moves(c, m, g, p, r, cscnt[c], w)
      BY <2>1
    <2>3. WindowedAt(c, m, g, p, r)
      BY <1>2, <2>2 DEF WindowedAt, Fresh
    <2> QED
      BY <1>3, <2>2, <2>3
  <1>15. CASE Dump(c)
    <2>1. PICK q \in {p, p + 1} : Moves(c, "await", g, q, r, cscnt[c], cwc[c])
      BY <1>15, PostMoves DEF p, r
    <2>2. l = "dump" /\ c = Meas /\ g = 3
      BY <1>1, <1>15 DEF Dump, InPhase, MeasPhase, LoadPhase
    <2>3. p = r
      BY <2>2 DEF Measured, MeasuredAt, p, r
    <2>4. q - r <= W
      BY <1>1, <2>1, <2>3
    <2>5. WindowedAt(c, "await", g, q, r)
      BY <2>4 DEF WindowedAt, Fresh, W
    <2> QED
      BY <1>3, <2>1, <2>5
  <1>16. CASE Close(c)
    <2>1. Moves(c, "done", g, p, r, cscnt[c], cwc[c])
      BY <1>16, QuietMoves DEF p, r
    <2>2. WindowedAt(c, "done", g, p, r)
      BY <1>2 DEF WindowedAt, Fresh
    <2> QED
      BY <1>3, <2>1, <2>2
  <1> QED
    BY <1>4, <1>5, <1>6, <1>7, <1>8, <1>9, <1>10, <1>11, <1>12, <1>13, <1>14, <1>15, <1>16
    DEF ClientThread

LEMMA WindowedNext ==
  ASSUME Base, Windowed, Measured, [Next]_vars
  PROVE  Windowed'
  <1> SUFFICES ASSUME NEW d \in ClientThreads
               PROVE  WindowedAt(d, cpc[d], gate[d], Posted(d), crcnt[d])'
    BY DEF Windowed
  <1>1. CASE ClientThread(d)
    BY <1>1, WindowedThread
  <1>2. CASE OwnStill(d)
    <2>1. WindowedAt(d, cpc[d], gate[d], Posted(d), crcnt[d])
      BY DEF Windowed
    <2> QED
      BY <1>2, <2>1 DEF OwnStill, WindowedAt, Fresh
  <1> QED
    BY <1>1, <1>2, OwnSteps

-----------------------------------------------------------------------------
(* Sequences of completions. *)

LEMMA SortedTail ==
  ASSUME NEW s \in Seq(Completions), s # <<>>, NEW u, Sorted(s), After(s, u)
  PROVE  Sorted(Tail(s)) /\ After(Tail(s), u)
  <1>1. /\ Len(s) \in Nat \ {0} /\ DOMAIN s = 1 .. Len(s)
        /\ DOMAIN Tail(s) = 1 .. Len(s) - 1
        /\ \A i \in 1 .. Len(s) - 1 : Tail(s)[i] = s[i + 1]
    BY TailProperties
  <1>2. \A i \in 1 .. Len(s) - 1 : i + 1 \in 1 .. Len(s)
    BY <1>1
  <1>3. Sorted(Tail(s))
    BY <1>1, <1>2 DEF Sorted
  <1>4. After(Tail(s), u)
    BY <1>1, <1>2 DEF After
  <1> QED
    BY <1>3, <1>4

LEMMA SortedAppend ==
  ASSUME NEW s \in Seq(Completions), NEW w, Sorted(s), After(w, s)
  PROVE  Sorted(Append(s, "recv")) /\ After(w, Append(s, "recv"))
  <1> DEFINE u == Append(s, "recv")
  <1>1. /\ Len(s) \in Nat /\ DOMAIN s = 1 .. Len(s) /\ DOMAIN u = 1 .. Len(s) + 1
        /\ u[Len(s) + 1] = "recv" /\ \A i \in 1 .. Len(s) : u[i] = s[i]
    BY AppendProperties DEF Completions
  <1> HIDE DEF u
  <1>2. \A i \in 1 .. Len(s) + 1 : i \in 1 .. Len(s) \/ i = Len(s) + 1
    BY <1>1
  <1>3. \A i, j \in 1 .. Len(s) + 1 : i < j => i \in 1 .. Len(s)
    BY <1>1
  <1>4. Sorted(u)
    BY <1>1, <1>2, <1>3 DEF Sorted
  <1>5. After(w, u)
    BY <1>1, <1>2 DEF After
  <1> QED
    BY <1>4, <1>5 DEF u

LEMMA SortedSplit ==
  ASSUME NEW s \in Seq(Completions), NEW n \in 0 .. Len(s), Sorted(s)
  PROVE  OrderedAt(SubSeq(s, 1, n), SubSeq(s, n + 1, Len(s)))
  <1> DEFINE a == SubSeq(s, 1, n)
             b == SubSeq(s, n + 1, Len(s))
             N == Len(s)
  <1>1. N \in Nat /\ n \in Nat /\ n <= N /\ DOMAIN s = 1 .. N
    OBVIOUS
  <1>2. DOMAIN a = 1 .. n /\ \A i \in 1 .. n : a[i] = s[i]
    <2>1. \A i \in 1 .. n : i \in 1 .. Len(s)
      BY <1>1
    <2>2. a \in Seq(Completions) /\ Len(a) = n /\ \A i \in 1 .. n : a[i] = s[1 + i - 1]
      BY <1>1, <2>1, SubSeqProperties
    <2> QED
      BY <2>2
  <1>3. DOMAIN b = 1 .. N - n /\ \A i \in 1 .. N - n : b[i] = s[n + i]
    <2>1. \A i \in (n + 1) .. N : i \in 1 .. Len(s)
      BY <1>1
    <2>2. /\ b \in Seq(Completions) /\ Len(b) = (IF n + 1 <= N THEN N - (n + 1) + 1 ELSE 0)
          /\ \A i \in 1 .. Len(b) : b[i] = s[(n + 1) + i - 1]
      BY <1>1, <2>1, SubSeqProperties
    <2>3. Len(b) = N - n
      <3> DEFINE k == Len(b)
                 K == Len(s)
      <3>1. k = (IF n + 1 <= K THEN K - (n + 1) + 1 ELSE 0) /\ K \in Nat /\ n \in Nat /\ n <= K
        BY <1>1, <2>2
      <3> HIDE DEF k, K
      <3>2. k = K - n
        BY <3>1
      <3> QED
        BY <3>2 DEF k, K
    <2>4. \A i \in 1 .. N - n : (n + 1) + i - 1 = n + i
      BY <1>1
    <2> QED
      BY <2>2, <2>3, <2>4
  <1> HIDE DEF a, b, N
  <1>4. /\ \A i \in 1 .. n : i \in 1 .. N
        /\ \A i \in 1 .. N - n : n + i \in 1 .. N
        /\ \A i \in 1 .. n, j \in 1 .. N - n : i < n + j
        /\ \A i, j \in 1 .. N - n : i < j => n + i < n + j
    BY <1>1
  <1>5. Sorted(a)
    BY <1>1, <1>2, <1>4 DEF Sorted
  <1>6. Sorted(b)
    BY <1>1, <1>3, <1>4 DEF Sorted
  <1>7. After(a, b)
    BY <1>1, <1>2, <1>3, <1>4 DEF After, Sorted
  <1> QED
    BY <1>5, <1>6, <1>7 DEF OrderedAt, a, b

-----------------------------------------------------------------------------
(* The measurement thread has one request under way. *)

LEMMA ResponseCounts ==
  ASSUME NEW c \in ClientThreads, Base, FlowOf(c), NEW n \in {"ccq", "cwc"},
         NEW i \in DOMAIN UnderWay(c)[<<n, c>>], UnderWay(c)[<<n, c>>][i] = "recv"
  PROVE  /\ <<<<n, c>>, i>> \in EntriesIn(UnderWay(c), OfClient(c))
         /\ HowMany(UnderWay(c), OfClient(c)) >= 1
  <1> DEFINE E == EntriesIn(UnderWay(c), OfClient(c))
  <1>1. <<n, c>> \in PlacesOf(c) /\ DOMAIN UnderWay(c) = PlacesOf(c)
    BY DEF PlacesOf, UnderWay, Contents
  <1>2. OfClient(c)[<<n, c>>] = {"recv"}
    BY <1>1 DEF OfClient
  <1>3. <<<<n, c>>, i>> \in E
    BY <1>1, <1>2, EntryIn
  <1>4. IsFiniteSet(E) /\ Cardinality(E) \in Nat
    BY FS_CardinalityType DEF FlowOf
  <1> HIDE DEF E
  <1>5. Cardinality(E) # 0
    BY <1>3, <1>4, FS_EmptySet
  <1>6. Cardinality(E) >= 1
    BY <1>4, <1>5
  <1> QED
    BY <1>3, <1>6 DEF E, HowMany

LEMMA MeasWindow ==
  ASSUME Base, Windowed, FlowOf(Meas)
  PROVE  HowMany(UnderWay(Meas), OfClient(Meas)) + Len(csq[Meas]) <= 1
  <1> DEFINE a == HowMany(UnderWay(Meas), OfClient(Meas))
             n == Len(csq[Meas])
             p == Posted(Meas)
             r == crcnt[Meas]
  <1>1. a \in Nat /\ n \in Nat /\ p \in Int /\ r \in Nat
    BY MeasIsClient, CountTypes, FlowCounts
  <1>2. a + r + n <= p
    BY DEF FlowOf
  <1>3. p - r <= 1
    BY MeasIsClient DEF Windowed, WindowedAt, WindowOf
  <1> HIDE DEF a, n, p, r
  <1>4. a + n <= 1
    BY <1>1, <1>2, <1>3
  <1> QED
    BY <1>4 DEF a, n

LEMMA NoResponse ==
  ASSUME Base, Windowed, FlowOf(Meas), csq[Meas] # <<>>
  PROVE  /\ \A i \in DOMAIN cwc[Meas] : cwc[Meas][i] # "recv"
         /\ \A i \in DOMAIN ccq[Meas] : ccq[Meas][i] # "recv"
  <1> DEFINE h == HowMany(UnderWay(Meas), OfClient(Meas))
  <1>1. Meas \in ClientThreads
    BY MeasIsClient
  <1>2. csq[Meas] \in Seq(Queues)
    BY <1>1 DEF Base, ClientSide
  <1>3. Len(csq[Meas]) \in Nat \ {0}
    BY <1>2
  <1>4. h \in Nat /\ h + Len(csq[Meas]) <= 1
    BY <1>1, FlowCounts, MeasWindow
  <1> HIDE DEF h
  <1>5. ~(h >= 1)
    BY <1>3, <1>4
  <1>6. /\ UnderWay(Meas)[<<"cwc", Meas>>] = cwc[Meas]
        /\ UnderWay(Meas)[<<"ccq", Meas>>] = ccq[Meas]
    BY DEF UnderWay, Contents, PlacesOf
  <1> QED
    BY <1>1, <1>5, <1>6, ResponseCounts DEF h

\* When it takes a response nothing else of it is under way, and it has taken the
\* completions of all its sends.
LEMMA ResponseIsLast ==
  ASSUME ClosedInv, Windowed, Ordered, HandleRecv(Meas)
  PROVE  /\ Posted(Meas) = crcnt[Meas] + 1 /\ cscnt[Meas] = Posted(Meas)
         /\ Tail(cwc[Meas]) = <<>>
  <1> DEFINE c == Meas
             L == UnderWay(c)
             h == HowMany(L, OfClient(c))
             n == Len(csq[c])
             s == cwc[c]
  <1>1. Base /\ FlowOf(c) /\ c \in ClientThreads
    BY MeasIsClient DEF ClosedInv, Flow, HandleRecv
  <1>2. s \in Seq(Completions) /\ s # <<>> /\ Head(s) = "recv" /\ ccq[c] \in Seq(Completions)
    BY <1>1 DEF HandleRecv, Base, ClientSide
  <1>3. Len(s) \in Nat \ {0} /\ DOMAIN s = 1 .. Len(s) /\ s[1] = "recv"
    BY <1>2
  <1>4. L[<<"cwc", c>>] = s /\ L[<<"ccq", c>>] = ccq[c] /\ DOMAIN L = PlacesOf(c)
    BY DEF UnderWay, Contents, PlacesOf
  <1>5. 1 \in DOMAIN s
    BY <1>3
  <1>6. <<<<"cwc", c>>, 1>> \in EntriesIn(L, OfClient(c)) /\ h >= 1
    BY <1>1, <1>3, <1>4, <1>5, ResponseCounts
  <1>7. h \in Nat /\ n \in Nat /\ h + n <= 1
    BY <1>1, FlowCounts, CountTypes, MeasWindow
  <1>8. h = 1 /\ n = 0
    <2> HIDE DEF h, n
    <2> QED
      BY <1>6, <1>7
  <1>9. OrderedAt(s, ccq[c])
    BY DEF Ordered, HandleRecv
  <1>10. /\ \A j \in DOMAIN s : s[j] # "send"
         /\ \A j \in DOMAIN ccq[c] : ccq[c][j] # "send"
    <2>1. \A j \in DOMAIN ccq[c] : ccq[c][j] # "send"
      BY <1>3, <1>5, <1>9 DEF OrderedAt, After
    <2>2. ASSUME NEW j \in DOMAIN s
          PROVE  s[j] # "send"
      <3>1. j = 1 \/ 1 < j
        BY <1>3
      <3>2. CASE j = 1
        BY <1>3, <3>2
      <3>3. CASE 1 < j
        BY <1>3, <1>5, <1>9, <3>3 DEF OrderedAt, Sorted
      <3> QED
        BY <3>1, <3>2, <3>3
    <2> QED
      BY <2>1, <2>2
  <1>11. EntriesIn(L, SendsOf(c)) = {}
    <2> SUFFICES ASSUME NEW y \in EntriesIn(L, SendsOf(c))
                 PROVE  FALSE
      OBVIOUS
    <2>1. PICK x \in DOMAIN L : \E i \in DOMAIN L[x] : y = <<x, i>> /\ L[x][i] \in SendsOf(c)[x]
      BY EntryShape
    <2>2. PICK i \in DOMAIN L[x] : L[x][i] \in SendsOf(c)[x]
      BY <2>1
    <2>3. x \in PlacesOf(c)
      BY <1>4
    <2>4. x[1] \in {"ccq", "cwc"} /\ L[x][i] = "send"
      BY <2>2, <2>3 DEF SendsOf
    <2>5. x = <<"ccq", c>> \/ x = <<"cwc", c>>
      BY <2>3, <2>4 DEF PlacesOf
    <2> QED
      BY <1>4, <1>10, <2>2, <2>4, <2>5
  <1>12. souts[c] = 0
    <2>1. HowMany(L, SendsOf(c)) = 0
      BY <1>11, FS_EmptySet DEF HowMany
    <2>2. souts[c] = n + HowMany(L, SendsOf(c))
      BY <1>1 DEF FlowOf
    <2> HIDE DEF n
    <2> QED
      BY <1>8, <2>1, <2>2
  <1>13. Posted(c) = crcnt[c] + 1 /\ cscnt[c] = Posted(c)
    <2>1. crcnt[c] \in Nat /\ cscnt[c] \in Nat /\ Posted(c) \in Int
      BY <1>1, CountTypes
    <2>2. cscnt[c] = Posted(c)
      BY <1>12, <2>1 DEF Posted
    <2>3. h + crcnt[c] + n <= Posted(c)
      BY <1>1 DEF FlowOf
    <2>4. Posted(c) - crcnt[c] <= 1
      BY MeasIsClient DEF Windowed, WindowedAt, WindowOf
    <2> HIDE DEF h, n
    <2>5. Posted(c) = crcnt[c] + 1
      BY <1>8, <2>1, <2>3, <2>4
    <2> QED
      BY <2>2, <2>5
  <1>14. Len(s) = 1
    <2> SUFFICES ASSUME Len(s) # 1
                 PROVE  FALSE
      OBVIOUS
    <2>1. 2 \in DOMAIN s
      <3> DEFINE k == Len(s)
      <3>1. k \in Nat \ {0} /\ k # 1 /\ DOMAIN s = 1 .. k
        BY <1>3
      <3> HIDE DEF k
      <3>2. 2 \in 1 .. k
        BY <3>1
      <3> QED
        BY <3>1, <3>2
    <2>2. s[2] \in Completions
      BY <1>2, <2>1
    <2>3. s[2] = "recv"
      BY <1>10, <2>1, <2>2 DEF Completions
    <2>4. <<<<"cwc", c>>, 2>> \in EntriesIn(L, OfClient(c))
      BY <1>1, <1>4, <2>1, <2>3, ResponseCounts
    <2>5. PICK e : EntriesIn(L, OfClient(c)) = {e}
      BY <1>1, <1>8, FS_Singleton DEF HowMany, FlowOf
    <2>6. <<<<"cwc", c>>, 1>> = <<<<"cwc", c>>, 2>>
      BY <1>6, <2>4, <2>5
    <2> QED
      BY <2>6
  <1>15. Tail(s) = <<>>
    <2> DEFINE u == Tail(s)
    <2>1. u \in Seq(Completions) /\ Len(u) = 0
      BY <1>2, <1>14, TailProperties
    <2> HIDE DEF u
    <2>2. u = <<>>
      BY <2>1
    <2> QED
      BY <2>2 DEF u
  <1> QED
    BY <1>13, <1>15

LEMMA OrderedNext ==
  ASSUME ClosedInv, Windowed, Ordered, [Next]_vars
  PROVE  Ordered'
  <1> SUFFICES ASSUME cpc'[Meas] # "done"
               PROVE  OrderedAt(cwc'[Meas], ccq'[Meas])
    BY DEF Ordered
  <1>0. /\ Base /\ Phases /\ ServerSide /\ ClientSide /\ Meas \in ClientThreads
        /\ cwc \in [ClientThreads -> Seq(Completions)]
        /\ ccq \in [ClientThreads -> Seq(Completions)]
        /\ cwc[Meas] \in Seq(Completions) /\ ccq[Meas] \in Seq(Completions)
    BY MeasIsClient DEF ClosedInv, Base, ClientSide
  <1>1. cpc[Meas] # "done"
    BY <1>0, DoneStays
  <1>2. OrderedAt(cwc[Meas], ccq[Meas]) /\ FlowOf(Meas)
    BY <1>0, <1>1 DEF Ordered, ClosedInv, Flow
  <1>3. ASSUME cwc'[Meas] = cwc[Meas], ccq'[Meas] = ccq[Meas]
        PROVE  OrderedAt(cwc'[Meas], ccq'[Meas])
    BY <1>2, <1>3
  <1>4. ASSUME NEW c \in ClientThreads, Transmit(c)
        PROVE  OrderedAt(cwc'[Meas], ccq'[Meas])
    <2>1. /\ csq[c] # <<>> /\ ccq' = [ccq EXCEPT ![c] = Append(@, "send")] /\ cwc' = cwc
      BY <1>4 DEF Transmit
    <2>2. CASE c # Meas
      BY <1>0, <1>3, <2>1, <2>2
    <2>3. CASE c = Meas
      <3> DEFINE s == ccq[Meas]
                 u == Append(s, "send")
      <3>1. ccq'[Meas] = u /\ cwc'[Meas] = cwc[Meas]
        BY <1>0, <2>1, <2>3
      <3>2. /\ \A i \in DOMAIN cwc[Meas] : cwc[Meas][i] # "recv"
            /\ \A i \in DOMAIN s : s[i] # "recv"
        BY <1>0, <1>2, <2>1, <2>3, NoResponse
      <3>3. /\ Len(s) \in Nat /\ DOMAIN s = 1 .. Len(s) /\ DOMAIN u = 1 .. Len(s) + 1
            /\ u[Len(s) + 1] = "send" /\ \A i \in 1 .. Len(s) : u[i] = s[i]
        BY <1>0, AppendProperties DEF Completions
      <3>4. \A i \in 1 .. Len(s) + 1 : i \in 1 .. Len(s) \/ i = Len(s) + 1
        BY <3>3
      <3> HIDE DEF u
      <3>5. \A i \in DOMAIN u : u[i] # "recv"
        BY <3>2, <3>3, <3>4
      <3> QED
        BY <3>1, <3>2, <3>5 DEF OrderedAt, Sorted, After
    <2> QED
      BY <2>2, <2>3
  <1>5. ASSUME NEW q \in Queues, Respond(q)
        PROVE  OrderedAt(cwc'[Meas], ccq'[Meas])
    <2>1. cwc' = cwc /\ \/ ccq' = ccq
                        \/ ccq' = [ccq EXCEPT ![Head(sq[q]).qpn] = Append(@, "recv")]
      BY <1>5 DEF Respond
    <2>2. ccq'[Meas] = ccq[Meas] \/ ccq'[Meas] = Append(ccq[Meas], "recv")
      BY <1>0, <2>1
    <2>3. CASE ccq'[Meas] = Append(ccq[Meas], "recv")
      BY <1>0, <1>2, <2>1, <2>3, SortedAppend DEF OrderedAt
    <2> QED
      BY <1>3, <2>1, <2>2, <2>3
  <1>6. ASSUME NEW c \in ClientThreads, PollLoop(c) \/ DrainPoll(c)
        PROVE  OrderedAt(cwc'[Meas], ccq'[Meas])
    <2>1. TakeCompletions(c)
      BY <1>6 DEF PollLoop, DrainPoll
    <2>2. CASE c # Meas
      BY <1>0, <1>3, <2>1, <2>2, TakeEffect
    <2>3. CASE c = Meas
      <3>1. PICK n \in 0 .. Len(ccq[Meas]) : /\ cwc'[Meas] = SubSeq(ccq[Meas], 1, n)
                                             /\ ccq'[Meas] = SubSeq(ccq[Meas], n + 1, Len(ccq[Meas]))
        BY <1>0, <2>1, <2>3, TakeEffect
      <3> QED
        BY <1>0, <1>2, <3>1, SortedSplit DEF OrderedAt
    <2> QED
      BY <2>2, <2>3
  <1>7. ASSUME NEW c \in ClientThreads, HandleSend(c) \/ HandleRecv(c) \/ HandleLate(c)
        PROVE  OrderedAt(cwc'[Meas], ccq'[Meas])
    <2>1. cwc[c] # <<>> /\ cwc' = [cwc EXCEPT ![c] = Tail(@)] /\ ccq' = ccq
      BY <1>7 DEF HandleSend, HandleRecv, HandleLate, clientDevice
    <2>2. CASE c # Meas
      BY <1>0, <1>3, <2>1, <2>2
    <2>3. CASE c = Meas
      <3>1. cwc'[Meas] = Tail(cwc[Meas]) /\ cwc[Meas] # <<>>
        BY <1>0, <2>1, <2>3
      <3>2. Sorted(Tail(cwc[Meas])) /\ After(Tail(cwc[Meas]), ccq[Meas])
        BY <1>0, <1>2, <3>1, SortedTail DEF OrderedAt
      <3> QED
        BY <1>2, <2>1, <3>1, <3>2 DEF OrderedAt
    <2> QED
      BY <2>2, <2>3
  <1>8. ASSUME NEW c \in ClientThreads, Close(c)
        PROVE  OrderedAt(cwc'[Meas], ccq'[Meas])
    <2>1. cpc' = [cpc EXCEPT ![c] = "done"] /\ ccq' = [ccq EXCEPT ![c] = <<>>] /\ cwc' = cwc
      BY <1>8 DEF Close, CGoto
    <2>2. cpc \in [ClientThreads -> ClientLocations]
      BY <1>0 DEF Phases, ControlTypeOK
    <2>3. c # Meas
      BY <1>0, <2>1, <2>2
    <2> QED
      BY <1>0, <1>3, <2>1, <2>3
  <1>9. ASSUME NEW c \in ClientThreads,
               \/ EnterBarrier(c) \/ LeaveBarrier(c) \/ PostReceives(c) \/ LoopTest(c)
               \/ Finish(c) \/ Publish(c) \/ FillWindow(c) \/ Resend(c) \/ Dump(c)
        PROVE  OrderedAt(cwc'[Meas], ccq'[Meas])
    <2>1. UNCHANGED <<cwc, ccq>>
      BY <1>9 DEF EnterBarrier, LeaveBarrier, PostReceives, LoopTest, Finish, Publish,
                  FillWindow, Resend, Dump, clientDevice
    <2> QED
      BY <1>3, <2>1
  <1>10. CASE UNCHANGED clientVars
    BY <1>3, <1>10 DEF clientVars, clientDevice
  <1>11. CASE UNCHANGED vars
    BY <1>10, <1>11 DEF vars
  <1>12. ASSUME NEW c \in ClientThreads, ClientThread(c)
         PROVE  OrderedAt(cwc'[Meas], ccq'[Meas])
    BY <1>6, <1>7, <1>8, <1>9, <1>12 DEF ClientThread
  <1>13. CASE Network
    BY <1>4, <1>5, <1>13 DEF Network
  <1> QED
    BY <1>10, <1>11, <1>12, <1>13 DEF Next

\* The measurement loop of the code, step by step.
LEMMA MeasuredThread ==
  ASSUME ClosedInv, Windowed, Ordered, Measured, Sampled, ClientThread(Meas)
  PROVE  Measured' /\ Sampled'
  <1> DEFINE c == Meas
             l == cpc[c]
             g == gate[c]
             p == Posted(c)
             r == crcnt[c]
             s == cscnt[c]
             w == cwc[c]
  <1>0. Base /\ c \in ClientThreads
    BY MeasIsClient DEF ClosedInv
  <1>1. /\ g \in 0 .. 3 /\ p \in Int /\ r \in Nat /\ s \in Nat /\ SyncIters \in Nat \ {0}
        /\ InPhase(c, l, g) /\ WindowOf(c) = 1
    BY <1>0, CountTypes, ClosedLoopAssumption DEF Base, Phases, ControlTypeOK, WindowOf
  <1>2. WindowedAt(c, l, g, p, r)
    BY <1>0 DEF Windowed
  <1>3. MeasuredAt(l, g, p, r, s, w) /\ SampledAt(g, r, written)
    BY DEF Measured, Sampled
  <1>4. ASSUME NEW m, NEW n, NEW q, NEW e, NEW x, NEW y, Moves(c, m, n, q, e, x, y),
               MeasuredAt(m, n, q, e, x, y), SampledAt(n, e, written')
        PROVE  Measured' /\ Sampled'
    BY <1>4 DEF Moves, Measured, Sampled
  <1>5. (l # "done" => r <= p)
    BY <1>0, FlowCounts DEF ClosedInv, Flow
  <1> HIDE DEF c, p, r, s, w
  <1>6. CASE EnterBarrier(c)
    <2>1. Moves(c, "barrier", g + 1, p, r, s, w) /\ written' = written
      BY <1>0, <1>6, QuietMoves DEF p, r, s, w, EnterBarrier
    <2>2. (l = "connect" /\ g = 0) \/ (l = "ready" /\ g = 1)
      BY <1>1, <1>6 DEF EnterBarrier, InPhase, MeasPhase, c
    <2>3. CASE l = "connect" /\ g = 0
      <3>1. p = 0 /\ r = 0 /\ written = {}
        BY <1>2, <1>3, <2>3 DEF WindowedAt, Fresh, SampledAt
      <3>2. MeasuredAt("barrier", g + 1, p, r, s, w) /\ SampledAt(g + 1, r, written')
        BY <1>1, <2>1, <2>3, <3>1 DEF MeasuredAt, SampledAt
      <3> QED
        BY <1>4, <2>1, <3>2
    <2>4. CASE l = "ready" /\ g = 1
      <3>1. r = 1 /\ p <= SyncIters /\ written = {}
        BY <1>3, <2>4 DEF MeasuredAt, SampledAt
      <3>2. 1 .. r - 1 = {}
        BY <3>1
      <3>3. MeasuredAt("barrier", g + 1, p, r, s, w) /\ SampledAt(g + 1, r, written')
        BY <1>1, <2>1, <2>4, <3>1, <3>2 DEF MeasuredAt, SampledAt
      <3> QED
        BY <1>4, <2>1, <3>3
    <2> QED
      BY <2>2, <2>3, <2>4
  <1>7. CASE LeaveBarrier(c)
    <2>1. Moves(c, AfterBarrier(c), g, p, r, s, w) /\ written' = written
      BY <1>0, <1>7, QuietMoves DEF p, r, s, w, LeaveBarrier, clientRun
    <2>2. l = "barrier" /\ g \in 1 .. 3 /\ AfterBarrier(c) = <<"fill", "loop", "dump">>[g]
      BY <1>1, <1>7 DEF LeaveBarrier, InPhase, AfterBarrier, c
    <2>3. g = 1 => r = 0
      BY <1>2, <2>2 DEF WindowedAt, Fresh, c
    <2>4. MeasuredAt(AfterBarrier(c), g, p, r, s, w)
      BY <1>1, <1>3, <2>2, <2>3 DEF MeasuredAt
    <2> QED
      BY <1>3, <1>4, <2>1, <2>4
  <1>8. CASE PostReceives(c)
    <2>1. Moves(c, "send", g, p, r, s, w) /\ written' = written
      BY <1>0, <1>8, QuietMoves DEF p, r, s, w, PostReceives, clientRun
    <2>2. r = 0
      BY <1>2, <1>8 DEF PostReceives, WindowedAt, Fresh
    <2>3. MeasuredAt("send", g, p, r, s, w)
      BY <1>3, <2>2 DEF MeasuredAt
    <2> QED
      BY <1>3, <1>4, <2>1, <2>3
  <1>9. CASE FillWindow(c)
    <2>1. PICK q \in {p, p + 1} : Moves(c, IF WindowSent(c) THEN "loop" ELSE "send", g, q, r, s, w)
      BY <1>0, <1>9, PostMoves DEF p, r, s, w
    <2>2. written' = written /\ l = "send" /\ p < 1 /\ r = 0
      BY <1>1, <1>2, <1>9 DEF FillWindow, clientRun, WindowedAt
    <2>3. q <= SyncIters
      BY <1>1, <2>1, <2>2
    <2>4. MeasuredAt(IF WindowSent(c) THEN "loop" ELSE "send", g, q, r, s, w)
      BY <2>2, <2>3 DEF MeasuredAt
    <2> QED
      BY <1>3, <1>4, <2>1, <2>2, <2>4
  <1>10. CASE LoopTest(c)
    <2> DEFINE m == IF LoopOver(c) THEN AfterLoop(c) ELSE "poll"
    <2>1. Moves(c, m, g, p, r, s, w) /\ written' = written
      BY <1>0, <1>10, QuietMoves DEF p, r, s, w, LoopTest, clientRun
    <2>2. l = "loop" /\ g \in {1, 2}
      BY <1>1, <1>10 DEF LoopTest, InPhase, MeasPhase, c
    <2>3. CASE g = 1
      <3>1. LoopOver(c) <=> r >= 1 /\ s >= 1
        BY <2>3 DEF LoopOver, Reached, r, s, c
      <3>2. m = IF r >= 1 /\ s >= 1 THEN "ready" ELSE "poll"
        BY <2>3, <3>1 DEF AfterLoop, c
      <3> HIDE DEF m
      <3>3. MeasuredAt(m, g, p, r, s, w)
        BY <1>1, <1>3, <2>2, <2>3, <3>2 DEF MeasuredAt
      <3> QED
        BY <1>3, <1>4, <2>1, <3>3
    <2>4. CASE g = 2
      <3>1. LoopOver(c) => r >= SyncIters
        BY <2>4 DEF LoopOver, Reached, r, c
      <3>2. m = IF LoopOver(c) THEN "finish" ELSE "poll"
        BY <2>4 DEF AfterLoop, c
      <3>3. p <= SyncIters /\ r <= p
        BY <1>3, <1>5, <2>2, <2>4 DEF MeasuredAt
      <3>4. LoopOver(c) => p = r /\ r = SyncIters
        BY <1>1, <3>1, <3>3
      <3> HIDE DEF m
      <3>5. MeasuredAt(m, g, p, r, s, w)
        BY <1>1, <2>4, <3>2, <3>3, <3>4 DEF MeasuredAt
      <3> QED
        BY <1>3, <1>4, <2>1, <3>5
    <2> QED
      BY <2>2, <2>3, <2>4
  <1>11. CASE PollLoop(c)
    <2>1. PICK v : Moves(c, IF l = "poll" THEN "handle" ELSE "awaitHandle", g, p, r, s, v)
      BY <1>0, <1>11, QuietMoves DEF p, r, s
    <2>2. written' = written /\ l \in {"poll", "await"} /\ (l = "await" => g = 3)
      BY <1>1, <1>11 DEF PollLoop, clientRun, InPhase, MeasPhase, c
    <2>3. MeasuredAt(IF l = "poll" THEN "handle" ELSE "awaitHandle", g, p, r, s, v)
      BY <1>1, <1>3, <2>2 DEF MeasuredAt
    <2> QED
      BY <1>3, <1>4, <2>1, <2>2, <2>3
  <1>12. CASE HandleSend(c)
    <2> DEFINE o == Onward(c, Tail(w), r)
    <2>1. Moves(c, o, g, p, r, s + 1, Tail(w)) /\ written' = written
      BY <1>0, <1>12, HandleMoves DEF p, r, s, w, HandleSend, clientRun
    <2>2. /\ o \in Handling \cup {"loop", "drain", "close", "await"}
          /\ l \in Handling
      BY <1>12 DEF HandleSend, Handling, Onward
    <2> HIDE DEF o
    <2>3. MeasuredAt(o, g, p, r, s + 1, Tail(w))
      BY <1>1, <1>3, <2>2 DEF MeasuredAt, Handling
    <2> QED
      BY <1>3, <1>4, <2>1, <2>3
  <1>13. CASE HandleRecv(c)
    <2> DEFINE m == IF MoreToSend(c) THEN "resend" ELSE Onward(c, Tail(w), r + 1)
    <2>1. Moves(c, m, g, p, r + 1, s, Tail(w))
      BY <1>0, <1>13, HandleMoves DEF p, r, s, w
    <2>2. p = r + 1 /\ s = p /\ Tail(w) = <<>>
      BY <1>13, ResponseIsLast DEF p, r, s, w, c
    <2>3. l = "handle" /\ g \in {1, 2}
      <3>1. l = "handle"
        BY <1>13 DEF HandleRecv
      <3>2. g \in {1, 2}
        BY <1>1, <3>1 DEF InPhase, MeasPhase, c
      <3> QED
        BY <3>1, <3>2
    <2>4. m = IF s < SyncIters THEN "resend" ELSE "loop"
      BY <2>2, <2>3 DEF MoreToSend, ItersOf, Onward, s, c
    <2>5. written' = IF g = 2 THEN written \cup {r} ELSE written
      BY <1>13 DEF HandleRecv, SampleIndex, r, c
    <2> HIDE DEF m
    <2>6. g = 1 => r = 0
      BY <1>3, <2>3 DEF MeasuredAt
    <2>7. MeasuredAt(m, g, p, r + 1, s, Tail(w))
      BY <1>1, <1>3, <2>2, <2>3, <2>4, <2>6 DEF MeasuredAt
    <2>8. SampledAt(g, r + 1, written')
      <3>1. CASE g = 1
        BY <1>3, <2>5, <3>1 DEF SampledAt
      <3>2. CASE g = 2
        <4>1. r >= 1 /\ written = 1 .. r - 1
          BY <1>3, <3>2 DEF SampledAt
        <4>2. (1 .. r - 1) \cup {r} = 1 .. (r + 1) - 1
          BY <1>1, <4>1
        <4> QED
          BY <1>1, <2>5, <3>2, <4>1, <4>2 DEF SampledAt
      <3> QED
        BY <2>3, <3>1, <3>2
    <2> QED
      BY <1>4, <2>1, <2>7, <2>8
  <1>14. CASE Resend(c)
    <2>1. PICK q \in {p, p + 1} : Moves(c, IF w = <<>> THEN "loop" ELSE "handle", g, q, r, s, w)
      BY <1>0, <1>14, PostMoves DEF p, r, s, w
    <2>2. written' = written /\ l = "resend" /\ g # 3
      BY <1>1, <1>14 DEF Resend, clientRun, InPhase, MeasPhase, c
    <2>3. p = r /\ r < SyncIters /\ w = <<>>
      BY <1>3, <2>2 DEF MeasuredAt
    <2>4. q <= SyncIters
      BY <1>1, <2>1, <2>3
    <2>5. MeasuredAt("loop", g, q, r, s, w)
      BY <1>1, <1>3, <2>2, <2>4 DEF MeasuredAt
    <2> QED
      BY <1>3, <1>4, <2>1, <2>2, <2>3, <2>5
  <1>15. CASE HandleLate(c)
    <2> DEFINE o == Onward(c, Tail(w), r + 1)
    <2>1. Moves(c, o, g, p, r + 1, s, Tail(w)) /\ written' = written
      BY <1>0, <1>15, HandleMoves DEF p, r, s, w, HandleLate, clientRun
    <2>2. o \in Handling \cup {"loop", "drain", "close", "await"} /\ g = 3
      <3>1. l \in {"awaitHandle", "drainHandle"}
        BY <1>15 DEF HandleLate
      <3>2. g = 3
        BY <1>1, <3>1 DEF InPhase, MeasPhase, c
      <3>3. o \in Handling \cup {"loop", "drain", "close", "await"}
        BY <3>1 DEF Handling, Onward
      <3> QED
        BY <3>2, <3>3
    <2> HIDE DEF o
    <2>3. MeasuredAt(o, g, p, r + 1, s, Tail(w)) /\ SampledAt(g, r + 1, written')
      BY <1>3, <2>1, <2>2 DEF MeasuredAt, SampledAt, Handling
    <2> QED
      BY <1>4, <2>1, <2>3
  <1>16. CASE Finish(c)
    <2>1. Moves(c, "barrier", g + 1, p, r, s, w) /\ written' = written
      BY <1>0, <1>16, QuietMoves DEF p, r, s, w, Finish
    <2>2. l = "finish" /\ g = 2
      BY <1>1, <1>16 DEF Finish, InPhase, MeasPhase, c
    <2>3. p = r /\ r = SyncIters /\ written = 1 .. SyncIters - 1
      BY <1>3, <2>2 DEF MeasuredAt, SampledAt
    <2>4. MeasuredAt("barrier", g + 1, p, r, s, w) /\ SampledAt(g + 1, r, written')
      BY <2>1, <2>2, <2>3 DEF MeasuredAt, SampledAt
    <2> QED
      BY <1>4, <2>1, <2>4
  <1>17. CASE Dump(c)
    <2>1. PICK q \in {p, p + 1} : Moves(c, "await", g, q, r, s, w)
      BY <1>0, <1>17, PostMoves DEF p, r, s, w
    <2>2. written' = written /\ g = 3
      BY <1>1, <1>17 DEF Dump, clientRun, InPhase, MeasPhase, c
    <2>3. MeasuredAt("await", g, q, r, s, w)
      BY <2>2 DEF MeasuredAt
    <2> QED
      BY <1>3, <1>4, <2>1, <2>2, <2>3
  <1>18. CASE Close(c)
    <2>1. Moves(c, "done", g, p, r, s, w) /\ written' = written
      BY <1>0, <1>18, QuietMoves DEF p, r, s, w, Close, clientRun
    <2>2. g = 3
      BY <1>1, <1>18 DEF Close, InPhase, MeasPhase, c
    <2>3. MeasuredAt("done", g, p, r, s, w)
      BY <2>2 DEF MeasuredAt
    <2> QED
      BY <1>3, <1>4, <2>1, <2>3
  <1>19. ~(DrainPoll(c) \/ Publish(c))
    BY <1>1 DEF DrainPoll, Publish, InPhase, MeasPhase, c
  <1>20. ClientThread(c)
    BY DEF c
  <1> QED
    BY <1>6, <1>7, <1>8, <1>9, <1>10, <1>11, <1>12, <1>13, <1>14, <1>15, <1>16, <1>17, <1>18,
       <1>19, <1>20 DEF ClientThread

LEMMA MeasuredNext ==
  ASSUME ClosedInv, Windowed, Ordered, Measured, Sampled, [Next]_vars
  PROVE  Measured' /\ Sampled'
  <1>1. Base /\ Meas \in ClientThreads
    BY MeasIsClient DEF ClosedInv
  <1>2. CASE ClientThread(Meas)
    BY <1>2, MeasuredThread
  <1>3. CASE OwnStill(Meas)
    BY <1>3 DEF OwnStill, Measured, Sampled
  <1> QED
    BY <1>1, <1>2, <1>3, OwnSteps

WindowInv == ClosedInv /\ Windowed /\ Ordered /\ Measured /\ Sampled

LEMMA WindowInit == Init => WindowInv
  <1> SUFFICES ASSUME Init
               PROVE  WindowInv
    OBVIOUS
  <1>1. /\ \A c \in ClientThreads : /\ cpc[c] = "connect" /\ gate[c] = 0 /\ crcnt[c] = 0
                                    /\ cscnt[c] = 0 /\ souts[c] = 0
                                    /\ cwc[c] = <<>> /\ ccq[c] = <<>>
        /\ written = {}
    BY DEF Init, ClientInit
  <1>2. \A c \in ClientThreads : Posted(c) = 0 /\ WindowOf(c) \in Nat \ {0}
    BY <1>1, ClosedLoopAssumption DEF Posted, WindowOf
  <1>3. Windowed
    BY <1>1, <1>2 DEF Windowed, WindowedAt, Fresh
  <1>4. Ordered
    BY <1>1, MeasIsClient DEF Ordered, OrderedAt, Sorted, After
  <1>5. Measured
    BY <1>1, <1>2, MeasIsClient, ClosedLoopAssumption DEF Measured, MeasuredAt
  <1>6. Sampled
    BY <1>1, MeasIsClient DEF Sampled, SampledAt
  <1> QED
    BY <1>3, <1>4, <1>5, <1>6, ClosedInit DEF WindowInv

LEMMA WindowNext == WindowInv /\ [Next]_vars => WindowInv'
  <1> SUFFICES ASSUME WindowInv, [Next]_vars
               PROVE  WindowInv'
    OBVIOUS
  <1>1. ClosedInv /\ Base /\ Windowed /\ Ordered /\ Measured /\ Sampled
    BY DEF WindowInv, ClosedInv
  <1>2. ClosedInv'
    BY <1>1, ClosedNext
  <1>3. Windowed'
    BY <1>1, WindowedNext
  <1>4. Ordered'
    BY <1>1, OrderedNext
  <1>5. Measured' /\ Sampled'
    BY <1>1, MeasuredNext
  <1> QED
    BY <1>2, <1>3, <1>4, <1>5 DEF WindowInv

LEMMA WindowAlways == Spec => []WindowInv
  BY WindowInit, WindowNext, PTL DEF Spec

\* Every sample the result file is written from was measured, none is stored outside
\* measured_latency, and index 0 is the one place the test packet leaves empty: for
\* every sync_iters, every number of load threads and every size of the server.
THEOREM SamplesCorrect == Spec => []SamplesExact
  <1>1. WindowInv => SamplesExact
    <2> SUFFICES ASSUME WindowInv
                 PROVE  SamplesExact
      OBVIOUS
    <2> DEFINE g == gate[Meas]
               r == crcnt[Meas]
    <2>1. /\ ClosedInv /\ Base /\ Measured /\ Sampled /\ Meas \in ClientThreads
      BY MeasIsClient DEF WindowInv, ClosedInv
    <2>2. /\ g \in 0 .. 3 /\ r \in Nat /\ Posted(Meas) \in Int /\ SyncIters \in Nat \ {0}
          /\ InPhase(Meas, cpc[Meas], g)
      BY <2>1, CountTypes, ClosedLoopAssumption DEF Base, Phases, ControlTypeOK
    <2>3. SampledAt(g, r, written)
      BY <2>1 DEF Sampled
    <2>4. g = 2 => r <= SyncIters
      <3>1. ASSUME g = 2
            PROVE  r <= SyncIters
        <4>1. cpc[Meas] # "done"
          BY <2>2, <3>1 DEF InPhase, MeasPhase
        <4>2. FlowOf(Meas)
          BY <2>1, <4>1 DEF ClosedInv, Flow
        <4>3. r <= Posted(Meas)
          BY <2>1, <4>2, FlowCounts
        <4>4. Posted(Meas) <= SyncIters
          BY <2>1, <3>1 DEF Measured, MeasuredAt
        <4> QED
          BY <2>2, <4>3, <4>4
      <3> QED
        BY <3>1
    <2> HIDE DEF r
    <2>5. written \subseteq 1 .. SyncIters - 1
      <3>1. g \in {0, 1} \/ g = 2 \/ g = 3
        BY <2>2
      <3>2. CASE g \in {0, 1}
        BY <2>3, <3>2 DEF SampledAt
      <3>3. CASE g = 2
        <4>1. written = 1 .. r - 1
          BY <2>3, <3>3 DEF SampledAt
        <4> QED
          BY <2>2, <2>4, <3>3, <4>1
      <3>4. CASE g = 3
        BY <2>3, <3>4 DEF SampledAt
      <3> QED
        BY <3>1, <3>2, <3>3, <3>4
    <2>6. ASSUME cpc[Meas] \in {"dump", "await", "close", "done"}
          PROVE  written = 1 .. SyncIters - 1
      <3>1. g = 3
        BY <2>2, <2>6 DEF InPhase, MeasPhase
      <3> QED
        BY <2>3, <3>1 DEF SampledAt
    <2> QED
      BY <2>5, <2>6 DEF SamplesExact
  <1> QED
    BY <1>1, WindowAlways, PTL

-----------------------------------------------------------------------------
(* The refinement of RequestWindow. *)

\* The response a thread takes answers a request it has posted.
LEMMA AnswerCounts ==
  ASSUME ClosedInv, NEW c \in ClientThreads, HandleRecv(c) \/ HandleLate(c)
  PROVE  crcnt[c] < Posted(c)
  <1> DEFINE h == HowMany(UnderWay(c), OfClient(c))
             n == Len(csq[c])
             s == cwc[c]
  <1>1. cpc[c] # "done" /\ s # <<>> /\ Head(s) = "recv"
    BY DEF HandleRecv, HandleLate
  <1>2. Base /\ FlowOf(c)
    BY <1>1 DEF ClosedInv, Flow
  <1>3. s \in Seq(Completions)
    BY <1>2 DEF Base, ClientSide
  <1>4. UnderWay(c)[<<"cwc", c>>] = s
    BY DEF UnderWay, Contents, PlacesOf
  <1>5. 1 \in DOMAIN s /\ s[1] = "recv"
    BY <1>1, <1>3
  <1>6. h >= 1
    BY <1>2, <1>4, <1>5, ResponseCounts
  <1>7. h \in Nat /\ n \in Nat /\ crcnt[c] \in Nat /\ Posted(c) \in Int
    BY <1>2, FlowCounts, CountTypes
  <1>8. h + crcnt[c] + n <= Posted(c)
    BY <1>2 DEF FlowOf
  <1> HIDE DEF h, n
  <1> QED
    BY <1>6, <1>7, <1>8

\* Before it posts a request there is room in its window.
LEMMA IssueGuard ==
  ASSUME WindowInv, NEW c \in ClientThreads, FillWindow(c) \/ Resend(c) \/ Dump(c)
  PROVE  Posted(c) - crcnt[c] < WindowOf(c)
  <1>1. /\ Base /\ Measured /\ WindowedAt(c, cpc[c], gate[c], Posted(c), crcnt[c])
        /\ InPhase(c, cpc[c], gate[c]) /\ gate[c] \in 0 .. 3
    BY DEF WindowInv, ClosedInv, Windowed, Base, Phases, ControlTypeOK
  <1>2. /\ crcnt[c] \in Nat /\ Posted(c) \in Int
    BY <1>1, CountTypes
  <1>3. CASE FillWindow(c)
    <2>1. Posted(c) < WindowOf(c) /\ crcnt[c] = 0
      BY <1>1, <1>3 DEF FillWindow, WindowedAt
    <2>2. Posted(c) - crcnt[c] = Posted(c)
      BY <1>2, <2>1
    <2> QED
      BY <2>1, <2>2
  <1>4. CASE Resend(c)
    BY <1>1, <1>4 DEF Resend, WindowedAt
  <1>5. CASE Dump(c)
    <2>1. cpc[c] = "dump"
      BY <1>5 DEF Dump
    <2>2. c = Meas /\ gate[c] = 3
      BY <1>1, <2>1 DEF InPhase, MeasPhase, LoadPhase
    <2>3. Posted(c) = crcnt[c]
      BY <1>1, <2>1, <2>2 DEF Measured, MeasuredAt
    <2>4. Posted(c) - crcnt[c] = 0 /\ WindowOf(c) = 1
      BY <1>2, <2>2, <2>3 DEF WindowOf
    <2> QED
      BY <2>4
  <1> QED
    BY <1>3, <1>4, <1>5

IssuedMap == [c \in ClientThreads |-> Posted(c)]
AnsweredMap == [c \in ClientThreads |-> crcnt[c]]
PresentMap == [c \in ClientThreads |-> cpc[c] # "done"]

LEMMA RefinesNext == WindowInv /\ [Next]_vars => [Abstract!Next]_(Abstract!vars)
  <1> SUFFICES ASSUME WindowInv, [Next]_vars
               PROVE  Abstract!Next \/ UNCHANGED <<IssuedMap, AnsweredMap, PresentMap>>
    BY DEF Abstract!vars, IssuedMap, AnsweredMap, PresentMap
  <1>0. ClosedInv /\ Base
    BY DEF WindowInv, ClosedInv
  <1>1. ASSUME \A d \in ClientThreads : /\ Posted(d)' = Posted(d) /\ crcnt'[d] = crcnt[d]
                                        /\ (cpc'[d] # "done") = (cpc[d] # "done")
        PROVE  UNCHANGED <<IssuedMap, AnsweredMap, PresentMap>>
    BY <1>1 DEF IssuedMap, AnsweredMap, PresentMap
  <1>2. CASE Network \/ UNCHANGED clientVars \/ UNCHANGED vars
    BY <1>1, <1>2, NobodyMoves DEF OwnStill
  <1>3. ASSUME NEW c \in ClientThreads, ClientThread(c)
        PROVE  Abstract!Next \/ UNCHANGED <<IssuedMap, AnsweredMap, PresentMap>>
    <2>1. \A d \in ClientThreads \ {c} : /\ Posted(d)' = Posted(d) /\ crcnt'[d] = crcnt[d]
                                         /\ cpc'[d] = cpc[d]
      BY <1>0, <1>3, OthersStill DEF OwnStill
    <2>2. cpc[c] # "done"
      BY <1>3 DEF ClientThread, EnterBarrier, LeaveBarrier, PostReceives, FillWindow, LoopTest,
                  PollLoop, HandleSend, HandleRecv, Resend, HandleLate, Finish, DrainPoll,
                  Publish, Dump, Close, Handling
    <2>3. ASSUME NEW m, NEW g, NEW x, NEW y, Moves(c, m, g, Posted(c), crcnt[c], x, y), m # "done"
          PROVE  UNCHANGED <<IssuedMap, AnsweredMap, PresentMap>>
      BY <1>1, <2>1, <2>2, <2>3 DEF Moves
    <2>4. CASE EnterBarrier(c) \/ LeaveBarrier(c) \/ PostReceives(c) \/ LoopTest(c)
      <3>1. AfterLoop(c) # "done"
        BY DEF AfterLoop
      <3>2. LeaveBarrier(c) => AfterBarrier(c) # "done"
        <4>1. LeaveBarrier(c) => gate[c] \in 1 .. 3
          BY <1>0 DEF LeaveBarrier, Base, Phases, ControlTypeOK, InPhase
        <4> QED
          BY <4>1 DEF AfterBarrier
      <3>3. (IF LoopOver(c) THEN AfterLoop(c) ELSE "poll") # "done"
        BY <3>1
      <3> QED
        BY <1>0, <2>3, <2>4, <3>2, <3>3, QuietMoves
    <2>5. CASE Finish(c) \/ Publish(c) \/ PollLoop(c)
      BY <1>0, <2>3, <2>5, QuietMoves
    <2>6. CASE DrainPoll(c)
      <3>1. PICK w : \E l \in {"drain", "drainHandle"} :
                       Moves(c, l, gate[c], Posted(c), crcnt[c], cscnt[c], w)
        BY <1>0, <2>6, QuietMoves
      <3>2. PICK l \in {"drain", "drainHandle"} :
                       Moves(c, l, gate[c], Posted(c), crcnt[c], cscnt[c], w)
        BY <3>1
      <3> QED
        BY <2>3, <3>2
    <2>7. CASE HandleSend(c)
      <3>1. Onward(c, Tail(cwc[c]), crcnt[c]) # "done"
        BY <2>7 DEF HandleSend, Handling, Onward
      <3> QED
        BY <1>0, <2>3, <2>7, <3>1, HandleMoves
    <2>8. CASE FillWindow(c) \/ Resend(c) \/ Dump(c)
      <3>1. PICK p \in {Posted(c), Posted(c) + 1} : \E m \in ClientLocations \ {"done"} :
              Moves(c, m, gate[c], p, crcnt[c], cscnt[c], cwc[c])
        <4>1. /\ (IF WindowSent(c) THEN "loop" ELSE "send") \in ClientLocations \ {"done"}
              /\ (IF cwc[c] = <<>> THEN "loop" ELSE "handle") \in ClientLocations \ {"done"}
              /\ "await" \in ClientLocations \ {"done"}
          BY DEF ClientLocations, Handling
        <4> QED
          BY <1>0, <2>8, <4>1, PostMoves
      <3>2. PICK m \in ClientLocations \ {"done"} :
              Moves(c, m, gate[c], p, crcnt[c], cscnt[c], cwc[c])
        BY <3>1
      <3>3. CASE p = Posted(c)
        BY <2>3, <3>2, <3>3
      <3>4. CASE p = Posted(c) + 1
        <4>1. /\ Posted(c)' = Posted(c) + 1 /\ crcnt'[c] = crcnt[c] /\ cpc'[c] # "done"
          BY <3>2, <3>4 DEF Moves
        <4>2. IssuedMap' = [IssuedMap EXCEPT ![c] = @ + 1]
          BY <2>1, <4>1 DEF IssuedMap
        <4>3. UNCHANGED <<AnsweredMap, PresentMap>>
          BY <2>1, <2>2, <4>1 DEF AnsweredMap, PresentMap
        <4>4. Posted(c) - crcnt[c] < WindowOf(c)
          BY <2>8, IssueGuard
        <4>5. Abstract!Issue(c)
          BY <2>2, <4>2, <4>3, <4>4 DEF Abstract!Issue, IssuedMap, AnsweredMap, PresentMap
        <4> QED
          BY <4>5 DEF Abstract!Next
      <3> QED
        BY <3>1, <3>3, <3>4
    <2>9. CASE HandleRecv(c) \/ HandleLate(c)
      <3>1. Onward(c, Tail(cwc[c]), crcnt[c] + 1) # "done"
        BY <2>9 DEF HandleRecv, HandleLate, Handling, Onward
      <3>2. Posted(c)' = Posted(c) /\ crcnt'[c] = crcnt[c] + 1 /\ cpc'[c] # "done"
        BY <1>0, <2>9, <3>1, HandleMoves DEF Moves
      <3>3. AnsweredMap' = [AnsweredMap EXCEPT ![c] = @ + 1]
        BY <2>1, <3>2 DEF AnsweredMap
      <3>4. UNCHANGED <<IssuedMap, PresentMap>>
        BY <2>1, <2>2, <3>2 DEF IssuedMap, PresentMap
      <3>5. crcnt[c] < Posted(c)
        BY <1>0, <2>9, AnswerCounts
      <3>6. Abstract!Answer(c)
        BY <2>2, <3>3, <3>4, <3>5 DEF Abstract!Answer, IssuedMap, AnsweredMap, PresentMap
      <3> QED
        BY <3>6 DEF Abstract!Next
    <2>10. CASE Close(c)
      <3>1. Posted(c)' = Posted(c) /\ crcnt'[c] = crcnt[c] /\ cpc'[c] = "done"
        BY <1>0, <2>10, QuietMoves DEF Moves
      <3>2. PresentMap' = [PresentMap EXCEPT ![c] = FALSE]
        BY <2>1, <3>1 DEF PresentMap
      <3>3. UNCHANGED <<IssuedMap, AnsweredMap>>
        BY <2>1, <3>1 DEF IssuedMap, AnsweredMap
      <3>4. Abstract!Leave(c)
        BY <2>2, <3>2, <3>3 DEF Abstract!Leave, IssuedMap, AnsweredMap, PresentMap
      <3> QED
        BY <3>4 DEF Abstract!Next
    <2> QED
      BY <1>3, <2>4, <2>5, <2>6, <2>7, <2>8, <2>9, <2>10 DEF ClientThread
  <1> QED
    BY <1>2, <1>3 DEF Next

LEMMA RefinesInit == Init => Abstract!Init
  <1> SUFFICES ASSUME Init
               PROVE  Abstract!Init
    OBVIOUS
  <1>1. \A c \in ClientThreads : Posted(c) = 0 /\ crcnt[c] = 0 /\ cpc[c] # "done"
    BY DEF Init, ClientInit, Posted
  <1> QED
    BY <1>1 DEF Abstract!Init

\* The client, the network and the server together are a window of requests per client
\* thread: a thread issues a request only with fewer than its window unanswered, and
\* takes a response only for a request it issued, whatever the sizes of the windows, of
\* the server and of its queues, and whatever is dropped on the way.  (That requests do
\* not stay unanswered is liveness, and left to model checking.)
THEOREM WindowRefined == Spec => Abstract!Init /\ [][Abstract!Next]_(Abstract!vars)
  BY RefinesInit, RefinesNext, WindowAlways, PTL DEF Spec

-----------------------------------------------------------------------------
(* Round robin.  The mask is the remainder when the number of queues is a power of *)
(* two, and then the requests go round the queues evenly if none is refused.       *)

\* Every divisor of n but 1 is even.
PowerOfTwo(n) == \A d, e \in 1 .. n : n = d * e => d = 1 \/ d % 2 = 0

\* A power of two other than 1 is twice a power of two.
LEMMA PowerHalved ==
  ASSUME NEW n \in Nat, n > 1, PowerOfTwo(n)
  PROVE  \E m \in Nat : m >= 1 /\ n = 2 * m /\ PowerOfTwo(m)
  <1>1. n % 2 = 0
    <2>1. n \in 1 .. n /\ 1 \in 1 .. n /\ n = n * 1
      OBVIOUS
    <2>2. n = 1 \/ n % 2 = 0
      BY <2>1 DEF PowerOfTwo
    <2> QED
      BY <2>2
  <1> DEFINE m == n \div 2
  <1>2. m \in Nat /\ n = 2 * m + (n % 2)
    BY Halves
  <1>3. m \in Nat /\ n = 2 * m
    BY <1>1, <1>2
  <1> HIDE DEF m
  <1>4. m >= 1
    BY <1>3
  <1>5. ASSUME NEW d \in 1 .. m, NEW e \in 1 .. m, m = d * e
        PROVE  d = 1 \/ d % 2 = 0
    <2> DEFINE f == 2 * e
    <2>1. d \in Nat /\ e \in Nat /\ f \in Nat
      BY <1>3
    <2>2. d * f = 2 * (d * e)
      BY <2>1
    <2>3. n = d * f
      BY <1>3, <1>5, <2>2
    <2>4. d \in 1 .. n /\ f \in 1 .. n
      BY <1>3, <1>4
    <2> HIDE DEF f
    <2> QED
      BY <2>3, <2>4 DEF PowerOfTwo
  <1> QED
    BY <1>3, <1>4, <1>5 DEF PowerOfTwo

\* The mask n - 1 keeps a number below n and takes n to 0.
Wraps(n) == \A b \in 0 .. n : And[n - 1][b] = IF b = n THEN 0 ELSE b

LEMMA MaskWraps ==
  \A n \in 1 .. NumQueues : PowerOfTwo(n) => Wraps(n)
  <1>0. NumQueues \in Nat
    BY VerbsAssumption
  <1> DEFINE Bad == {n \in 1 .. NumQueues : PowerOfTwo(n) /\ ~Wraps(n)}
  <1> SUFFICES ASSUME Bad # {}
               PROVE  FALSE
    OBVIOUS
  <1>1. PICK n \in Bad : \A k \in Bad : n <= k
    <2>1. Bad \subseteq Nat
      BY <1>0
    <2> HIDE DEF Bad
    <2> QED
      BY <2>1, LeastElement
  <1>2. n \in 1 .. NumQueues /\ n \in Nat /\ PowerOfTwo(n) /\ ~Wraps(n)
    BY <1>0
  <1>3. CASE n = 1
    <2>1. And[0] = AndRow(And, 0)
      BY <1>0, AndDefined
    <2>2. \A b \in 0 .. NumQueues : And[0][b] = 0
      BY <2>1 DEF AndRow
    <2>3. And[1 - 1][0] = 0 /\ And[1 - 1][1] = 0
      BY <1>0, <1>2, <1>3, <2>2
    <2>4. \A b \in 0 .. 1 : b = 0 \/ b = 1
      OBVIOUS
    <2>5. Wraps(1)
      BY <2>3, <2>4 DEF Wraps
    <2> QED
      BY <1>2, <1>3, <2>5
  <1>4. CASE n # 1
    <2>1. n > 1
      BY <1>2, <1>4
    <2>2. PICK m \in Nat : m >= 1 /\ n = 2 * m /\ PowerOfTwo(m)
      BY <1>2, <2>1, PowerHalved
    <2>3. m < n /\ m \in 1 .. NumQueues
      BY <1>0, <1>2, <2>2
    <2>4. Wraps(m)
      <3>1. ~(n <= m)
        BY <1>2, <2>3
      <3>2. m \notin Bad
        BY <1>1, <3>1
      <3> QED
        BY <2>2, <2>3, <3>2
    <2>5. n - 1 \in 0 .. NumQueues /\ n - 1 \in Nat /\ n - 1 # 0
      BY <1>0, <1>2, <2>1
    <2>6. (n - 1) \div 2 = m - 1 /\ (n - 1) % 2 = 1
      <3> DEFINE h == (n - 1) \div 2
                 r == (n - 1) % 2
      <3>1. h \in Nat /\ r \in {0, 1} /\ n - 1 = 2 * h + r
        BY <2>5, Halves
      <3> HIDE DEF h, r
      <3>2. 2 * m - 1 = 2 * h + r
        BY <2>2, <3>1
      <3>3. r = 1 /\ h = m - 1
        BY <2>2, <3>1, <3>2
      <3> QED
        BY <3>3 DEF h, r
    <2>7. And[n - 1] = AndRow(And, n - 1)
      BY <2>5, AndDefined
    <2>8. ASSUME NEW b \in 0 .. n
          PROVE  And[n - 1][b] = IF b = n THEN 0 ELSE b
      <3> DEFINE k == b \div 2
                 r == b % 2
      <3>1. b \in Nat /\ b \in 0 .. NumQueues
        BY <1>0, <1>2
      <3>2. k \in Nat /\ r \in {0, 1} /\ b = 2 * k + r
        BY <3>1, Halves
      <3>3. And[n - 1][b] = 2 * And[(n - 1) \div 2][b \div 2] + ((n - 1) % 2) * (b % 2)
        BY <2>5, <2>7, <3>1 DEF AndRow
      <3>4. And[n - 1][b] = 2 * And[m - 1][k] + 1 * r
        BY <2>6, <3>3
      <3> HIDE DEF k, r
      <3>5. k \in 0 .. m /\ (b = n <=> k = m) /\ (k = m => r = 0)
        BY <1>2, <2>2, <3>1, <3>2
      <3>6. And[m - 1][k] = IF k = m THEN 0 ELSE k
        BY <2>4, <3>5 DEF Wraps
      <3>7. CASE k = m
        BY <3>4, <3>5, <3>6, <3>7
      <3>8. CASE k # m
        <4>1. And[n - 1][b] = 2 * k + 1 * r
          BY <3>4, <3>6, <3>8
        <4> QED
          BY <3>2, <3>5, <3>8, <4>1
      <3> QED
        BY <3>7, <3>8
    <2>9. Wraps(n)
      BY <2>8 DEF Wraps
    <2> QED
      BY <1>2, <2>9
  <1> QED
    BY <1>3, <1>4

\* offset = ((SERVER_THREADS-1) & (offset+1)) is the next queue, round.
LEMMA NextQueueRound ==
  ASSUME PowerOfTwo(NumQueues), NEW o \in Queues
  PROVE  NextQueue(o) = IF o = NumQueues - 1 THEN 0 ELSE o + 1
  <1>1. NumQueues \in Nat \ {0}
    BY VerbsAssumption
  <1>2. Wraps(NumQueues)
    BY <1>1, MaskWraps
  <1>3. o + 1 \in 0 .. NumQueues /\ (o + 1 = NumQueues <=> o = NumQueues - 1)
    BY <1>1 DEF Queues
  <1>4. And[NumQueues - 1][o + 1] = IF o + 1 = NumQueues THEN 0 ELSE o + 1
    BY <1>2, <1>3 DEF Wraps
  <1> QED
    BY <1>3, <1>4 DEF NextQueue

-----------------------------------------------------------------------------
(* No send is refused.  A send completes before the server can answer it, and the     *)
(* thread handles completions in their order: wherever it stops, the responses it has *)
(* taken are no more than the sends whose completion it has handled.                  *)

\* The completions of a thread in the order it handles them: those polled, those to come.
Stream(w, u) == [j \in 1 .. Len(w) + Len(u) |-> IF j <= Len(w) THEN w[j] ELSE u[j - Len(w)]]
StreamLen(w, u) == Len(w) + Len(u)

\* Those of kind k among the first i.
Kind(s, i, k) == {j \in 1 .. i : s[j] = k}
Number(s, i, k) == Cardinality(Kind(s, i, k))

\* With r responses taken and a sends completed, of n completions in s.
PromptAt(s, n, r, a) ==
  \A i \in 0 .. n : r + Number(s, i, "recv") <= a + Number(s, i, "send")

Prompt ==
  \A c \in ClientThreads : cpc[c] # "done" =>
    PromptAt(Stream(cwc[c], ccq[c]), StreamLen(cwc[c], ccq[c]), crcnt[c], cscnt[c])

LEMMA StreamLenNat ==
  \A w, u \in Seq(Completions) : StreamLen(w, u) \in Nat
  BY DEF StreamLen

LEMMA KindFinite ==
  ASSUME NEW s, NEW i \in Nat, NEW k
  PROVE  IsFiniteSet(Kind(s, i, k)) /\ Number(s, i, k) \in Nat
  <1>1. IsFiniteSet(1 .. i)
    BY FS_Interval
  <1>2. Kind(s, i, k) \subseteq 1 .. i
    BY DEF Kind
  <1>3. IsFiniteSet(Kind(s, i, k))
    BY <1>1, <1>2, FS_Subset
  <1> QED
    BY <1>3, FS_CardinalityType DEF Number

LEMMA NumberSame ==
  ASSUME NEW s, NEW u, NEW i \in Nat, NEW k, \A j \in 1 .. i : u[j] = s[j]
  PROVE  Number(u, i, k) = Number(s, i, k)
  <1>1. Kind(u, i, k) = Kind(s, i, k)
    BY DEF Kind
  <1> QED
    BY <1>1 DEF Number

\* u is s without its first element.
LEMMA NumberTail ==
  ASSUME NEW s, NEW u, NEW i \in Nat, NEW k, \A j \in 1 .. i : u[j] = s[j + 1]
  PROVE  Number(s, i + 1, k) = Number(u, i, k) + (IF s[1] = k THEN 1 ELSE 0)
  <1> DEFINE A == Kind(u, i, k)
             B == Kind(s, i + 1, k) \ {1}
             f == [j \in A |-> j + 1]
  <1>1. IsFiniteSet(A) /\ Number(u, i, k) \in Nat /\ IsFiniteSet(Kind(s, i + 1, k))
    BY KindFinite
  <1>2. \A j \in A : j \in 1 .. i /\ j + 1 \in B
    BY DEF Kind
  <1>3. \A m \in B : m - 1 \in A /\ m \in Int
    <2> TAKE m \in B
    <2>1. m \in 1 .. i + 1 /\ m # 1 /\ s[m] = k
      BY DEF Kind
    <2>2. m - 1 \in 1 .. i /\ (m - 1) + 1 = m
      BY <2>1
    <2>3. u[m - 1] = s[m]
      BY <2>2
    <2> QED
      BY <2>1, <2>2, <2>3 DEF Kind
  <1>4. f \in [A -> B]
    BY <1>2
  <1>5. A \subseteq Int
    BY <1>2
  <1> HIDE DEF A, B
  <1>6. \A y, z \in A : f[y] = f[z] => y = z
    <2> TAKE y, z \in A
    <2>1. f[y] = y + 1 /\ f[z] = z + 1 /\ y \in Int /\ z \in Int
      BY <1>5
    <2> HIDE DEF f
    <2> QED
      BY <2>1
  <1>7. \A m \in B : \E y \in A : f[y] = m
    <2> TAKE m \in B
    <2>1. m - 1 \in A /\ f[m - 1] = (m - 1) + 1 /\ (m - 1) + 1 = m
      BY <1>3
    <2> QED
      BY <2>1
  <1> HIDE DEF f
  <1>8. IsFiniteSet(B) /\ Cardinality(B) = Cardinality(A)
    BY <1>1, <1>4, <1>6, <1>7, EntriesRenamed
  <1>9. CASE s[1] = k
    <2>1. 1 \notin B /\ Kind(s, i + 1, k) = B \cup {1}
      BY <1>9 DEF B, Kind
    <2>2. Cardinality(B \cup {1}) = Cardinality(B) + 1
      BY <1>8, <2>1, FS_AddElement
    <2> QED
      BY <1>8, <1>9, <2>1, <2>2 DEF Number, A
  <1>10. CASE s[1] # k
    <2>1. Kind(s, i + 1, k) = B
      BY <1>10 DEF B, Kind
    <2>2. Number(s, i + 1, k) = Number(u, i, k)
      BY <1>8, <2>1 DEF Number, A
    <2> QED
      BY <1>1, <1>10, <2>2
  <1> QED
    BY <1>9, <1>10

\* The three things that happen to a stream.
LEMMA PromptKept ==
  ASSUME NEW s, NEW u, NEW n \in Nat, NEW r \in Nat, NEW a \in Nat, PromptAt(s, n, r, a),
         \A j \in 1 .. n : u[j] = s[j]
  PROVE  PromptAt(u, n, r, a)
  <1> SUFFICES ASSUME NEW i \in 0 .. n
               PROVE  r + Number(u, i, "recv") <= a + Number(u, i, "send")
    BY DEF PromptAt
  <1>1. i \in Nat /\ \A j \in 1 .. i : u[j] = s[j]
    OBVIOUS
  <1>2. Number(u, i, "recv") = Number(s, i, "recv") /\ Number(u, i, "send") = Number(s, i, "send")
    BY <1>1, NumberSame
  <1> QED
    BY <1>2 DEF PromptAt

LEMMA PromptAppended ==
  ASSUME NEW s, NEW u, NEW n \in Nat, NEW r \in Nat, NEW a \in Nat, PromptAt(s, n, r, a),
         \A j \in 1 .. n : u[j] = s[j],
         r + Number(u, n + 1, "recv") <= a + Number(u, n + 1, "send")
  PROVE  PromptAt(u, n + 1, r, a)
  <1>1. PromptAt(u, n, r, a)
    BY PromptKept
  <1>2. \A i \in 0 .. n + 1 : i \in 0 .. n \/ i = n + 1
    OBVIOUS
  <1> QED
    BY <1>1, <1>2 DEF PromptAt

LEMMA PromptHandled ==
  ASSUME NEW s, NEW u, NEW n \in Nat, NEW r \in Nat, NEW a \in Nat, PromptAt(s, n + 1, r, a),
         \A j \in 1 .. n : u[j] = s[j + 1]
  PROVE  PromptAt(u, n, r + (IF s[1] = "recv" THEN 1 ELSE 0), a + (IF s[1] = "send" THEN 1 ELSE 0))
  <1> DEFINE x == IF s[1] = "recv" THEN 1 ELSE 0
             y == IF s[1] = "send" THEN 1 ELSE 0
  <1> SUFFICES ASSUME NEW i \in 0 .. n
               PROVE  (r + x) + Number(u, i, "recv") <= (a + y) + Number(u, i, "send")
    BY DEF PromptAt
  <1>1. i \in Nat /\ i + 1 \in 0 .. n + 1 /\ \A j \in 1 .. i : u[j] = s[j + 1]
    OBVIOUS
  <1>2. Number(u, i, "recv") \in Nat /\ Number(u, i, "send") \in Nat
    BY <1>1, KindFinite
  <1>3. ASSUME NEW k
        PROVE  Number(s, i + 1, k) = Number(u, i, k) + (IF s[1] = k THEN 1 ELSE 0)
    <2>1. \A j \in 1 .. i : u[j] = s[j + 1]
      BY <1>1
    <2> QED
      BY <1>1, <2>1, NumberTail
  <1>4. /\ Number(s, i + 1, "recv") = Number(u, i, "recv") + x
        /\ Number(s, i + 1, "send") = Number(u, i, "send") + y
    BY <1>3
  <1>5. r + Number(s, i + 1, "recv") <= a + Number(s, i + 1, "send")
    BY <1>1 DEF PromptAt
  <1>6. x \in Nat /\ y \in Nat
    OBVIOUS
  <1> HIDE DEF x, y
  <1> QED
    BY <1>2, <1>4, <1>5, <1>6

\* Streams of a family of queues: the places of L hold w and u.
LEMMA WholeStream ==
  ASSUME NEW c, NEW L, DOMAIN L = PlacesOf(c), NEW w \in Seq(Completions), NEW u \in Seq(Completions),
         L[<<"cwc", c>>] = w, L[<<"ccq", c>>] = u,
         IsFiniteSet(EntriesIn(L, OfClient(c))), IsFiniteSet(EntriesIn(L, SendsOf(c)))
  PROVE  /\ Number(Stream(w, u), StreamLen(w, u), "recv") <= HowMany(L, OfClient(c))
         /\ HowMany(L, SendsOf(c)) <= Number(Stream(w, u), StreamLen(w, u), "send")
  <1> DEFINE s == Stream(w, u)
             m == Len(w)
             n == StreamLen(w, u)
             R == Kind(s, n, "recv")
             S == Kind(s, n, "send")
             A == EntriesIn(L, OfClient(c))
             B == EntriesIn(L, SendsOf(c))
  <1>1. m \in Nat /\ Len(u) \in Nat /\ n = m + Len(u) /\ n \in Nat
    BY DEF StreamLen
  <1>2. /\ DOMAIN w = 1 .. m /\ DOMAIN u = 1 .. Len(u)
        /\ \A j \in 1 .. m : s[j] = w[j]
        /\ \A j \in 1 .. Len(u) : s[j + m] = u[j]
    <2>1. DOMAIN w = 1 .. m /\ DOMAIN u = 1 .. Len(u)
      OBVIOUS
    <2>2. \A j \in 1 .. m : j \in 1 .. m + Len(u) /\ j <= m
      BY <1>1
    <2>3. \A j \in 1 .. Len(u) : j + m \in 1 .. m + Len(u) /\ ~(j + m <= m) /\ (j + m) - m = j
      BY <1>1
    <2> QED
      BY <2>1, <2>2, <2>3 DEF Stream
  <1>3. \A j \in 1 .. n : j \in 1 .. m \/ (j - m \in 1 .. Len(u) /\ ~(j <= m) /\ (j - m) + m = j)
    BY <1>1
  <1>4. /\ <<"cwc", c>> \in DOMAIN L /\ <<"ccq", c>> \in DOMAIN L
        /\ <<"cwc", c>> # <<"ccq", c>>
    BY DEF PlacesOf
  <1>5. /\ OfClient(c)[<<"ccq", c>>] = {"recv"} /\ OfClient(c)[<<"cwc", c>>] = {"recv"}
        /\ SendsOf(c)[<<"ccq", c>>] = {"send"} /\ SendsOf(c)[<<"cwc", c>>] = {"send"}
    BY CountedAt
  <1>6. IsFiniteSet(R) /\ IsFiniteSet(S) /\ Cardinality(R) \in Nat /\ Cardinality(S) \in Nat
    BY <1>1, KindFinite DEF Number
  <1> HIDE DEF s, n, m
  <1>7. Cardinality(R) <= Cardinality(A)
    <2> DEFINE f == [j \in R |-> IF j <= m THEN <<<<"cwc", c>>, j>> ELSE <<<<"ccq", c>>, j - m>>]
    <2>1. ASSUME NEW j \in R
          PROVE  f[j] \in A
      <3>1. j \in 1 .. n /\ s[j] = "recv" /\ j \in Int
        BY <1>1 DEF Kind
      <3>2. CASE j \in 1 .. m
        <4>1. j \in DOMAIN L[<<"cwc", c>>] /\ L[<<"cwc", c>>][j] = "recv"
          BY <1>2, <3>1, <3>2
        <4>2. <<<<"cwc", c>>, j>> \in A
          BY <1>4, <1>5, <4>1, EntryIn
        <4>3. j <= m
          BY <1>1, <3>2
        <4> QED
          BY <4>2, <4>3
      <3>3. CASE j - m \in 1 .. Len(u) /\ ~(j <= m) /\ (j - m) + m = j
        <4> DEFINE i == j - m
        <4>1. i \in DOMAIN L[<<"ccq", c>>] /\ L[<<"ccq", c>>][i] = "recv"
          BY <1>2, <3>1, <3>3
        <4> HIDE DEF i
        <4>2. <<<<"ccq", c>>, i>> \in A
          BY <1>4, <1>5, <4>1, EntryIn
        <4> QED
          BY <4>2, <3>3 DEF i
      <3> QED
        BY <1>3, <3>1, <3>2, <3>3
    <2>2. ASSUME NEW j \in R, NEW k \in R, f[j] = f[k]
          PROVE  j = k
      <3>1. j \in Int /\ k \in Int /\ m \in Int
        BY <1>1 DEF Kind
      <3>2. CASE j <= m /\ k <= m
        BY <2>2, <3>2
      <3>3. CASE ~(j <= m) /\ ~(k <= m)
        <4>1. j - m = k - m
          BY <2>2, <3>3
        <4> QED
          BY <3>1, <4>1
      <3>4. CASE (j <= m) # (k <= m)
        <4>1. f[j][1] = f[k][1]
          BY <2>2
        <4> QED
          BY <1>4, <3>4, <4>1
      <3> QED
        BY <3>2, <3>3, <3>4
    <2>3. f \in [R -> A]
      BY <2>1
    <2> HIDE DEF f, R, A
    <2>4. f \in Injection(R, A)
      BY <2>2, <2>3 DEF Injection, IsInjective
    <2>5. IsFiniteSet(A)
      BY DEF A
    <2> QED
      BY <2>4, <2>5, FS_Injection
  <1>8. Cardinality(B) <= Cardinality(S)
    <2> DEFINE g == [y \in B |-> IF y[1] = <<"cwc", c>> THEN y[2] ELSE y[2] + m]
    <2>1. ASSUME NEW y \in B
          PROVE  \/ /\ y = <<<<"cwc", c>>, y[2]>> /\ y[2] \in 1 .. m /\ s[y[2]] = "send"
                 \/ /\ y = <<<<"ccq", c>>, y[2]>> /\ y[2] \in 1 .. Len(u) /\ s[y[2] + m] = "send"
      <3>1. PICK x \in DOMAIN L : \E i \in DOMAIN L[x] : y = <<x, i>> /\ L[x][i] \in SendsOf(c)[x]
        BY EntryShape
      <3>2. PICK i \in DOMAIN L[x] : y = <<x, i>> /\ L[x][i] \in SendsOf(c)[x]
        BY <3>1
      <3>3. x \in PlacesOf(c) /\ SendsOf(c)[x] # {}
        BY <3>2
      <3>4. x[1] \in {"ccq", "cwc"}
        BY <3>3 DEF SendsOf
      <3>5. x = <<"cwc", c>> \/ x = <<"ccq", c>>
        BY <3>3, <3>4 DEF PlacesOf
      <3>6. CASE x = <<"cwc", c>>
        BY <1>2, <1>5, <3>2, <3>6
      <3>7. CASE x = <<"ccq", c>>
        BY <1>2, <1>5, <3>2, <3>7
      <3> QED
        BY <3>5, <3>6, <3>7
    <2>2. ASSUME NEW y \in B
          PROVE  g[y] \in S
      <3>1. CASE y = <<<<"cwc", c>>, y[2]>> /\ y[2] \in 1 .. m /\ s[y[2]] = "send"
        <4>1. g[y] = y[2]
          <5>1. y[1] = <<"cwc", c>>
            BY <3>1
          <5> QED
            BY <5>1
        <4>2. y[2] \in 1 .. n
          BY <1>1, <3>1
        <4> QED
          BY <3>1, <4>1, <4>2 DEF Kind
      <3>2. CASE y = <<<<"ccq", c>>, y[2]>> /\ y[2] \in 1 .. Len(u) /\ s[y[2] + m] = "send"
        <4>1. g[y] = y[2] + m
          <5>1. y[1] = <<"ccq", c>>
            BY <3>2
          <5> QED
            BY <1>4, <5>1
        <4>2. y[2] + m \in 1 .. n
          BY <1>1, <3>2
        <4> QED
          BY <3>2, <4>1, <4>2 DEF Kind
      <3> QED
        BY <2>1, <3>1, <3>2
    <2>3. ASSUME NEW y \in B, NEW z \in B, g[y] = g[z]
          PROVE  y = z
      <3> DEFINE P(v) == v[1] = <<"cwc", c>> /\ v = <<v[1], v[2]>> /\ v[2] \in 1 .. m /\ g[v] = v[2]
                 Q(v) == /\ v[1] = <<"ccq", c>> /\ v = <<v[1], v[2]>> /\ v[2] \in 1 .. Len(u)
                         /\ g[v] = v[2] + m
      <3>1. \A v \in B : P(v) \/ Q(v)
        <4> TAKE v \in B
        <4>1. CASE v = <<<<"cwc", c>>, v[2]>> /\ v[2] \in 1 .. m
          <5>1. v[1] = <<"cwc", c>>
            BY <4>1
          <5> QED
            BY <4>1, <5>1
        <4>2. CASE v = <<<<"ccq", c>>, v[2]>> /\ v[2] \in 1 .. Len(u)
          <5>1. v[1] = <<"ccq", c>>
            BY <4>2
          <5> QED
            BY <1>4, <4>2, <5>1
        <4> QED
          BY <2>1, <4>1, <4>2
      <3> HIDE DEF g, B
      <3>2. CASE P(y) /\ P(z)
        BY <2>3, <3>2
      <3>3. CASE Q(y) /\ Q(z)
        <4>1. y[2] + m = z[2] + m
          BY <2>3, <3>3
        <4>2. y[2] \in 1 .. Len(u) /\ z[2] \in 1 .. Len(u)
          BY <3>3
        <4>3. \A i, j \in 1 .. Len(u) : i + m = j + m => i = j
          BY <1>1
        <4>4. y[2] = z[2]
          BY <4>1, <4>2, <4>3
        <4> QED
          BY <3>3, <4>4
      <3>4. ASSUME NEW v, NEW x, P(v), Q(x), g[v] = g[x]
            PROVE  FALSE
        <4>1. v[2] \in 1 .. m /\ x[2] \in 1 .. Len(u) /\ v[2] = x[2] + m
          BY <3>4
        <4> QED
          BY <1>1, <4>1
      <3> QED
        BY <2>3, <3>1, <3>2, <3>3, <3>4
    <2>4. g \in [B -> S]
      BY <2>2
    <2> HIDE DEF g, S, B
    <2>5. g \in Injection(B, S)
      BY <2>3, <2>4 DEF Injection, IsInjective
    <2>6. IsFiniteSet(S)
      BY <1>6 DEF S
    <2> QED
      BY <2>5, <2>6, FS_Injection
  <1> QED
    BY <1>7, <1>8 DEF HowMany, Number, s, n

\* A poll moves completions from one part of the stream to the other.
LEMMA StreamPolled ==
  ASSUME NEW u \in Seq(Completions), NEW n \in 0 .. Len(u)
  PROVE  LET w == SubSeq(u, 1, n)
             v == SubSeq(u, n + 1, Len(u))
         IN  /\ StreamLen(w, v) = StreamLen(<<>>, u)
             /\ \A j \in 1 .. Len(u) : Stream(w, v)[j] = Stream(<<>>, u)[j]
  <1> DEFINE w == SubSeq(u, 1, n)
             v == SubSeq(u, n + 1, Len(u))
             m == Len(u)
             z == <<>>
  <1>1. m \in Nat /\ n \in Nat /\ n <= m
    OBVIOUS
  <1>2. Len(w) = n /\ Len(v) = m - n
    BY <1>1, SubSeqProperties
  <1>3. \A j \in 1 .. n : w[j] = u[j]
    BY <1>1, SubSeqProperties
  <1>4. \A j \in 1 .. m - n : v[j] = u[n + j]
    BY <1>1, SubSeqProperties
  <1>5. Len(z) = 0
    OBVIOUS
  <1> HIDE DEF w, v, z
  <1>6. StreamLen(w, v) = m /\ StreamLen(z, u) = m
    BY <1>1, <1>2, <1>5 DEF StreamLen
  <1>7. ASSUME NEW j \in 1 .. m
        PROVE  Stream(w, v)[j] = Stream(z, u)[j]
    <2>1. Stream(z, u)[j] = u[j]
      <3>1. j \in 1 .. Len(z) + Len(u) /\ ~(j <= Len(z)) /\ j - Len(z) = j
        BY <1>1, <1>5
      <3> QED
        BY <3>1 DEF Stream
    <2>2. j \in 1 .. Len(w) + Len(v)
      BY <1>1, <1>2
    <2>3. CASE j <= n
      <3>1. j \in 1 .. n /\ j <= Len(w)
        BY <1>1, <1>2, <2>3
      <3> QED
        BY <1>3, <2>1, <2>2, <3>1 DEF Stream
    <2>4. CASE ~(j <= n)
      <3>1. j - n \in 1 .. m - n /\ ~(j <= Len(w)) /\ n + (j - n) = j /\ j - Len(w) = j - n
        BY <1>1, <1>2, <2>4
      <3>2. v[j - n] = u[j]
        BY <1>4, <3>1
      <3> QED
        BY <2>1, <2>2, <3>1, <3>2 DEF Stream
    <2> QED
      BY <2>3, <2>4
  <1> QED
    BY <1>6, <1>7 DEF w, v, z

\* A new completion comes last.
LEMMA StreamAppended ==
  ASSUME NEW w \in Seq(Completions), NEW u \in Seq(Completions), NEW e \in Completions
  PROVE  /\ StreamLen(w, u) \in Nat /\ StreamLen(w, Append(u, e)) = StreamLen(w, u) + 1
         /\ \A j \in 1 .. StreamLen(w, u) : Stream(w, Append(u, e))[j] = Stream(w, u)[j]
  <1> DEFINE v == Append(u, e)
             m == Len(w)
             n == Len(u)
  <1>1. /\ m \in Nat /\ n \in Nat /\ v \in Seq(Completions) /\ Len(v) = n + 1
        /\ \A j \in 1 .. n : v[j] = u[j]
    BY AppendProperties
  <1> HIDE DEF v
  <1>2. StreamLen(w, u) = m + n /\ StreamLen(w, v) = (m + n) + 1
    BY <1>1 DEF StreamLen
  <1>3. ASSUME NEW j \in 1 .. m + n
        PROVE  Stream(w, v)[j] = Stream(w, u)[j]
    <2>1. j \in 1 .. Len(w) + Len(u) /\ j \in 1 .. Len(w) + Len(v)
      BY <1>1
    <2>2. CASE j <= m
      BY <2>1, <2>2 DEF Stream
    <2>3. CASE ~(j <= m)
      <3>1. j - m \in 1 .. n
        BY <1>1, <2>3
      <3>2. v[j - m] = u[j - m]
        BY <1>1, <3>1
      <3> QED
        BY <2>1, <2>3, <3>2 DEF Stream
    <2> QED
      BY <2>2, <2>3
  <1> QED
    BY <1>1, <1>2, <1>3 DEF v

\* The completion handled comes first.
LEMMA StreamHandled ==
  ASSUME NEW w \in Seq(Completions), NEW u \in Seq(Completions), w # <<>>
  PROVE  /\ StreamLen(Tail(w), u) \in Nat /\ StreamLen(w, u) = StreamLen(Tail(w), u) + 1
         /\ Stream(w, u)[1] = Head(w)
         /\ \A j \in 1 .. StreamLen(Tail(w), u) : Stream(Tail(w), u)[j] = Stream(w, u)[j + 1]
  <1> DEFINE v == Tail(w)
             m == Len(w)
             n == Len(u)
  <1>1. /\ m \in Nat \ {0} /\ n \in Nat /\ v \in Seq(Completions) /\ Len(v) = m - 1
        /\ \A j \in 1 .. m - 1 : v[j] = w[j + 1]
    BY TailProperties
  <1>2. Head(w) = w[1]
    OBVIOUS
  <1> HIDE DEF v
  <1>3. /\ StreamLen(v, u) = (m - 1) + n /\ StreamLen(w, u) = m + n
        /\ StreamLen(v, u) \in Nat /\ StreamLen(w, u) = StreamLen(v, u) + 1
    BY <1>1 DEF StreamLen
  <1>4. Stream(w, u)[1] = w[1]
    <2>1. 1 \in 1 .. Len(w) + Len(u) /\ 1 <= Len(w)
      BY <1>1
    <2> QED
      BY <2>1 DEF Stream
  <1>5. ASSUME NEW j \in 1 .. (m - 1) + n
        PROVE  Stream(v, u)[j] = Stream(w, u)[j + 1]
    <2>1. j \in 1 .. Len(v) + Len(u) /\ j + 1 \in 1 .. Len(w) + Len(u)
      BY <1>1
    <2>2. CASE j <= m - 1
      <3>1. j \in 1 .. m - 1 /\ j <= Len(v) /\ j + 1 <= Len(w)
        BY <1>1, <2>2
      <3> QED
        BY <1>1, <2>1, <3>1 DEF Stream
    <2>3. CASE ~(j <= m - 1)
      <3>1. ~(j <= Len(v)) /\ ~(j + 1 <= Len(w)) /\ j - Len(v) = (j + 1) - Len(w)
        BY <1>1, <2>3
      <3> QED
        BY <2>1, <3>1 DEF Stream
    <2> QED
      BY <2>2, <2>3
  <1> QED
    BY <1>2, <1>3, <1>4, <1>5 DEF v

\* At the end of the stream it is what Flow says: the responses not taken are at most
\* the requests transmitted and not answered.
LEMMA PromptWhole ==
  ASSUME Base', NEW d \in ClientThreads, FlowOf(d)'
  PROVE  LET n == StreamLen(cwc'[d], ccq'[d])
             s == Stream(cwc'[d], ccq'[d])
         IN  crcnt'[d] + Number(s, n, "recv") <= cscnt'[d] + Number(s, n, "send")
  <1> DEFINE n == StreamLen(cwc'[d], ccq'[d])
             s == Stream(cwc'[d], ccq'[d])
  <1>1. PICK L : L = UnderWay(d)'
    OBVIOUS
  <1>2. /\ DOMAIN L = PlacesOf(d)
        /\ L[<<"cwc", d>>] = cwc'[d] /\ L[<<"ccq", d>>] = ccq'[d]
    BY <1>1 DEF UnderWay, Contents, PlacesOf
  <1>3. /\ IsFiniteSet(EntriesIn(L, OfClient(d))) /\ IsFiniteSet(EntriesIn(L, SendsOf(d)))
        /\ HowMany(L, OfClient(d)) + crcnt'[d] + Len(csq'[d]) <= cscnt'[d] + souts'[d]
        /\ souts'[d] = Len(csq'[d]) + HowMany(L, SendsOf(d))
    BY <1>1 DEF FlowOf, Posted
  <1>4. /\ cwc'[d] \in Seq(Completions) /\ ccq'[d] \in Seq(Completions) /\ csq'[d] \in Seq(Queues)
        /\ souts'[d] \in Int /\ crcnt'[d] \in Nat /\ cscnt'[d] \in Nat
    BY DEF Base, Published, ClientSide
  <1>5. /\ Number(s, n, "recv") <= HowMany(L, OfClient(d))
        /\ HowMany(L, SendsOf(d)) <= Number(s, n, "send")
    BY <1>2, <1>3, <1>4, WholeStream
  <1>6. n \in Nat
    BY <1>4, StreamLenNat
  <1> DEFINE x == Number(s, n, "recv")
             y == Number(s, n, "send")
             h == HowMany(L, OfClient(d))
             g == HowMany(L, SendsOf(d))
             k == Len(csq'[d])
  <1>7. x \in Nat /\ y \in Nat
    BY <1>6, KindFinite
  <1>8. h \in Nat /\ g \in Nat
    BY <1>3, FS_CardinalityType DEF HowMany
  <1>9. k \in Nat
    BY <1>4
  <1>10. x <= h /\ g <= y /\ h + crcnt'[d] + k <= cscnt'[d] + souts'[d] /\ souts'[d] = k + g
    BY <1>3, <1>5
  <1> HIDE DEF x, y, h, g, k
  <1>11. crcnt'[d] + x <= cscnt'[d] + y
    <2>1. h + crcnt'[d] + k <= cscnt'[d] + (k + g)
      BY <1>10
    <2>2. h + crcnt'[d] <= cscnt'[d] + g
      BY <1>4, <1>8, <1>9, <2>1
    <2> QED
      BY <1>4, <1>7, <1>8, <1>10, <2>2
  <1> QED
    BY <1>11 DEF x, y, s, n

LEMMA PromptInit == Init => Prompt
  <1> SUFFICES ASSUME Init, NEW c \in ClientThreads
               PROVE  PromptAt(Stream(cwc[c], ccq[c]), StreamLen(cwc[c], ccq[c]), crcnt[c], cscnt[c])
    BY DEF Prompt
  <1>1. cwc[c] = <<>> /\ ccq[c] = <<>> /\ crcnt[c] = 0 /\ cscnt[c] = 0
    BY DEF Init, ClientInit
  <1> DEFINE z == <<>>
             s == Stream(z, z)
  <1>2. StreamLen(z, z) = 0
    BY DEF StreamLen
  <1>3. Number(s, 0, "recv") = 0 /\ Number(s, 0, "send") = 0
    <2>1. Kind(s, 0, "recv") = {} /\ Kind(s, 0, "send") = {}
      BY DEF Kind
    <2> QED
      BY <2>1, FS_EmptySet DEF Number
  <1> HIDE DEF z, s
  <1>4. PromptAt(s, 0, 0, 0)
    <2>1. \A i \in 0 .. 0 : i = 0
      OBVIOUS
    <2> QED
      BY <1>3, <2>1 DEF PromptAt
  <1> QED
    BY <1>1, <1>2, <1>4 DEF z, s

LEMMA PromptNext ==
  ASSUME ClosedInv, ClosedInv', Prompt, [Next]_vars
  PROVE  Prompt'
  <1> SUFFICES ASSUME NEW d \in ClientThreads, cpc'[d] # "done"
               PROVE  PromptAt(Stream(cwc'[d], ccq'[d]), StreamLen(cwc'[d], ccq'[d]),
                               crcnt'[d], cscnt'[d])
    BY DEF Prompt
  <1> DEFINE Goal == PromptAt(Stream(cwc'[d], ccq'[d]), StreamLen(cwc'[d], ccq'[d]),
                              crcnt'[d], cscnt'[d])
  <1>0. /\ Base /\ Base' /\ Phases /\ ServerSide /\ ClientSide
        /\ cwc \in [ClientThreads -> Seq(Completions)]
        /\ ccq \in [ClientThreads -> Seq(Completions)]
        /\ cwc[d] \in Seq(Completions) /\ ccq[d] \in Seq(Completions)
        /\ crcnt \in [ClientThreads -> Nat] /\ cscnt \in [ClientThreads -> Nat]
        /\ cpc \in [ClientThreads -> ClientLocations]
        /\ crcnt[d] \in Nat /\ cscnt[d] \in Nat
    BY DEF ClosedInv, Base, ClientSide, Published, Phases, ControlTypeOK
  <1>1. cpc[d] # "done"
    BY <1>0, DoneStays
  <1>2. PromptAt(Stream(cwc[d], ccq[d]), StreamLen(cwc[d], ccq[d]), crcnt[d], cscnt[d])
    BY <1>1 DEF Prompt
  <1>3. FlowOf(d)'
    BY DEF ClosedInv, Flow
  <1>4. ASSUME cwc'[d] = cwc[d], ccq'[d] = ccq[d], crcnt'[d] = crcnt[d], cscnt'[d] = cscnt[d]
        PROVE  Goal
    BY <1>2, <1>4
  <1>5. ASSUME cwc'[d] = cwc[d], crcnt'[d] = crcnt[d], cscnt'[d] = cscnt[d],
               NEW e \in Completions, ccq'[d] = Append(ccq[d], e)
        PROVE  Goal
    <2> DEFINE s == Stream(cwc[d], ccq[d])
               n == StreamLen(cwc[d], ccq[d])
               u == Stream(cwc[d], Append(ccq[d], e))
               m == StreamLen(cwc[d], Append(ccq[d], e))
    <2>1. n \in Nat /\ m = n + 1 /\ \A j \in 1 .. n : u[j] = s[j]
      BY <1>0, StreamAppended
    <2>2. crcnt[d] + Number(u, m, "recv") <= cscnt[d] + Number(u, m, "send")
      BY <1>0, <1>3, <1>5, PromptWhole
    <2>3. PromptAt(s, n, crcnt[d], cscnt[d])
      BY <1>2
    <2> HIDE DEF s, n, u, m
    <2>4. PromptAt(u, n + 1, crcnt[d], cscnt[d])
      BY <1>0, <2>1, <2>2, <2>3, PromptAppended
    <2>5. PromptAt(u, m, crcnt[d], cscnt[d])
      BY <2>1, <2>4
    <2> QED
      BY <1>5, <2>5 DEF u, m
  <1>6. ASSUME NEW c \in ClientThreads, Transmit(c)
        PROVE  Goal
    <2>1. /\ ccq' = [ccq EXCEPT ![c] = Append(@, "send")]
          /\ UNCHANGED <<cwc, crcnt, cscnt>>
      BY <1>6 DEF Transmit, clientCounts
    <2>2. CASE c # d
      <3>1. ccq'[d] = ccq[d]
        BY <1>0, <2>1, <2>2
      <3> QED
        BY <1>4, <2>1, <3>1
    <2>3. CASE c = d
      <3>1. ccq'[d] = Append(ccq[d], "send") /\ "send" \in Completions
        BY <1>0, <2>1, <2>3 DEF Completions
      <3> QED
        BY <1>5, <2>1, <3>1
    <2> QED
      BY <2>2, <2>3
  <1>7. ASSUME NEW q \in Queues, Respond(q)
        PROVE  Goal
    <2>1. /\ \/ ccq' = ccq
             \/ ccq' = [ccq EXCEPT ![Head(sq[q]).qpn] = Append(@, "recv")]
          /\ UNCHANGED <<cwc, crcnt, cscnt>>
      BY <1>7 DEF Respond, clientCounts
    <2>2. ccq'[d] = ccq[d] \/ ccq'[d] = Append(ccq[d], "recv")
      BY <1>0, <2>1
    <2>3. "recv" \in Completions
      BY DEF Completions
    <2> QED
      BY <1>4, <1>5, <2>1, <2>2, <2>3
  <1>8. ASSUME NEW c \in ClientThreads, PollLoop(c) \/ DrainPoll(c)
        PROVE  Goal
    <2>1. TakeCompletions(c) /\ UNCHANGED <<crcnt, cscnt>>
      BY <1>8 DEF PollLoop, DrainPoll, clientCounts
    <2>2. CASE c # d
      <3>1. cwc'[d] = cwc[d] /\ ccq'[d] = ccq[d]
        BY <1>0, <2>1, <2>2, TakeEffect
      <3> QED
        BY <1>4, <2>1, <3>1
    <2>3. CASE c = d
      <3>1. PICK n \in 0 .. Len(ccq[d]) : /\ cwc'[d] = SubSeq(ccq[d], 1, n)
                                          /\ ccq'[d] = SubSeq(ccq[d], n + 1, Len(ccq[d]))
        BY <1>0, <2>1, <2>3, TakeEffect
      <3>2. cwc[d] = <<>>
        BY <1>0, <1>8, <2>3 DEF PollLoop, DrainPoll, ClientSide, Handling
      <3> DEFINE z == <<>>
                 s == Stream(z, ccq[d])
                 n1 == StreamLen(z, ccq[d])
                 u == Stream(cwc'[d], ccq'[d])
                 m == StreamLen(cwc'[d], ccq'[d])
      <3>3. m = n1 /\ \A j \in 1 .. Len(ccq[d]) : u[j] = s[j]
        BY <1>0, <3>1, StreamPolled
      <3>4. n1 = Len(ccq[d]) /\ n1 \in Nat
        BY <1>0 DEF StreamLen
      <3>5. PromptAt(s, n1, crcnt[d], cscnt[d])
        BY <1>2, <3>2
      <3> HIDE DEF z, s, n1, u, m
      <3>6. \A j \in 1 .. n1 : u[j] = s[j]
        BY <3>3, <3>4
      <3>7. PromptAt(u, n1, crcnt[d], cscnt[d])
        BY <1>0, <3>4, <3>5, <3>6, PromptKept
      <3>8. PromptAt(u, m, crcnt'[d], cscnt'[d])
        BY <2>1, <3>3, <3>7
      <3> QED
        BY <3>8 DEF u, m
    <2> QED
      BY <2>2, <2>3
  <1>9. ASSUME NEW c \in ClientThreads, HandleSend(c) \/ HandleRecv(c) \/ HandleLate(c)
        PROVE  Goal
    <2>1. /\ cwc[c] # <<>> /\ cwc' = [cwc EXCEPT ![c] = Tail(@)] /\ ccq' = ccq
          /\ \/ /\ Head(cwc[c]) = "send" /\ crcnt' = crcnt
                /\ cscnt' = [cscnt EXCEPT ![c] = @ + 1]
             \/ /\ Head(cwc[c]) = "recv" /\ cscnt' = cscnt
                /\ crcnt' = [crcnt EXCEPT ![c] = @ + 1]
      BY <1>9 DEF HandleSend, HandleRecv, HandleLate, clientDevice
    <2>2. CASE c # d
      <3>1. cwc'[d] = cwc[d] /\ crcnt'[d] = crcnt[d] /\ cscnt'[d] = cscnt[d]
        BY <1>0, <2>1, <2>2
      <3> QED
        BY <1>4, <2>1, <3>1
    <2>3. CASE c = d
      <3> DEFINE s == Stream(cwc[d], ccq[d])
                 u == Stream(Tail(cwc[d]), ccq[d])
                 n == StreamLen(Tail(cwc[d]), ccq[d])
                 x == IF s[1] = "recv" THEN 1 ELSE 0
                 y == IF s[1] = "send" THEN 1 ELSE 0
      <3>1. /\ n \in Nat /\ StreamLen(cwc[d], ccq[d]) = n + 1
            /\ s[1] = Head(cwc[d]) /\ \A j \in 1 .. n : u[j] = s[j + 1]
        BY <1>0, <2>1, <2>3, StreamHandled
      <3>2. PromptAt(s, n + 1, crcnt[d], cscnt[d])
        BY <1>2, <3>1
      <3>3. cwc'[d] = Tail(cwc[d]) /\ ccq'[d] = ccq[d]
        BY <1>0, <2>1, <2>3
      <3>4. \/ s[1] = "send" /\ crcnt'[d] = crcnt[d] /\ cscnt'[d] = cscnt[d] + 1
            \/ s[1] = "recv" /\ cscnt'[d] = cscnt[d] /\ crcnt'[d] = crcnt[d] + 1
        BY <1>0, <2>1, <2>3, <3>1
      <3>5. crcnt'[d] = crcnt[d] + x /\ cscnt'[d] = cscnt[d] + y
        BY <1>0, <3>4
      <3> HIDE DEF s, u, n
      <3>6. PromptAt(u, n, crcnt[d] + x, cscnt[d] + y)
        BY <1>0, <3>1, <3>2, PromptHandled
      <3> HIDE DEF x, y
      <3>7. PromptAt(u, n, crcnt'[d], cscnt'[d])
        BY <3>5, <3>6
      <3> QED
        BY <3>3, <3>7 DEF u, n
    <2> QED
      BY <2>2, <2>3
  <1>10. ASSUME NEW c \in ClientThreads, Close(c)
         PROVE  Goal
    <2>1. /\ cpc' = [cpc EXCEPT ![c] = "done"] /\ ccq' = [ccq EXCEPT ![c] = <<>>]
          /\ UNCHANGED <<cwc, crcnt, cscnt>>
      BY <1>10 DEF Close, CGoto, clientCounts
    <2>2. c # d
      BY <1>0, <2>1
    <2>3. ccq'[d] = ccq[d]
      BY <1>0, <2>1, <2>2
    <2> QED
      BY <1>4, <2>1, <2>3
  <1>11. ASSUME NEW c \in ClientThreads,
                \/ EnterBarrier(c) \/ LeaveBarrier(c) \/ PostReceives(c) \/ LoopTest(c)
                \/ Finish(c) \/ Publish(c) \/ FillWindow(c) \/ Resend(c) \/ Dump(c)
         PROVE  Goal
    <2>1. UNCHANGED <<cwc, ccq, crcnt, cscnt>>
      BY <1>11 DEF EnterBarrier, LeaveBarrier, PostReceives, LoopTest, Finish, Publish,
                   FillWindow, Resend, Dump, clientDevice, clientCounts
    <2> QED
      BY <1>4, <2>1
  <1>12. CASE UNCHANGED clientVars
    BY <1>4, <1>12 DEF clientVars, clientDevice, clientCounts
  <1>13. CASE UNCHANGED vars
    BY <1>12, <1>13 DEF vars
  <1>14. ASSUME NEW c \in ClientThreads, ClientThread(c)
         PROVE  Goal
    BY <1>8, <1>9, <1>10, <1>11, <1>14 DEF ClientThread
  <1>15. CASE Network
    BY <1>6, <1>7, <1>15 DEF Network
  <1> QED
    BY <1>12, <1>13, <1>14, <1>15 DEF Next

LEMMA NotRefused ==
  ASSUME WindowInv, Prompt, NEW c \in ClientThreads, FillWindow(c) \/ Resend(c) \/ Dump(c)
  PROVE  souts[c] < ClientDepth
  <1>1. cpc[c] # "done"
    BY DEF FillWindow, Resend, Dump
  <1>2. Base /\ cwc[c] \in Seq(Completions) /\ ccq[c] \in Seq(Completions)
    BY DEF WindowInv, ClosedInv, Base, ClientSide
  <1>3. /\ crcnt[c] \in Nat /\ cscnt[c] \in Nat /\ souts[c] \in Int
        /\ Posted(c) = cscnt[c] + souts[c]
    BY <1>2, CountTypes DEF Posted
  <1> DEFINE s == Stream(cwc[c], ccq[c])
             n == StreamLen(cwc[c], ccq[c])
  <1>4. n \in Nat
    BY <1>2, StreamLenNat
  <1>5. PromptAt(s, n, crcnt[c], cscnt[c])
    BY <1>1 DEF Prompt
  <1> HIDE DEF s, n
  <1>6. Number(s, 0, "recv") = 0 /\ Number(s, 0, "send") = 0
    <2>1. Kind(s, 0, "recv") = {} /\ Kind(s, 0, "send") = {}
      BY DEF Kind
    <2> QED
      BY <2>1, FS_EmptySet DEF Number
  <1>7. crcnt[c] <= cscnt[c]
    <2>1. 0 \in 0 .. n
      BY <1>4
    <2>2. crcnt[c] + 0 <= cscnt[c] + 0
      BY <1>5, <1>6, <2>1 DEF PromptAt
    <2> QED
      BY <1>3, <2>2
  <1>8. Posted(c) - crcnt[c] < WindowOf(c)
    BY IssueGuard
  <1>9. WindowOf(c) \in Nat /\ ClientDepth \in Nat /\ WindowOf(c) <= ClientDepth
    BY ClosedLoopAssumption DEF WindowOf
  <1> QED
    BY <1>3, <1>7, <1>8, <1>9

\* Going round from s, queue q has had its turn since the last time round when the next
\* queue is o.
Passed(s, o, q) == IF s <= o THEN s <= q /\ q < o ELSE q >= s \/ q < o

\* f counts the requests for each queue: n, and one more for those that had their turn.
EvenFor(f, s, o) == \E n \in Nat : \A q \in Queues : f[q] = IF Passed(s, o, q) THEN n + 1 ELSE n

Even == \A c \in ClientThreads : EvenFor(issuedTo[c], c % NumQueues, offset[c])

LEMMA TurnTaken ==
  ASSUME NEW f \in [Queues -> Nat], NEW s \in Queues, NEW o \in Queues, EvenFor(f, s, o)
  PROVE  EvenFor([f EXCEPT ![o] = @ + 1], s, IF o = NumQueues - 1 THEN 0 ELSE o + 1)
  <1> DEFINE g == [f EXCEPT ![o] = f[o] + 1]
             p == IF o = NumQueues - 1 THEN 0 ELSE o + 1
  <1>0. NumQueues \in Nat \ {0} /\ Queues = 0 .. NumQueues - 1
    BY VerbsAssumption DEF Queues
  <1>1. PICK n \in Nat : \A q \in Queues : f[q] = IF Passed(s, o, q) THEN n + 1 ELSE n
    BY DEF EvenFor
  <1>2. ~Passed(s, o, o)
    BY <1>0 DEF Passed
  <1>3. /\ g[o] = n + 1
        /\ \A q \in Queues : q # o => g[q] = IF Passed(s, o, q) THEN n + 1 ELSE n
    BY <1>1, <1>2
  <1> HIDE DEF g
  <1>4. CASE p = s
    <2>1. \A q \in Queues : q # o => Passed(s, o, q)
      BY <1>0, <1>4 DEF Passed
    <2>2. \A q \in Queues : g[q] = n + 1
      BY <1>3, <2>1
    <2>3. \A q \in Queues : ~Passed(s, p, q)
      BY <1>0, <1>4 DEF Passed
    <2>4. EvenFor(g, s, p)
      <3>1. n + 1 \in Nat
        OBVIOUS
      <3> QED
        BY <2>2, <2>3, <3>1 DEF EvenFor
    <2> QED
      BY <2>4 DEF g
  <1>5. CASE p # s
    <2>1. \A q \in Queues : Passed(s, p, q) <=> Passed(s, o, q) \/ q = o
      BY <1>0, <1>5 DEF Passed
    <2>2. \A q \in Queues : g[q] = IF Passed(s, p, q) THEN n + 1 ELSE n
      BY <1>3, <2>1
    <2>3. EvenFor(g, s, p)
      BY <2>2 DEF EvenFor
    <2> QED
      BY <2>3 DEF g
  <1> QED
    BY <1>4, <1>5

LEMMA EvenInit == Init => Even
  <1> SUFFICES ASSUME Init, NEW c \in ClientThreads
               PROVE  EvenFor(issuedTo[c], c % NumQueues, offset[c])
    BY DEF Even
  <1>1. offset[c] = c % NumQueues /\ \A q \in Queues : issuedTo[c][q] = 0
    BY DEF Init, ClientInit
  <1>2. NumQueues \in Nat \ {0} /\ NumLoad \in Nat
    BY VerbsAssumption, ClosedLoopAssumption
  <1> DEFINE s == c % NumQueues
  <1>3. s \in Int
    BY <1>2 DEF ClientThreads
  <1> HIDE DEF s
  <1>4. \A q \in Queues : ~Passed(s, s, q)
    BY <1>2, <1>3 DEF Passed, Queues
  <1> QED
    BY <1>1, <1>4 DEF EvenFor, s

LEMMA EvenNext ==
  ASSUME PowerOfTwo(NumQueues), WindowInv, Prompt, Even, [Next]_vars
  PROVE  Even'
  <1> SUFFICES ASSUME NEW d \in ClientThreads
               PROVE  EvenFor(issuedTo'[d], d % NumQueues, offset'[d])
    BY DEF Even
  <1>0. /\ ClientSide
        /\ issuedTo \in [ClientThreads -> [Queues -> Nat]]
        /\ offset \in [ClientThreads -> Queues]
    BY DEF WindowInv, ClosedInv, Base, ClientSide
  <1>1. EvenFor(issuedTo[d], d % NumQueues, offset[d])
    BY DEF Even
  <1>2. ASSUME issuedTo'[d] = issuedTo[d], offset'[d] = offset[d]
        PROVE  EvenFor(issuedTo'[d], d % NumQueues, offset'[d])
    BY <1>1, <1>2
  <1>3. ASSUME NEW c \in ClientThreads, FillWindow(c) \/ Resend(c) \/ Dump(c)
        PROVE  EvenFor(issuedTo'[d], d % NumQueues, offset'[d])
    <2>1. PostRequest(c)
      BY <1>3 DEF FillWindow, Resend, Dump
    <2>2. /\ souts[c] < ClientDepth /\ souts[c] \in Int /\ ClientDepth \in Nat
      BY <1>0, <1>3, NotRefused, ClosedLoopAssumption DEF ClientSide
    <2>3. ~(souts[c] >= ClientDepth)
      BY <2>2
    <2> DEFINE o == offset[c]
    <2>4. /\ issuedTo' = [issuedTo EXCEPT ![c] = [issuedTo[c] EXCEPT ![o] = @ + 1]]
          /\ offset' = [offset EXCEPT ![c] = NextQueue(o)]
      BY <2>1, <2>3 DEF PostRequest
    <2>5. CASE c # d
      BY <1>0, <1>2, <2>4, <2>5
    <2>6. CASE c = d
      <3>1. issuedTo'[d] = [issuedTo[d] EXCEPT ![o] = @ + 1] /\ offset'[d] = NextQueue(o)
        BY <1>0, <2>4, <2>6
      <3>2. o \in Queues /\ issuedTo[d] \in [Queues -> Nat] /\ offset[d] = o
        BY <1>0, <2>6
      <3>3. NextQueue(o) = IF o = NumQueues - 1 THEN 0 ELSE o + 1
        BY <3>2, NextQueueRound
      <3>4. d % NumQueues \in Queues
        BY VerbsAssumption, ClosedLoopAssumption DEF ClientThreads, Queues
      <3> HIDE DEF o
      <3> DEFINE f == issuedTo[d]
                 s == d % NumQueues
                 g == [f EXCEPT ![o] = @ + 1]
      <3>5. f \in [Queues -> Nat] /\ s \in Queues /\ EvenFor(f, s, o)
        BY <1>1, <3>2, <3>4
      <3> HIDE DEF f, s
      <3>6. EvenFor(g, s, IF o = NumQueues - 1 THEN 0 ELSE o + 1)
        BY <3>2, <3>5, TurnTaken
      <3>7. issuedTo'[d] = g /\ offset'[d] = IF o = NumQueues - 1 THEN 0 ELSE o + 1
        BY <3>1, <3>3 DEF f
      <3> HIDE DEF g
      <3> QED
        BY <3>6, <3>7 DEF s
    <2> QED
      BY <2>5, <2>6
  <1>4. ASSUME NEW c \in ClientThreads, ClientThread(c), ~(FillWindow(c) \/ Resend(c) \/ Dump(c))
        PROVE  UNCHANGED <<issuedTo, offset>>
    BY <1>4 DEF ClientThread, EnterBarrier, LeaveBarrier, PostReceives, LoopTest, PollLoop,
                HandleSend, HandleRecv, HandleLate, Finish, DrainPoll, Publish, Close, clientCounts
  <1>5. ASSUME Network \/ UNCHANGED clientVars \/ UNCHANGED vars
        PROVE  UNCHANGED <<issuedTo, offset>>
    BY <1>5 DEF Network, Transmit, Respond, vars, clientVars, clientCounts
  <1> QED
    BY <1>2, <1>3, <1>4, <1>5 DEF Next

\* Round robin for every number of threads, queues and requests and every window, if the
\* number of queues is a power of two, which the mask needs: the numbers of requests
\* that a client thread has posted for two queues of the server differ by at most one.
THEOREM RoundRobinCorrect ==
  ASSUME PowerOfTwo(NumQueues)
  PROVE  Spec => []RoundRobinEven
  <1> DEFINE Inv == WindowInv /\ Prompt /\ Even
  <1>1. Init => Inv
    BY WindowInit, PromptInit, EvenInit
  <1>2. Inv /\ [Next]_vars => Inv'
    <2> SUFFICES ASSUME WindowInv, Prompt, Even, [Next]_vars
                 PROVE  WindowInv' /\ Prompt' /\ Even'
      OBVIOUS
    <2>1. WindowInv'
      BY WindowNext
    <2>2. ClosedInv /\ ClosedInv'
      BY <2>1 DEF WindowInv
    <2>3. Prompt'
      BY <2>2, PromptNext
    <2> QED
      BY <2>1, <2>3, EvenNext
  <1>3. Inv => RoundRobinEven
    <2> SUFFICES ASSUME Even, NEW c \in ClientThreads, NEW p \in Queues, NEW q \in Queues
                 PROVE  issuedTo[c][p] <= issuedTo[c][q] + 1
      BY DEF RoundRobinEven
    <2>1. PICK n \in Nat : \A r \in Queues :
            issuedTo[c][r] = IF Passed(c % NumQueues, offset[c], r) THEN n + 1 ELSE n
      BY DEF Even, EvenFor
    <2>2. issuedTo[c][p] \in {n, n + 1} /\ issuedTo[c][q] \in {n, n + 1}
      BY <2>1
    <2> QED
      BY <2>2
  <1> HIDE DEF Inv
  <1> QED
    BY <1>1, <1>2, <1>3, PTL DEF Spec

=============================================================================
