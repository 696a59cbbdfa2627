------------------------------- MODULE Relay -------------------------------
(***************************************************************************)
(* The middle host (ud_pingpong_middle.cc, MiddleRDMAConnection.cc): every *)
(* thread has an ingress QP towards the clients and an egress QP towards   *)
(* the server, and forwards what one receives through the other.           *)
(*                                                                         *)
(* First the constructor: all ingress QPs are created before any egress    *)
(* QP, so that the clients can address them by counting up from the first; *)
(* then thread 0 resolves the peers for everybody and every thread         *)
(* connects.  Then the forwarding loop.                                    *)
(*                                                                         *)
(* Requests are tokens of closed-loop clients: token k is one request      *)
(* outstanding at a time, sent by QP owner[k].qpn, and stands for the      *)
(* payload.  The server, a completion that travels and the network between *)
(* two hosts are one step each.                                            *)
(*                                                                         *)
(* The device numbers the QPs it creates one after the other, and nobody   *)
(* else creates any meanwhile: src/README.md has its users count up from   *)
(* the number of thread 0 and shows such numbers.  QPs reach RTS; creating *)
(* an address handle may fail.                                             *)
(***************************************************************************)
EXTENDS Integers, Sequences, FiniteSets

CONSTANTS
  NumThreads,     \* NUM_THREADS of the middle host
  ServerCores,    \* SERVER_THREADS
  NumBufs,        \* recv_bufs_num: receives posted on each QP
  RxDepth,        \* rx_depth: capacity of a send queue
  Align,          \* 16*12: the number of the first ingress QP is a multiple of it
  FirstQp,        \* bound: the QP number the device hands out first
  Addressed,      \* bound: the threads the clients send to
  Tokens,         \* requests the clients can have outstanding
  ClientKinds     \* bound: QP numbers of clients, and whether the payload carries them

ASSUME RelayAssumption ==
  /\ {NumThreads, ServerCores, NumBufs, RxDepth, Align} \subseteq Nat \ {0}
  /\ FirstQp \in Nat /\ Addressed \subseteq 0 .. NumThreads - 1
  /\ IsFiniteSet(Tokens) /\ Tokens \subseteq Nat \ {0}
  /\ ClientKinds \subseteq [qpn : 0 .. 2^24 - 1, signed : BOOLEAN]
  \* The outstanding requests fit in the buffers of one thread.
  /\ Cardinality(Tokens) <= NumBufs /\ NumBufs <= RxDepth

VARIABLES
  pc,        \* pc[t]: where thread t is
  nextQp,    \* the QP number the device hands out next
  qpn,       \* qpn[t][y]: number of the QP of connection y, 0 before it exists
  early,     \* history: a thread created its ingress QP before thread 0 did
  remDest,   \* the global rem_dest: "null", "raw" (allocated) or "ready"
  ah,        \* ah[t][y]: what the address handle points at
  rq, cq, sq,       \* queues of connection y of thread t
  slots,     \* slots[t][y]: send slots taken
  bufRecv, bufSend, \* the token in each buffer
  turn,      \* turn[t]: the connection y polled now
  wc,        \* wc[t]: completions of that poll not handled yet
  atServer,  \* tokens the server holds: <<thread they came from, server core, token>>
  client,    \* client[k]: "idle", "out", or what became of the request
  owner      \* owner[k]: the client that owns token k

setupVars == <<nextQp, qpn, early, remDest, ah>>
queueVars == <<rq, cq, sq, slots, bufRecv, bufSend>>
loopVars == <<turn, wc>>
clientVars == <<atServer, client, owner>>
vars == <<pc, setupVars, queueVars, loopVars, clientVars>>

-----------------------------------------------------------------------------
Threads == 0 .. NumThreads - 1
Conns == {0, 1}              \* 0: ingress, 1: egress
Bufs == 0 .. NumBufs - 1
NoToken == 0
Other(y) == 1 - y            \* sendContext

PerConn(v) == [t \in Threads |-> [y \in Conns |-> v]]
Set(f, t, y, v) == [f EXCEPT ![t][y] = v]
Goto(t, l) == pc' = [pc EXCEPT ![t] = l]

Running == \A t \in Threads : pc[t] # "crashed"

Init ==
  /\ pc = [t \in Threads |-> "off"]
  /\ nextQp = FirstQp
  /\ qpn = PerConn(0)
  /\ early = FALSE
  /\ remDest = "null"
  /\ ah = PerConn("none")
  /\ rq = PerConn(<<>>) /\ cq = PerConn(<<>>) /\ sq = PerConn(<<>>)
  /\ slots = PerConn(0)
  /\ bufRecv = PerConn([b \in Bufs |-> NoToken])
  /\ bufSend = PerConn([b \in Bufs |-> NoToken])
  /\ turn = [t \in Threads |-> 0]
  /\ wc = [t \in Threads |-> <<>>]
  /\ atServer = {}
  /\ client = [k \in Tokens |-> "idle"]
  /\ owner \in [Tokens -> ClientKinds]

-----------------------------------------------------------------------------
(* Start-up. *)

\* main creates the threads in order and sleeps four seconds after thread 0, which
\* may or may not be enough for thread 0 to find its QP.
Start(t) ==
  /\ pc[t] = "off"
  /\ \A u \in 0 .. t - 1 : pc[u] # "off"
  /\ Goto(t, "ingress")
  /\ UNCHANGED <<setupVars, queueVars, loopVars, clientVars>>

\* Thread 0 destroys QPs until it holds one with a round number.
KeepsQp(t, n) == t = 0 => n % Align = 0

\* pp_init_ctx of the ingress connection, then the barrier.
CreateIngress(t) ==
  /\ pc[t] = "ingress"
  /\ nextQp' = nextQp + 1
  /\ IF KeepsQp(t, nextQp)
       THEN qpn' = Set(qpn, t, 0, nextQp) /\ Goto(t, "barrier1")
       ELSE UNCHANGED <<qpn, pc>>
  /\ early' = (early \/ (t # 0 /\ qpn[0][0] = 0))
  /\ UNCHANGED <<remDest, ah, queueVars, loopVars, clientVars>>

\* Mutation: no barrier between the two QPs.
NoBarrier == TRUE

\* pthread_barrier_wait, first round.
AllIngressReady == \A u \in Threads : pc[u] \notin {"off", "ingress"}

\* Behind the barrier: pp_init_ctx of the egress connection.
CreateEgress(t) ==
  /\ pc[t] = "barrier1"
  /\ AllIngressReady
  /\ nextQp' = nextQp + 1
  /\ qpn' = Set(qpn, t, 1, nextQp)
  /\ Goto(t, "barrier2")
  /\ UNCHANGED <<early, remDest, ah, queueVars, loopVars, clientVars>>

\* Behind the second barrier thread 0 goes to resolve the peers; the others do not
\* wait for it.
LeaveBarrier(t) ==
  /\ pc[t] = "barrier2"
  /\ \A u \in Threads : qpn[u][1] # 0
  /\ Goto(t, IF t = 0 THEN "resolve" ELSE "connect0")
  /\ UNCHANGED <<setupVars, queueVars, loopVars, clientVars>>

\* pp_server_exch_dest allocates rem_dest.
Resolve ==
  /\ pc[0] = "resolve"
  /\ remDest' = "raw"
  /\ Goto(0, "fill")
  /\ UNCHANGED <<nextQp, qpn, early, ah, queueVars, loopVars, clientVars>>

\* Then it fills in the two addresses, unless another thread has freed it already.
Fill ==
  /\ pc[0] = "fill"
  /\ remDest' = IF remDest = "raw" THEN "ready" ELSE remDest
  /\ Goto(0, IF remDest = "raw" THEN "connect0" ELSE "crashed")
  /\ UNCHANGED <<nextQp, qpn, early, ah, queueVars, loopVars, clientVars>>

\* Receives the constructor posts on a connection, in order.
InitialRecvs == [i \in 1 .. NumBufs |-> i - 1]

\* pp_connect_ctx reads the address of the peer through the null pointer.
ConnectCrashes(t, y) ==
  /\ remDest = "null"
  /\ Goto(t, "crashed")
  /\ UNCHANGED <<remDest, ah, rq>>

\* pp_connect_ctx makes an address handle of what rem_dest holds; if it cannot, rem_dest
\* is freed, for all threads, and the handle stays null.  The receives are posted anyway.
ConnectGoesOn(t, y) ==
  /\ remDest # "null"
  /\ \/ /\ ah' = Set(ah, t, y, IF remDest = "ready" THEN "peer" ELSE "wild")
        /\ UNCHANGED remDest
     \/ remDest' = "null" /\ UNCHANGED ah
  /\ rq' = Set(rq, t, y, InitialRecvs)
  /\ Goto(t, IF y = 0 THEN "connect1" ELSE "poll")

Connect(t, y) ==
  /\ pc[t] = (IF y = 0 THEN "connect0" ELSE "connect1")
  /\ ConnectCrashes(t, y) \/ ConnectGoesOn(t, y)
  /\ UNCHANGED <<nextQp, qpn, early, cq, sq, slots, bufRecv, bufSend, loopVars, clientVars>>

-----------------------------------------------------------------------------
(* The forwarding loop. *)

Recv(b) == [kind |-> "recv", buf |-> b]
Send(b) == [kind |-> "send", buf |-> b]
InLoop(t) == pc[t] \in {"poll", "handle", "forward"}

\* ibv_poll_cq(ctx[y]->cq, 2*num_bufs, wc)
Polled(s) == IF Len(s) <= 2 * NumBufs THEN s ELSE SubSeq(s, 1, 2 * NumBufs)

SendsIn(s) == Cardinality({i \in DOMAIN s : s[i].kind = "send"})

\* Where thread t goes with the completions that are left; without any it polls the
\* other connection.
GoOn(t, left) ==
  /\ wc' = [wc EXCEPT ![t] = left]
  /\ Goto(t, IF left = <<>> THEN "poll" ELSE "handle")
  /\ turn' = IF left = <<>> THEN [turn EXCEPT ![t] = Other(@)] ELSE turn

\* The send completions polled give their slots back.
Poll(t) ==
  /\ pc[t] = "poll"
  /\ LET y == turn[t]
         got == Polled(cq[t][y])
     IN  /\ cq' = Set(cq, t, y, SubSeq(cq[t][y], Len(got) + 1, Len(cq[t][y])))
         /\ slots' = Set(slots, t, y, slots[t][y] - SendsIn(got))
         /\ GoOn(t, got)
  /\ UNCHANGED <<setupVars, rq, sq, bufRecv, bufSend, clientVars>>

HandleSend(t) ==
  /\ pc[t] = "handle"
  /\ Head(wc[t]).kind = "send"
  /\ GoOn(t, Tail(wc[t]))
  /\ UNCHANGED <<setupVars, queueVars, clientVars>>

\* Mutation: the receive goes to the head of the queue.
RepostedFirst(q, b) == <<b>> \o q

\* pp_post_recv: to the tail of the receive queue.
Reposted(q, b) == Append(q, b)

\* A receive completion: its buffer is posted again BEFORE the payload is copied.
PostRecv(t) ==
  /\ pc[t] = "handle"
  /\ Head(wc[t]).kind = "recv"
  /\ rq' = Set(rq, t, turn[t], Reposted(rq[t][turn[t]], Head(wc[t]).buf))
  /\ Goto(t, "forward")
  /\ UNCHANGED <<setupVars, cq, sq, slots, bufRecv, bufSend, loopVars, clientVars>>

\* (uint)buf_recv[..][..] of a char: bytes from 128 on are negative.
SignedByte(v) == IF v >= 128 THEN v - 256 ELSE v

\* Mutation: the QP number is read one byte too far to the left.
DecodeQpnShifted(n) == (SignedByte(n \div 65536) * 256) + SignedByte((n \div 256) % 256)

\* The QP number read from payload bytes 43 to 45, where a client wrote n.
DecodeQpn(n) ==
  (SignedByte(n \div 65536) * 65536) + (SignedByte((n \div 256) % 256) * 256)
    + SignedByte(n % 256)

\* The clients of the repository leave 255 and two zero bytes there.
UnsignedQpn == 16711680 \* 0xff0000

\* Where the payload goes: a request whose sleep bytes are both 255 to the first
\* server core, any other one to the core of the thread, a response to the QP number
\* it carries.
Destinations(t, y, k) ==
  IF y = 0 THEN {0, t % ServerCores}
           ELSE {DecodeQpn(IF owner[k].signed THEN owner[k].qpn ELSE UnsignedQpn)}

\* Copy the payload to the other connection's buffer of the same number and post it;
\* a full send queue loses it.
Forward(t) ==
  /\ pc[t] = "forward"
  /\ ah[t][Other(turn[t])] # "none"
  /\ LET y == turn[t]
         b == Head(wc[t]).buf
         k == bufRecv[t][y][b]
         z == Other(y)
     IN  /\ bufSend' = [bufSend EXCEPT ![t][z][b] = k]
         /\ IF slots[t][z] = RxDepth
              THEN /\ client' = [client EXCEPT ![k] = "dropped"]
                   /\ UNCHANGED <<sq, slots>>
              ELSE /\ \E d \in Destinations(t, y, k) :
                        sq' = Set(sq, t, z, Append(sq[t][z], [buf |-> b, dest |-> d]))
                   /\ slots' = Set(slots, t, z, slots[t][z] + 1)
                   /\ UNCHANGED client
  /\ GoOn(t, Tail(wc[t]))
  /\ UNCHANGED <<setupVars, rq, cq, bufRecv, atServer, owner>>

\* The device library reads the null handle.
ForwardCrashes(t) ==
  /\ pc[t] = "forward"
  /\ ah[t][Other(turn[t])] = "none"
  /\ Goto(t, "crashed")
  /\ UNCHANGED <<setupVars, queueVars, loopVars, clientVars>>

-----------------------------------------------------------------------------
(* Device, server and clients. *)

\* Payload k reaches connection y of thread t: the oldest receive takes it.
Deliver(t, y, k) ==
  LET b == Head(rq[t][y]) IN
    /\ rq' = Set(rq, t, y, Tail(rq[t][y]))
    /\ bufRecv' = [bufRecv EXCEPT ![t][y][b] = k]
    /\ cq' = Set(cq, t, y, Append(cq[t][y], Recv(b)))

\* Without a posted receive the datagram is dropped.
Arrive(t, y, k, status) ==
  IF rq[t][y] = <<>>
    THEN client' = [client EXCEPT ![k] = "dropped"] /\ UNCHANGED <<rq, bufRecv, cq>>
    ELSE Deliver(t, y, k) /\ client' = [client EXCEPT ![k] = status]

\* A client sends token k to a QP number it gets by counting up from the first one:
\* the ingress QP of thread t if that has one of these numbers, in whatever order the
\* threads got theirs.  Other numbers reach nobody.
ClientSend(t, k) ==
  /\ InLoop(t)
  /\ qpn[t][0] \in qpn[0][0] .. qpn[0][0] + NumThreads - 1
  /\ client[k] = "idle"
  /\ Arrive(t, 0, k, "out")
  /\ UNCHANGED <<pc, setupVars, sq, slots, bufSend, loopVars, atServer, owner>>

\* The server echoes the payload to the egress QP it came from.
ServerReply(x) ==
  /\ x \in atServer
  /\ atServer' = atServer \ {x}
  /\ Arrive(x[1], 1, x[3], "out")
  /\ UNCHANGED <<pc, setupVars, sq, slots, bufSend, loopVars, owner>>

\* The device transmits the oldest send; it reads the buffer now, not when the send
\* was posted (the payload is not inline), and completes the send.
NicSend(t, y) ==
  /\ sq[t][y] # <<>>
  /\ LET wr == Head(sq[t][y])
         k == bufSend[t][y][wr.buf]
         reaches == ah[t][y] = "peer" /\ (y = 0 => wr.dest = owner[k].qpn)
     IN  /\ sq' = Set(sq, t, y, Tail(sq[t][y]))
         /\ cq' = Set(cq, t, y, Append(cq[t][y], Send(wr.buf)))
         /\ atServer' = IF reaches /\ y = 1 THEN atServer \cup {<<t, wr.dest, k>>}
                                            ELSE atServer
         /\ client' = [client EXCEPT ![k] =
                         IF ~reaches THEN "lost" ELSE IF y = 0 THEN "idle" ELSE @]
  /\ UNCHANGED <<pc, setupVars, rq, slots, bufRecv, bufSend, loopVars, owner>>

-----------------------------------------------------------------------------
Thread(t) ==
  \/ Start(t) \/ CreateIngress(t) \/ CreateEgress(t) \/ LeaveBarrier(t)
  \/ (t = 0 /\ (Resolve \/ Fill))
  \/ \E y \in Conns : Connect(t, y)
  \/ Poll(t) \/ HandleSend(t) \/ PostRecv(t) \/ Forward(t) \/ ForwardCrashes(t)

Device == \E t \in Threads, y \in Conns : NicSend(t, y)
Server(k) == \E x \in atServer : x[3] = k /\ ServerReply(x)

\* A null pointer takes the whole process down.
Next ==
  \/ Running /\ \E t \in Threads : Thread(t)
  \/ Running /\ Device
  \/ Running /\ \E k \in Tokens : Server(k)
  \/ Running /\ \E t \in Addressed, k \in Tokens : ClientSend(t, k)
  \/ ~Running /\ UNCHANGED vars

Spec == Init /\ [][Next]_vars

\* Threads spin on cores of their own; the device transmits and the server
\* answers every request it got.
FairSpec ==
  /\ Spec
  /\ \A t \in Threads : WF_vars(Running /\ Thread(t))
  /\ \A t \in Threads, y \in Conns : WF_vars(Running /\ NicSend(t, y))
  /\ \A k \in Tokens : WF_vars(Running /\ Server(k))

-----------------------------------------------------------------------------
(* Properties. *)

\* Type invariant: every variable has its type; in particular no send queue holds more
\* than rx_depth sends, and buffers are those of the connection.
TypeOK ==
  /\ pc \in [Threads -> {"off", "ingress", "barrier1", "barrier2", "resolve", "fill",
                         "connect0", "connect1", "poll", "handle", "forward", "crashed"}]
  /\ nextQp \in Nat /\ qpn \in [Threads -> [Conns -> Nat]]
  /\ early \in BOOLEAN
  /\ remDest \in {"null", "raw", "ready"}
  /\ ah \in [Threads -> [Conns -> {"none", "wild", "peer"}]]
  /\ rq \in [Threads -> [Conns -> Seq(Bufs)]]
  /\ cq \in [Threads -> [Conns -> Seq([kind : {"recv", "send"}, buf : Bufs])]]
  /\ sq \in [Threads -> [Conns -> Seq([buf : Bufs, dest : Int])]]
  /\ slots \in [Threads -> [Conns -> 0 .. RxDepth]]
  /\ bufRecv \in [Threads -> [Conns -> [Bufs -> Tokens \cup {NoToken}]]]
  /\ bufSend \in [Threads -> [Conns -> [Bufs -> Tokens \cup {NoToken}]]]
  /\ turn \in [Threads -> Conns]
  /\ wc \in [Threads -> Seq([kind : {"recv", "send"}, buf : Bufs])]
  /\ atServer \subseteq Threads \X (0 .. ServerCores - 1) \X Tokens
  /\ client \in [Tokens -> {"idle", "out", "lost", "dropped"}]
  /\ owner \in [Tokens -> ClientKinds]

\* The clients address thread i of the middle host as the first ingress QP plus i.
\* That works if no thread created its QP while thread 0 was still looking for a
\* round number, which only the sleep of main prevents: then the ingress QPs are
\* consecutive from the round number on, and no egress QP is among them.
IngressContiguous ==
  (~early /\ \A t \in Threads : qpn[t][0] # 0) =>
    /\ qpn[0][0] % Align = 0
    /\ {qpn[t][0] : t \in Threads} = qpn[0][0] .. qpn[0][0] + NumThreads - 1
    /\ \A t \in Threads : qpn[t][1] # 0 => qpn[t][1] >= qpn[0][0] + NumThreads

\* The places where the middle host and the server hold token k.
Places(k) ==
  (UNION {
    {<<"cq", t, y, i>> : i \in {j \in DOMAIN cq[t][y] :
        cq[t][y][j].kind = "recv" /\ bufRecv[t][y][cq[t][y][j].buf] = k}}
    \cup {<<"sq", t, y, i>> : i \in {j \in DOMAIN sq[t][y] :
        bufSend[t][y][sq[t][y][j].buf] = k}}
    : t \in Threads, y \in Conns})
  \cup (UNION {
    {<<"wc", t, i>> : i \in {j \in DOMAIN wc[t] :
        wc[t][j].kind = "recv" /\ bufRecv[t][turn[t]][wc[t][j].buf] = k}} : t \in Threads})
  \cup {<<"server", x>> : x \in {z \in atServer : z[3] = k}}

\* A request on its way is in exactly one place, although its receive is posted again
\* before it is copied and its send buffer is reused before the send has completed:
\* no payload overwrites another one, no receive queue runs empty and no send queue
\* full, while at most NumBufs requests are outstanding.
PayloadsIntact ==
  \A k \in Tokens :
    /\ client[k] # "dropped"
    /\ IF client[k] = "out" THEN \E p \in Places(k) : Places(k) = {p}
                            ELSE Places(k) = {}

\* QP numbers that survive the conversion through char.
Plain(n) == n % 256 < 128 /\ (n \div 256) % 256 < 128 /\ n \div 65536 < 128

\* An address handle was made of memory thread 0 had not filled in yet.
HandleWild == \E t \in Threads, y \in Conns : ah[t][y] = "wild"

\* A request that carries its sender's QP number, and one that char can carry, comes
\* back to its sender, if thread 0 resolved the peers before the others connected.
RoundTrip ==
  \A k \in Tokens :
    (client[k] = "out" /\ owner[k].signed /\ Plain(owner[k].qpn))
      ~> (client[k] = "idle" \/ ~Running \/ HandleWild)
=============================================================================
