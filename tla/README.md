# A TLA+ verification of UD_uBenchmark

UD_uBenchmark measures how an RDMA server schedules small requests. Clients send
unreliable datagrams (UD) at a chosen rate; each carries a service time and a priority.
The server polls completion queues, files requests by priority, "works" for the service
time and echoes the datagram. The programs are C++ over libibverbs, with threads pinned to
cores, busy polling and hardly any locks. What can go wrong is in the interleavings of
threads and device, in counters that trail the events they count, and in queues at their
limits, which is what the models here are about.

Paths below are relative to the repository (`src/`).

## 1. Inventory

| Component | State | Operations | Talks to |
|---|---|---|---|
| Reordering server `ud_pingpong_server_reorder_fast.cc` (built by the Makefile) | per thread: `metaCQ` (a list per priority), `skipList` (set of non-empty priorities), request being served; per connection `rcnt`; the flag `terminateRun` | poll, file completions, pick, serve, post receive, post send, close | device, clients through packets |
| Global-priority server `..._12Q12Tglobalprio.cc` | the same, but `metaCQ` and `skipList` shared by a group of threads under `skipListMutex` | the same, with three critical sections | the other threads of the group, device |
| Server connection `ServerRDMAConnection.cc` | QP, CQ, registered `buf_recv`/`buf_send`, memory regions (shared by all connections) | `pp_init_ctx`, `pp_post_recv`, `pp_post_send`, `pp_close_ctx`, address exchange | device |
| Open-loop client `ud_pingpong_client.cc` (built by the Makefile) | flags `warmUpDone`, `terminate_load`, `terminate_all`; per connection `sentCount`, `scnt`, send buffers, send and receive counts per priority | `client_send` and `client_threadfunc` per connection, `main` | each other through plain variables and two barriers, the server through packets |
| Client connection `ClientRDMAConnection.cc` | QP, CQ, buffers | as for the server | device |
| Closed-loop client `ud_pingpong_client_works_closed_loop.cc` | per connection `rcnt`, `scnt`, `souts`, queue offset; `measured_latency`, `terminate_load`, published counts | one load thread per connection, a measurement thread, three barriers | the plain server through packets |
| Plain server `ud_pingpong_server.cc` | counters and buffers per connection | serves completions in the order polled | device |
| Middle host `ud_pingpong_middle.cc`, `MiddleRDMAConnection.cc` | an ingress and an egress QP per thread, `rem_dest` shared by all | QP creation in a race, resolution of the peers, forwarding both ways | clients and server through packets |
| UC set-up `rdma_uc.cc`, `rdma_uc_mask.cc`, `rdma_uc_tcp.cc`; `rdma_rc.c` | QP, connection data of the other side, registered vector of ready queues | exchange of QP numbers over UDP or TCP, QP transitions | the same program on the other host |
| `avx512.cpp`, scripts, plotting | - | - | - |

What is hard in this code:

* a completion queue shared by sends and receives, with most sends unsignaled (server):
  slots of the send queue come back only with the next signaled completion;
* `post_recv` before `post_send`: the device may write into a buffer whose response has not
  been posted;
* threads that share a connection without a lock when there are more threads than queues;
* two shared structures updated in two critical sections (global-priority server);
* flow control by the difference of two counters that two threads advance after the fact
  (client);
* two phases of a run that have to be separated across 2n+1 threads, and a shutdown that
  destroys resources without joining everybody;
* iterators into a set that is pruned one step late, counters of 8 bits compared for
  equality, indices that are never initialised (the server's other policies);
* a window of outstanding requests kept by one repost and one request per response, with
  no timeout behind it (closed-loop client);
* QP numbers that must come out consecutive although threads create QPs concurrently, and
  receives posted again before their payload has been copied (middle host);
* three datagrams exchanged without a retry, taken from whoever sends them (set-up);
* the network, which drops and reorders.

For each component the properties that make it correct: buffers are conserved, the
scheduler's ready set is exact, service follows priority and arrival, each request is
answered once and to its sender, queues never overflow or block for ever, and the run ends
(servers); no send is refused, the receive window is kept, measured and warm-up traffic are
separate, counts are final when reported, and the run ends (open-loop client); the window is
never exceeded, nothing is lost between client and server, the samples written were measured
(closed-loop client); payloads survive the relay and responses come back to their senders
(middle host); connected QPs point at each other and the exchange ends (set-up).

## 2. Modules

| Module | Models |
|---|---|
| `RdmaVerbs` | the device as the servers use it: receive queue, send queue with signaled and unsignaled slots, completion queue, `buf_recv`, `buf_send`, and the log of packets that clients sent |
| `ServerThreads` (extends `RdmaVerbs`) | what the servers share: program counters, polled completions, request being served, `rcnt`, signaling, `terminateRun`, closing; the properties every server owes |
| `ReorderServer` (extends `ServerThreads`) | the strict-priority scheduler of the reordering server |
| `GlobalPrioServer` (extends `ServerThreads`) | the shared scheduler of the global-priority server, with its mutex |
| `Schedulers` | the policies of the reordering server that a macro selects: `STRICT_PRIORITY`, `ROUND_ROBIN`, `WEIGHTED_ROUND_ROBIN`, `PROCESS_IN_ORDER`, `RR_POLL`, `STRICT_POLL` (with `SCALEOUT`), `NO_PRIORITY` |
| `ClientOpenLoop` | the open-loop client: main, senders, receivers, its queue pairs, an external network and server |
| `PlainServer` (extends `ServerThreads`) | the plain server |
| `ClosedLoop` (extends `PlainServer`) | the closed-loop client composed with the plain server and a network |
| `RequestWindow` | abstract: a window of unanswered requests per client; `ClosedLoop` implements it |
| `Relay` | the middle host, from the creation of its QPs on, with abstract clients and server |
| `Setup` | `do_uc` / `do_rc` on a server and its clients, in four versions |
| `ServerLemmas` (extends `ServerThreads`) | lemmas on queues, the device and the verbs calls, and on the states of a packet between arrival and response, that the proofs of both servers use |
| `ReorderServerProofs`, `GlobalPrioServerProofs`, `ClientOpenLoopProofs`, `ClosedLoopProofs`, `SchedulersProofs`, `RelayProofs`, `SetupProofs` | the theorems of section 4, each module about the one it is named after |
| `MC*` | instances for TLC |

`PROJECT.json` maps every definition to the lines it translates.

**Servers.** A packet is a number, its position in the log `sent`; buffers hold that number,
so "which packet is in this buffer now" can be asked at any moment, and a buffer overwritten
too early is visible. One action is one stretch of the loop between two points where
another thread or the device can matter: `LoopTest`, `Poll`, one action per completion handled
(`SendCompletion`, `RecvCompletion`), `Idle`, `Serve` (pick, pop, erase, work, copy to
`buf_send`) or `Terminate`, `PostRecv`, `PostSend`, `Exit`. The service time is left out: any
number of device steps may happen between two steps of a thread. In `GlobalPrioServer` each
critical section is its own action or pair of actions (`InsertPriority`/`EmplaceRequest`,
`ChooseRequest`/`PopRequest`), so that a missing lock shows. `rcnt` is incremented without
a lock; when a connection is shared a thread may write a stale value, which undoes any number
of increments (`CountRequest`). After thread 0 has closed the context a thread that touches what
was released (a buffer's memory region, the completion queue of connection 0, with a single
queue the buffers too: `TouchesFreed`) may go on, as stale memory still reads as before, or the
process may die (`Crash`); both are behaviours. The lists, sets and mutexes of the
global-priority server are globals and never released. `SignalInterval` is any positive number:
the programs compute theirs by different formulas from `rx_depth` and the number of buffers, and with
0 the remainder would trap. A receive that is posted always finds room, since a
receive queue has 16384 entries and the servers have fewer buffers.

**Client.** A sender's step is split where it reads or writes what the receiver shares:
test of the flag and of the window (`EnterLoop`), building and counting of the request
(`BuildRequest`), which may come after the load has been terminated, `my_sleep` and
`pp_post_send` (`Post`), `++sentCount` (`CountSend`). The receiver polls all completions at once
and handles them one by one. Time is nondeterministic: the 10 s of warm-up, the run time
and the gaps take any number of steps; `DrainPolls` stands for the 10,000,000 polls of the
drain loop. (The argument of the warm-up sleep, `10*1000000000`, overflows an `int` at
`ud_pingpong_client.cc:1694`; how long the program really sleeps is left open with it.) The measured loop spins on plain variables without any call in the spinning
path, so with `-O3` it may never see them change: `SpinForever` lets it, and `ClientFinishes`
must hold all the same. `Word` is 2^64, the width of the counters; the difference in
`WindowOpen` and the one in `Missing` are taken modulo `Word`. The network may answer in
any order or lose a request or response; a response finds a posted receive or is dropped.

**Other policies.** `Schedulers` keeps what a policy looks at: posted receives, waiting
completions, `metaCQ` and `skipList` with the two iterators, `checkCnt` with its width, the
ring with its uninitialised indices, and `offset`. The policy is a variable that `Init`
chooses and nobody changes, as a macro does. The source does not compile with
`PROCESS_IN_ORDER` and a priority policy together, so they are not combined. `QueueWeight` is
the 16-bit weight the loop really leaves, which wraps below zero for many numbers of priorities. `passed` is a
history variable: how many requests were served while a priority waited.

**Closed loop.** `ClosedLoop` uses the server's own steps from `PlainServer` and the device of
`RdmaVerbs`; `Transmit` hands a client's request to the server's device and `Respond` the
response to the client's. The completion of a send comes before its response: verbs does not order
the two, but the code starts its clock at the one and stops it at the other (lines 408 and 533),
and the model shares this assumption. One location per loop of `client_threadfunc`: the window is filled, the test
packet is exchanged, then poll, handle one completion, repost, send. The four copies of the
loop for the different destinations differ in the queue offset only.

**Relay.** A request is a token; buffers hold tokens, so that a payload overwritten early is
visible as for the servers. Clients come in kinds: a QP number that survives `char`, one
that does not, and one that leaves bytes 43 to 45 unset as the repository's clients do. The
sleep of main is not a guarantee: a thread may start early, which sets `early`. `rem_dest` is
allocated (`Resolve`), then filled (`Fill`); a thread that connects before that reads a null pointer or an
unfilled address, and one that cannot create its address handle frees `rem_dest` for all
and later forwards through a null handle (`ConnectGoesOn`, `ForwardCrashes`). What the model takes
from the device: QPs reach RTS, and their numbers are consecutive, which is what README.md:64-91
and the clients' counting rest on. Which thread gets which number is open: a client addresses a
number, and the thread that holds it receives.

**Set-up.** A datagram says who sent it and whose data it carries. Faults (a datagram lost,
a socket error, no device) set `fault`, and liveness is claimed without one only.

## 3. Runs

Passing runs:

| Run | Instance | Shows |
|---|---|---|
| `reorder_shared` | 2 threads on 1 connection with 2 buffers, 2 priorities, 3 packets | `TypeOK`, `SkipListExact` (the assertion before the pop cannot fail), `FiledUnderPriority` (the second read of the priority sees the same packet), `BuffersConserved` and each thread's `ServedInOrder`, with stale writes of `rcnt` |
| `reorder_two` | 2 threads with a connection each, fair threads and device, 3 packets | `BuffersStayHome` and `EchoOnce` across connections; `RequestsAnswered`, also for requests left waiting when no completion arrives; `TerminationSpreads` |
| `reorder_slots` | a send queue smaller than the number of responses, fair | `CompletionQueueFits`, `SendQueueRecovers` |
| `global_two` | 2 threads of a group, fair | `SharedReadySetExact`, `NoDoubleService`, `EchoOnce`, `MostUrgentOfGroup`; `TerminationSpreads`: no thread leaves its loop with the mutex |
| `schedulers` | 7 policies, 4 connections, 2 threads, 3 priorities in 2 levels, so with weights 2, 1 and 0, a counter of 2 bits (`CounterRange` 4 for the code's 256) | `NoFailure` (no assertion fails, no erased iterator is used), `BypassBounded`, `EachOnce`, `FairService`, `StrictScan` |
| `client_two` | 2 connections, window and depth 1, fair threads, network without obligations | `TypeOK`, `GuardSound`, `ReceivesPosted`, `WarmUpSeparate`, `CountsFinal`, `ClientFinishes` |
| `closed` | 1 load thread with a window of 2, the measurement thread, 2 server queues of 3 receives | `RequestsConserved`, `SamplesExact`, `CountsFinal`, `RoundRobinEven`, `ClientFinishes`, and `ImplementsWindow`: the composition implements `RequestWindow` |
| `relay` | 2 threads starting up, 2 requests to the number after thread 0's, 2 buffers, 3 kinds of clients, address handles that fail | `IngressContiguous`, `PayloadsIntact`, `RoundTrip` |
| `setup` | 2 clients and a server, UDP and TCP, 1 to 128 queues, every fault | `Mutual`, `SyncedOnReturn`, `ScanInBounds`, `SetupEnds`; the server may wait for ever, so deadlock is not checked |

`TypeOK` of the other modules documents their types.

Runs that show a disagreement between a document and the code:

| Run | Property | What happens |
|---|---|---|
| `global_drain` | `RequestsAnswered` | an empty poll does `continue` before the scheduler is consulted (`..._12Q12Tglobalprio.cc:303`), so requests polled together with the one just served wait until another completion arrives; README.md:105 explains undrained clients by dropped packets only |
| `client_window` | `WindowRespected` | README.md:42 calls `window_size` the maximum of outstanding requests; the sender waits only for send completions (`ud_pingpong_client.cc:838`) |
| `client_drops` | `DropsAreReal` | `sendCount-recvCount` is unsigned and late warm-up responses are counted in `recvCount` only, so too many drops are reported although nothing is missing (`ud_pingpong_client.cc:1763`) |

**Bounds.** `MaxPackets` and `MaxRequests` bound what clients send in one behaviour; the
counters they feed are the only unbounded state. Three packets over two buffers make a
buffer be reused, a drop happen (both buffers busy), two priorities compete and two equal
ones queue. In `client_two` one request through a window and a depth of one separates the
phases; that the test also holds back a sender with a full window is covered by the theorem
`GuardCorrect`, for every depth. Two threads are what the sharing, the mutex and the barriers
need; a third adds no new kind of interference because threads of different connections
meet only in the flags, and proofs (section 4) cover any number for the properties listed
there. `Word` is 1000 in the instances: any value larger than the counters gives the same
wrap-around. In `closed` a server queue has just the receives that the windows of both
clients need when the rotation brings them together; with one less `RequestsConserved` fails.
Iterations beyond the window (2) make the resending guard run past the number wanted.
In `reorder_two` and `global_two` there is a single source; that a response goes to its own
client and no other is what the theorems `EchoCorrect` and `GlobalEchoCorrect` add, for any number of clients.
`RoundRobinEven` passes with two queues and is proved for every power of two.
In `schedulers` three priorities are the least with a first, a middle and a last element of
the set, two levels give each of the three a weight of its own down to 0, a counter of 2 bits
(`CounterRange` 4 for the code's 256) is the least that can pass the largest weight and come round, four connections give two rows to each of two scaled-out threads; `PollBacklog` is 1 and at most one
completed send waits per connection. In `relay` `Align` is 2 and the first QP number odd, so that thread 0
has to search. In `setup` the queue counts lie on both sides of 64 and of its multiples.

**Fairness.** Threads are pinned to cores of their own and spin, so weak fairness of each
thread is what the operating system gives. In the servers the device's `NicSend` is weakly fair:
a posted send of a working adapter is eventually transmitted. Arrivals are not fair: packets
come or do not. In the client the network owes nothing, not even transmission; `ClientFinishes`
uses fair threads and main only. For the mutex weak fairness of a thread is enough for
`TerminationSpreads`, since contention ends as other threads leave their loops. `closed` assumes
fair client threads, server threads and transmission, and a network that delivers: the programs
have no answer to a loss, and the claim is that they lose nothing themselves. In `relay`
threads, device and server are fair, arrivals of new requests are not. In `schedulers` only the
thread is fair: requests of other priorities may keep coming for ever. In `setup` processes
are fair and faults are not.

**Limits found while fixing the instances.** These are facts about parameters, checked with
TLC and recorded as hazards:

* `EchoOnce` is false when threads share a connection: one thread reposts a buffer, the other
  polls the packet that arrived there and overwrites `buf_send` before the first one's
  `pp_post_send` reads it.
* `SendQueueRecovers` needs `rx_depth > 2*(signalInterval-1)`: a signaled send refused by a
  full queue leaves up to `2*(signalInterval-1)` unsignaled ones in a row.
* `CompletionQueueFits` needs at least `rx_depth/signalInterval <= buffersPerQ+1`, and slack
  beyond it once a full send queue drops unsignaled sends, which brings the signaled ones
  closer together (the code has about 17 against 101); and it needs buffers that stay with
  their connection: in the global-priority server buffers migrate, and five
  packets overrun the completion queue of two connections with a buffer each.
* The window of the closed-loop client is safe only with
  `buffersPerQ >= (threads-1)*window_size + 1` at the server; a request dropped for want of a
  receive hangs its client, which has no timeout.
* `RoundRobinEven` needs a power of two as the number of server threads: the mask
  `(SERVER_THREADS-1) & (offset+1)` is no rotation otherwise, although README.md:54 promises round
  robin for any number: with three, a client that starts at the first queue stays there.
* The first sample of the closed-loop client is printed and never written.
* Under `WEIGHTED_ROUND_ROBIN` a priority that had the set to itself keeps its turn until the
  8-bit counter comes round: up to 256 requests, not its weight.
* The weights go down every `numberOfPriorities/10` priorities, rounded down. They stay at or
  above zero (`WeightsHold`) for any number of priorities from 90 on and for 10, 11, 20 to 22, 30 to 33 and so
  on; with `-n 48` (`run_server.sh:154`) priorities 40 to 43 have weight 0 and 44 to 47 have 65535, which
  an 8-bit count never equals, so they keep their turn while they have requests and
  neither `BypassBounded` nor `FairService` is claimed. Below ten priorities the loop divides by zero.
* `PROCESS_IN_ORDER` works only if the uninitialised `head` and `tail` happen to be equal.
* `SCALEOUT` leaves connections unpolled unless the number of threads divides the number of
  queues.
* The middle host sends responses to the right client only if the client puts its QP number
  into the payload, which those of the repository do not, and if its bytes are below 128.
  Otherwise the response is sent to another number and lost, although README.md:64 has it come back.
  Threads other than 0 may use `rem_dest` before it is set. Payloads are safe with at most
  `recv_bufs_num` requests outstanding per thread.
* `rdma_uc.cc:712-714`, `rdma_uc_mask.cc` and `rdma_rc.c` comment out the closing synchronisation "to
  prevent packet lose": a client returns from `connect_qp` while the server's QP is in RESET.
  `SyncedOnReturn` is therefore about the TCP version.
* Set-up over UDP has no retry: a lost datagram leaves both sides waiting, and `SetupEnds` is claimed
  without a fault.
* `IngressContiguous` needs main's `sleep(4)` to keep the other threads back (`~early`).
* `rdma_uc.cc` allocates 64 bytes per thread for any number of queues from 64 on.
* Other hazards of the client that the models contain or leave aside, without a property: the
  terminate packet keeps the priority of an earlier request (byte 10 is cleared, the priority
  is in bytes 12 and 13); it may be lost in the destroyed queue pair; a sender that wakes late
  posts on it; `latencyArr` and the static table indices are advanced without a check or a lock.
* Thread 0's `pp_close_ctx` deregisters the memory of all connections while other threads
  are still serving.

## 4. Theorems

All are proved for every value of the constants allowed by the assumptions in the modules.
`VerbsAssumption`, `ServerAssumption`, `ClientAssumption`, `SetupAssumption`: at least one
queue, buffer, thread and priority, initial receives that fit the receive queue, counters that
do not reach their word size. `GroupAssumption`: groups of equal size, and receive queues with
room for all buffers, as buffers migrate. `ClosedLoopAssumption`: a send queue at least as
deep as the window. `SchedulersAssumption`: no more threads than queues, and
weights that fit the counter when they start. `RelayAssumption`: no more requests outstanding than
buffers. TLC evaluates them. They are not all met by every command line: what the programs accept beyond
them is named among the limits of section 3, and some statements carry a condition of their own, as
`BypassBounded`, whose weighted half holds only while the weights do (not for the `-n 48` of
`run_server.sh`).

| Theorem | States | Inductive invariant |
|---|---|---|
| *Reordering server* | | |
| `TypeCorrect` | `[]TypeOK` | `TypeOK` itself, which contains `HoldsWhileServing` (where a thread may hold a request or completions) and "every buffer outside the receive queue has been written": without the second, reading the priority of a completed receive is not even defined |
| `SkipListCorrect` | `[]SkipListExact` | `TypeOK` and `SkipListExact` |
| `Conservation`, `StayHome` | `[]BuffersConserved`, `[]BuffersStayHome` | `TypeOK` and `Conserving`, their conjunction; they need each other's connection information |
| `FiledCorrect` | `[]FiledUnderPriority` | with `Conserving`: the device writes only into posted buffers, none of which is filed |
| `OrderCorrect` | `ServedInOrder`, an action property | `ArrivalBy`: packet numbers rise along completion queue, polled completions and each list |
| `EchoCorrect` | `[]EchoOnce`, if `NumThreads <= NumQueues` | `Echo`: every packet is in one state (posted away, completed, polled, filed, in service, posted for sending, answered), and its source goes with it |
| *Global-priority server* | | |
| `GlobalTypeCorrect` | `[]TypeOK` | `Sound`: types, and what the mutex gives, that at most one thread of a group is between lock and unlock |
| `GlobalConservation` | `[]NoDoubleService` | `Sound` and `NoDoubleService` |
| `SharedReadySetCorrect` | `[]SharedReadySetExact` | `SharedInv`: also `Listed` (what the set says while one thread is between its two updates) and `FiledRight` |
| `MostUrgentCorrect` | `MostUrgentOfGroup`, an action property | `SharedInv` |
| `GlobalEchoCorrect` | `[]EchoOnce`, if `NumThreads <= NumQueues` | `Sound`, `NoDoubleService` and `Echo` |
| *Other policies* | | |
| `NoFailureCorrect` | `[]NoFailure`, seven policies | `Sound`: `SetExact`, the lazily pruned set holds the waiting priorities and at most the one served last, where both iterators point; `RingExact`, the slots between reader and writer are written |
| `EachOnceCorrect` | `[]EachOnce`, seven policies | `Sound` and `Placed` |
| `BypassCorrect` | `[]BypassBounded`, round robin for every number of priorities, weighted round robin where `WeightsHold` | `Sound` and `Patient`: how often a waiting priority has been passed is bounded by how far the iterator still is from it, and by what the counter has left |
| `SchedulersTypeCorrect` | `[]TypeOK` | `Sound`, `Patient` and `Shaped` |
| *Open-loop client* | | |
| `ClientTypeCorrect` | `[]TypeOK` | `TypeOK`, which includes that a request being posted is within the bound |
| `GuardCorrect`, `WindowKept` | `[]GuardSound`, `[]ReceivesPosted` | `ClientInv` |
| `WarmUpCorrect` | `[]WarmUpSeparate` | `PhaseInv` |
| `ReceivesFinal` | `CountsFinal`, an action property | `PhaseInv` |
| *Closed loop* | | |
| `ClosedTypeCorrect` | `[]TypeOK` of client and server together | `ClosedInv` |
| `CountsCorrect` | `[]CountsFinal` | `Phases` and `Published` |
| `SamplesCorrect` | `[]SamplesExact` | `WindowInv` |
| `WindowRefined` | `Abstract!Init /\ [][Abstract!Next]_(Abstract!vars)`, the safety part of `RequestWindow` under the refinement mapping | `WindowInv` |
| `RoundRobinCorrect` | `[]RoundRobinEven`, if `NumQueues` is a power of two | `WindowInv`, `Prompt` and `Even` |
| *Middle host* | | |
| `IngressCorrect` | `[]IngressContiguous` | `Numbers` |
| `PayloadsCorrect`, `RelayTypeCorrect` | `[]PayloadsIntact`, `[]TypeOK` | `RelayInv`: `TypeOK`, `PayloadsIntact`, and `PayloadInv` as long as no thread has crashed |
| *Set-up* | | |
| `SetupTypeCorrect`, `MutualCorrect`, `SyncedCorrect`, `ScanCorrect` | `[]TypeOK`, `[]Mutual`, `[]SyncedOnReturn`, `[]ScanInBounds` | `SetupInv` |

*Conservation.* A buffer is in a place: posted, completed, polled, filed under a priority,
or in hand. Each step moves a set of buffers from one place to another or moves nothing
(`Moved`), and the lemma `MoveConserves` shows once that a move keeps places disjoint and
jointly complete. Each action then has to show only which buffers it moves, from lemmas on what
`Append`, `Tail` and `SubSeq` do to the buffers a queue names. The same argument carries
the global-priority server, where the list is shared and the buffer returns to another connection.

*Order and echo.* The number of a packet is its time of arrival, so arrival order is that the
numbers in the buffers rise along every queue. They stay what they are because the device writes
only into posted buffers (`FiledCorrect` rests on the same fact). For the echo the order
`PostRecv` before `PostSend` is the difficulty: after `PostRecv` the buffer of the packet being
answered belongs to the device and may hold a newer packet, while `buf_send` still holds the old
one. `InServiceOf(t)` says what holds in that window; it survives because the only thread that
could poll the newer packet and overwrite `buf_send` is the one that is about to post. That
is where `NumThreads <= NumQueues` is used, and without it the property is false.
In the global-priority server a buffer does not stay with its connection, nor a request with the thread that
polled it. What replaces "its own buffers" there is `AtConn`: from `PostRecv` until its
`PostSend` the buffer that a thread has given back is posted or completed at the thread's own
connection, so in nobody's hand, and only that thread polls it. Both proofs share the bookkeeping of
which packets are in which state before and after a step (`ReceiveStates`, `SendStates`, ...,
in `ServerLemmas`).

*The mutex.* The shared set and the shared lists are updated in two steps, and between choosing
and popping a thread relies on what it has read. The first layer of the proof is that at most one
thread of a group is in such a stretch; then its reading is still true when it acts, and the
set may differ from the lists by exactly the priority it is filing.

*Policies.* `Filed`, the loop that files a poll, is a recursive function; that it appends
every request once is proved by a least counterexample over the length of the poll
(`FilingDefined`, `FiledLists`, `FiledOnce`). `EachOnce` needs that a ring which is full is never
written: all that the ring and the connection hold are buffers of one connection, of which there
are as many as slots, so one more completion is impossible (`RingHasRoom`, by pigeonhole).
`BypassBounded` is not inductive, as it says nothing about where the iterator stands. `Apart(i, p)`
counts the priorities between iterator and `p`; under round robin the times `p` was passed and
this distance never exceed `NumPriorities - 1` together (`Near`), because every turn that is not
`p`'s moves the iterator on. Under the weighted policy a turn may also stay: each priority between
costs at most `LongestTurn` requests, and the one being served what `checkCnt` has left before its weight,
which is almost the counter's whole range when it is past the weight already (`WeightedNear`, from
`LeftInRange` and `NotPassed`).

*Flow control.* `GuardSound` is not inductive: it says nothing while a send is posted and
not yet counted, nor about completions polled and not yet counted. `Flow(t)` accounts for
all of them: completions counted or polled never exceed the posts counted by more than the one
under way, everything in the device plus what has been counted is covered by the posts, and a
sender about to post saw a difference below `rx_depth`, which the receiver can only have
made smaller. `Window(t)` does the same for receives. Both need `Places(t)`: completions
are held only while they are handled, and only the last thread posts the terminate packet, which
no counter counts. The counting lemmas (`CountAppend`, `CountTail`) say how the number of
completions of a kind changes; `NoWrap` that the unsigned difference is the difference.

*Phases of the client.* `PhaseInv` says that a measured request is counted by a sender in its
second loop only, that nobody reaches it before every sender has left the first and main has
slept, and that the last receiver passes its barrier only when every receiver is drained.

*Window of the closed loop.* `Phases` ties the locations of the threads to the three barriers.
`FlowOf(c)` counts: requests of `c` that the server holds in any queue, thread or completion,
plus responses taken, plus sends not transmitted, are at most the requests posted; and `souts`
is the sends not transmitted plus their completions not handled. Counting is over the entries
of all places of both programs at once (`HowMany`); each step moves, adds or drops one entry, and
bijections between the sets of entries give the new count. An inequality is all there is,
since a full queue drops requests, and all the refinement needs. `Windowed` says for each location how
many requests may be unanswered; the measurement thread, with a window of one, also needs that the
completion of its send comes before the response (`Ordered`), from which follows which sample
each response is (`Measured`, `Sampled`). Under the mapping `FillWindow`, `Resend` and `Dump` that
post a request are `Issue`, `HandleRecv` and `HandleLate` are `Answer`, `Close` is `Leave`,
and every other step stutters. The destination mask is a recursive function (`And`), bounded by
a least counterexample (`AndBounded`).

*Round robin.* For a power of two `And(n-1, k)` is the remainder of `k` by `n`, again by a least
counterexample (`MaskWraps`), so the next queue is the following one. The counts stay even only if
no send of the loop is refused, as the code moves the offset on before it posts and ignores
the result. Posting happens with `souts < ClientDepth` (`NotRefused`): at every prefix of the
stream of completions, waiting and polled, the responses taken never exceed the sends whose
completion has been handled (`Prompt`), so `souts` never exceeds the unanswered requests. `Even`
then says that the queues already passed in this round have received one request more.

*Numbers of the middle host.* Once thread 0 has its number and nobody was early, the ingress numbers
are those handed out since, one per thread, and the barrier keeps the first egress number behind the
last of them (`Numbered`); a set of as many different numbers as threads fills the interval.

*Payloads of the middle host.* A *line* of a thread leads from the receives of one connection to
the sends of the other, which use the buffers of the same numbers. A buffer is busy from the
receive until its send is transmitted, but it is posted again before it is copied, so being
posted does not mean being free. What protects it is order: the sends under way read the
buffers that were posted last, in the order of the queue (`Following`), and the device takes
receives from the front. With no more requests than buffers a request that arrives leaves at
least one buffer of the line not busy (`BufferLeft`, by pigeonhole), and then the front one is not
busy either (`ReceiveFree`). So no payload is overwritten and no receive queue runs empty. That
the send queue does not run full is the other half: a slot is given back only when its completion is
polled, so completed sends count. `Away` and `Beyond` bound them: a request whose send has completed
since the last poll is elsewhere (at its client, at the server, lost, or waiting behind
that poll), so it is not among the requests of the line (`SlotFree`); the same bound shows that
one poll takes everything that waits (`PollsAll`). After a crash nothing moves
any more, so `PayloadInv`, which a crashed thread may leave false, is needed only before. `Unique` and `Accounted` then say that busy buffers
and the server hold the requests on their way, each once.

*Handshake.* Until the server has taken a first datagram nobody has been answered
(`NobodyYet`); from then on only the chosen client is (`Answers`), so a client that gets past
RESET knows the server and is known by it (`Paired`, `Chosen`). Over TCP the number of blocks
written says how far a process is (`Progress`), which makes the closing block distinguishable.

Only model-checked: the liveness properties (`RequestsAnswered`, `TerminationSpreads`,
`SendQueueRecovers`, `FairService`, `StrictScan`, `ClientFinishes`, `RoundTrip`, `SetupEnds`, and the
fairness part of `ImplementsWindow`), as liveness under fairness and `ENABLED` are outside what the prover
covers; `CompletionQueueFits` and `RequestsConserved` (a sum over queues, exact only with
enough receives). The findings are counterexamples of TLC.

## 5. Not modelled

* The search of the FPGA's ready vectors (`FPGA_NOTIFICATION`, off) with its AVX-512 variants,
  and the shared completion queue of `IDEAL` (off). Their size is modelled in `Setup`, their
  contents come from hardware that is not described in the repository.
* `GLOBAL_STRICT_PRIORITY` inside the reordering server (off): it is the scheduler of the
  global-priority server, which `GlobalPrioServer` models.
* The array `rps` of the closed-loop client, which has an element less than the measurement thread
  writes (`ud_pingpong_client_works_closed_loop.cc:1188` and `:893`): memory outside the models.
* A device that completes a send after its response has arrived, or that hands out QP numbers with gaps.
* Completions with an error status: the code prints them and goes on.
* The open-loop client's tables of service times, priorities and gaps; the latency arrays; the
  RR, RANDQP and REORDER destinations, all disabled in the source.
* The error paths of `pp_init_ctx`, which end the process; `resources_destroy` and the
  one-sided operations of the set-up files, which nobody calls.
* Values of time: sleeps, service times and the rates computed from them.
* `avx512.cpp`, scripts, capture parsing and plotting.

## 6. Plan

Done: all modules of section 2 and the theorems of section 4. Left: a composition of
open-loop client and reordering server that implements an abstract echo service.
