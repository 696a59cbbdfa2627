\* One load thread with a window of two and the measurement thread, against a server
\* with two queues that has just enough receives.
SPECIFICATION FairSpec
CONSTANTS
  NumQueues = 2
  NumThreads = 2
  BuffersPerQ = 3
  RxDepth = 4
  SignalInterval = 3
  NumPriorities = 1
  Sources = {0, 1}
  MaxPackets = 7
  NoReq = NoReq
  NumLoad = 1
  WindowSize = 2
  Iters = 2
  SyncIters = 2
  ClientDepth = 2
  DrainPolls = 1
INVARIANTS RequestsConserved SamplesExact CountsFinal RoundRobinEven
PROPERTIES ImplementsWindow ClientFinishes
