\* A send queue at its limit: responses are produced faster than they are transmitted.
SPECIFICATION FairSpec
CONSTANTS
  NumQueues = 1
  NumThreads = 1
  BuffersPerQ = 1
  RxDepth = 3
  SignalInterval = 2
  NumPriorities = 1
  Sources = {c1, c2}
  MaxPackets = 6
  NoReq = NoReq
INVARIANTS CompletionQueueFits
PROPERTIES SendQueueRecovers
