\* One thread, two buffers, a send queue large enough for every response: is a
\* request that is not answered one that was dropped?
SPECIFICATION FairSpec
CONSTANTS
  NumQueues = 1
  NumThreads = 1
  NumGroups = 1
  BuffersPerQ = 2
  RxDepth = 4
  SignalInterval = 4
  NumPriorities = 2
  Sources = {c1}
  MaxPackets = 2
  NoReq = NoReq
PROPERTIES RequestsAnswered
