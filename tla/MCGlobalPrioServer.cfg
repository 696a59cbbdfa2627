\* Two threads of one group, each with its own connection; one terminate packet stops both.
SPECIFICATION FairSpec
CONSTANTS
  NumQueues = 2
  NumThreads = 2
  NumGroups = 1
  BuffersPerQ = 1
  RxDepth = 3
  SignalInterval = 2
  NumPriorities = 2
  Sources = {c1}
  MaxPackets = 3
  NoReq = NoReq
INVARIANTS SharedReadySetExact NoDoubleService EchoOnce
PROPERTIES MostUrgentOfGroup TerminationSpreads
