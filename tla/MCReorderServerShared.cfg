\* More threads than connections: both threads poll and post on connection 0.
SPECIFICATION Spec
CONSTANTS
  NumQueues = 1
  NumThreads = 2
  BuffersPerQ = 2
  RxDepth = 3
  SignalInterval = 2
  NumPriorities = 2
  Sources = {c1}
  MaxPackets = 3
  NoReq = NoReq
INVARIANTS TypeOK SkipListExact FiledUnderPriority BuffersConserved
PROPERTIES ServedInOrder
