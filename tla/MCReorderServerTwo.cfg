\* Two threads with a connection each, and a send queue large enough for every response:
\* separation of connections, and progress.
SPECIFICATION FairSpec
CONSTANTS
  NumQueues = 2
  NumThreads = 2
  BuffersPerQ = 2
  RxDepth = 3
  SignalInterval = 2
  NumPriorities = 2
  Sources = {c1}
  MaxPackets = 3
  NoReq = NoReq
INVARIANTS BuffersStayHome EchoOnce
PROPERTIES RequestsAnswered TerminationSpreads
