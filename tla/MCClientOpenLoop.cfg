\* Two connections: the phases of four threads and main, and the counters and buffers
\* that a sender and its receiver share.
SPECIFICATION FairSpec
CONSTANTS
  NumThreads = 2
  WindowSize = 1
  RxDepth = 1
  NumPriorities = 1
  Word = 1000
  DrainPolls = 1
  MaxRequests = 1
INVARIANTS TypeOK GuardSound ReceivesPosted WarmUpSeparate
PROPERTIES CountsFinal ClientFinishes
