\* Two threads start up; the clients use the one that can lose the race.
SPECIFICATION FairSpec
CONSTANTS
  NumThreads = 2
  ServerCores = 2
  NumBufs = 2
  RxDepth = 2
  Align = 2
  FirstQp = 1
  Addressed = {1}
  Tokens = {1, 2}
  ClientKinds <- Kinds
INVARIANTS IngressContiguous PayloadsIntact
PROPERTIES RoundTrip
