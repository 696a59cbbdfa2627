SPECIFICATION FairSpec
CONSTANTS
  NumQueues = 4
  NumThreads = 2
  BuffersPerQ = 3
  NumPriorities = 3
  Levels = 2
  CounterRange = 4
  PollBacklog = 1
INVARIANTS NoFailure BypassBounded EachOnce
PROPERTIES FairService StrictScan
