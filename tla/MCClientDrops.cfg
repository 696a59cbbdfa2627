\* Late warm-up responses and the report of drops.
SPECIFICATION Spec
CONSTANTS
  NumThreads = 1
  WindowSize = 1
  RxDepth = 3
  NumPriorities = 1
  Word = 1000
  DrainPolls = 1
  MaxRequests = 3
INVARIANTS DropsAreReal
