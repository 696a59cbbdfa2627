\* Two clients try to reach the server, over UDP and over TCP; datagrams get lost,
\* calls fail and processes die.  The server may wait for ever.
SPECIFICATION FairSpec
CONSTANTS
  Clients = {c1, c2}
  Server = srv
  NumThreads = 2
  QueueCounts = {1, 12, 63, 64, 65, 128}
INVARIANTS Mutual SyncedOnReturn ScanInBounds
PROPERTIES SetupEnds
CHECK_DEADLOCK FALSE
