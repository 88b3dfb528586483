SPECIFICATION Spec
CONSTANTS
  c1 = c1
  c2 = c2
  Clients <- MCClients
  Cap = 2
  MaxSnap = 4
INVARIANTS TypeOK NoPanic NoOrphan NobodyAfterShutdown
PROPERTIES ImplementsFeed ShutdownEndsStreams PeersCannotBlock
