CONSTANTS
  c1 = c1
  Client <- MCClient
  Microstack = microstack
  Size = 2
  MaxConnections = 2
  MaxSends = 3
SPECIFICATION FairSpec
INVARIANTS WireInOrder QueueHasSocketAndHead EndedOnce
PROPERTIES QueuedDataGoesOut ResumeDelivers
CHECK_DEADLOCK FALSE
