CONSTANTS
  c1 = c1
  l1 = l1
  l2 = l2
  l3 = l3
  Client <- MCClient
  Microstack = microstack
  Link <- MCLink
  MaxRequests = 3
SPECIFICATION FairSpec
INVARIANTS LinksAreLive LinksAccounted
PROPERTIES RemovedLinksGo StopEndsChain
CHECK_DEADLOCK FALSE
