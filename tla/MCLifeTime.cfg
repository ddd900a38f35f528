CONSTANTS
  c1 = c1
  d1 = d1
  d2 = d2
  Client <- MCClient
  Microstack = microstack
  Data <- MCData
  Delay <- MCDelay
  Forever = 100
  MaxAdds = 2
  MaxNow = 2
SPECIFICATION FairSpec
INVARIANTS OnePlace NoSleepOverTimers
PROPERTIES FiresInOrder TimersSettle
CHECK_DEADLOCK FALSE
