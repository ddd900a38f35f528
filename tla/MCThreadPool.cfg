CONSTANTS
  t1 = t1
  t2 = t2
  t3 = t3
  i1 = i1
  i2 = i2
  i3 = i3
  Thread <- MCThread
  Item <- MCItem
  None = None
  LateJoin = FALSE
SPECIFICATION FairSpec
INVARIANTS WakeUpsMatchItems NoUseAfterFree ExactlyOnce
PROPERTIES DestroyReturns QueuedItemsRun
CHECK_DEADLOCK FALSE
