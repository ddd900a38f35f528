CONSTANTS
  r1 = r1
  r2 = r2
  w1 = w1
  w2 = w2
  w3 = w3
  Reader <- MCReader
  Writer <- MCWriter
SPECIFICATION RWFairSpec
INVARIANTS MutualExclusion DrainNeverBlocks
PROPERTIES ImplementsLockSpec WaitersAdmitted
CHECK_DEADLOCK FALSE
