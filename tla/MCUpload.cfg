CONSTANTS
  c1 = c1
  c2 = c2
  n1 = n1
  Connection <- MCConnection
  Name <- MCName
  MaxRequests = 2
  MaxBusy = 2
  Resumable <- MCResumable
SPECIFICATION MCSpec
INVARIANTS TempFilesOwned TransfersEndOnce
PROPERTIES  UploadsSettle
CHECK_DEADLOCK FALSE
