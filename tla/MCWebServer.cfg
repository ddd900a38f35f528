SPECIFICATION Spec
\* The bound on connections ends a behaviour.
CHECK_DEADLOCK FALSE
CONSTANTS
  MaxConnection = 1
  MaxSessions = 2
  MaxJobs = 1
INVARIANTS SessionsOutliveUse ReferencesAccounted ServedInTurn WaitersAreTimed
PROPERTIES RequestsSettle
