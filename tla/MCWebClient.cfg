CONSTANTS
  camera = camera
  library = library
  renderer = renderer
  Server <- MCServer
  NoServer = NoServer
  PoolSize = 2
  RETRY_COUNT = 0
  MaxRequests = 3
SPECIFICATION WCSpec
INVARIANTS OneSession AnswersItsRequest
PROPERTIES ToldInOrder RequestsLeave
CHECK_DEADLOCK FALSE
