CONSTANTS
  volume = volume
  transport = transport
  x0 = x0
  x1 = x1
  RenderingControl <- MCRenderingControl
  AVTransport <- MCAVTransport
  Backwards = {}
  Position <- MCPosition
  Nullable = {}
  Value <- MCValue
  Empty = x0
  NotTold = NotTold
  MaxChanges = 2
  EventedService <- MCEventedService
  EventBody <- MCBody
  MaxSubscribers = 2
  MaxSubscriptions = 2
SPECIFICATION FairSpec
INVARIANTS SubscribersAccounted ListedMeansInformed
PROPERTY ToldInTheEnd
CHECK_DEADLOCK FALSE
