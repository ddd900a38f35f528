CONSTANTS
  volume = volume
  transport = transport
  x0 = x0
  x1 = x1
  RenderingControl <- MCRenderingControl
  AVTransport <- MCAVTransport
  Backwards = {}
  Position = {}
  Nullable = {}
  Value <- MCValue
  Empty = x0
  NotTold = NotTold
  MaxChanges = 2
  EventedService <- MCEventedService
  EventBody <- MCBody
  MaxSubscribers = 2
  MaxSubscriptions = 1
SPECIFICATION FairSpec
PROPERTY FiresLastChange
CHECK_DEADLOCK FALSE
