CONSTANTS
  lan = lan
  wlan = wlan
  Location <- MCLocation
  NoLocation = NoLocation
  Services = 2
  MaxDevices = 2
  MaxFetches = 3
  MaxCalls = 2
SPECIFICATION FairSpec
INVARIANTS ReferencesAccounted
PROPERTY RemovedGoAway
CHECK_DEADLOCK FALSE
