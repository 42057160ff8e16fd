CONSTANTS
  ann = ann
  bob = bob
  Views <- MCViews
  Keys <- MCKeys
  Author <- MCAuthor
  Delays = 1
  MaxRetries = 1
  MaxFaults = 1
  Faults <- MCFaults
  LateTimer = TRUE
SPECIFICATION FairSpec
INVARIANTS
  ShownIsStored
  SendingIsCarried
PROPERTIES
  PublishedReachesTheConnected
  EverySendSettles
CHECK_DEADLOCK FALSE
