CONSTANTS
  ann = ann
  bob = bob
  s1 = s1
  s2 = s2
  a1 = a1
  NoMajor = NoMajor
  Users <- MCReader
  Ids <- MCIds
  Keys <- MCKeys
  SenderOf <- MCFromAnn
  Bodies <- MCBodies
  Sends <- MCSends
  Acks <- MCAcks
  AckBy <- MCBobReads
  PageSize = 1
  BatchSize = 1
  MaxAge = 2
  ReadAge = 1
  Skew = 0
  MaxTime = 2
  MaxSends = 3
  MaxAcks = 1
  MaxWalks = 1
SPECIFICATION PageSpec
INVARIANTS
  RetryConverges
  NothingNewerIsMarked
  PagesAreComplete
  ScoresAreExact
SYMMETRY Symmetry
CHECK_DEADLOCK FALSE
