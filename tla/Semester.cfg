SPECIFICATION Spec
CONSTANTS
  Requests = {r1, r2}
  Photos = {p1}
  Retention = 1
  MaxOps = 2
  MaxWrites = 2
  MaxFaults = 2
  MaxTime = 2
SYMMETRY Symmetry
INVARIANTS
  NothingLost
  PicturesKept
  ReadyIsWhole
  OfferedIsPossible
PROPERTIES
  RestoredExactly
CHECK_DEADLOCK FALSE
