SPECIFICATION FairSpec
CONSTANTS
    m1 = m1
    m2 = m2
    e1 = e1
    p1 = p1
    Mails = {m1, m2}
    Links = {m1}
    EdgeWorkers = {e1}
    PythonWorkers = {p1}
    NoWorker = NoWorker
    MaxAttempts = 3
    Lease = 2
    WallClock = 1
    LinkLife = 3
    MaxDelay = 4
    BatchSize = 2
    EdgeConcurrency = 2
    MaxLosses = 2
INVARIANTS
  OneCopy
  EdgeHoldsItsLease
  GivesUpInTime
PROPERTIES
  EveryMailEnds
CHECK_DEADLOCK FALSE
