SPECIFICATION FairSpec
CONSTANTS
  MaxTime = 5
  MaxSignIns = 2
  MaxRevision = 3
  MaxTroubles = 1
  o1 = o1
  Ops = {o1}
  Idle = 3
  Latency = 0
  Lifetime = 4
  MaxTimer = 2
  RetryMin = 1
  RetryMax = 1
  Interval = 1
  Unsupported = 1
  BadRoutes = TRUE
INVARIANTS
  TypeOK
  ExpiryIsItsOwn
  Watched
  OneForegroundRead
PROPERTIES
  NoEarlyEnd
  ExpiredSessionDecided
CHECK_DEADLOCK FALSE
