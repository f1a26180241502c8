SPECIFICATION FairSpec
CONSTANTS
  t1 = t1
  Txns = {t1}
  MaxRevision = 6
INVARIANTS
  UntoldNeverRuns
PROPERTIES
  OnlyDeadSessionsExpire
  EveryCallEnds
CHECK_DEADLOCK FALSE
