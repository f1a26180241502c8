SPECIFICATION FairSpec
CONSTANTS
  a = a
  b = b
  r1 = r1
  r2 = r2
  r3 = r3
  r4 = r4
  r5 = r5
  Tabs = {a}
  Reqs = {r1, r2}
  Reads = {r2}
  TabOf <- InOneTab
  Creds = {c1, c2}
  NoReq = NoReq
  NoCred = NoCred
  WebLocks = TRUE
  Failures = TRUE
  ClosingTabs = {}
  MaxRetries = 1
  MaxElsewhere = 2
INVARIANTS
  SignedByNamedKey
  NothingLeftBehind
  GaveUpHoldsNothing
PROPERTIES
  RunsAtMostOnce
  EveryRequestEnds
CHECK_DEADLOCK FALSE
