SPECIFICATION Spec
CONSTANTS
  a = a
  b = b
  r1 = r1
  r2 = r2
  r3 = r3
  r4 = r4
  r5 = r5
  Tabs = {a, b}
  Reqs = {r1, r2, r3, r4, r5}
  Reads = {r2}
  TabOf <- ThirdElsewhere
  Creds = {c1}
  NoReq = NoReq
  NoCred = NoCred
  WebLocks = TRUE
  Failures = FALSE
  ClosingTabs = {b}
  MaxRetries = 2
  MaxElsewhere = 0
SYMMETRY RequestSymmetry
CONSTRAINT FewRequests
INVARIANTS
  OneAtATime
  ReadsAlone
  NoNonceRejected
CHECK_DEADLOCK FALSE
