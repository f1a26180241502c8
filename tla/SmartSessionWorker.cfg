SPECIFICATION Spec
CONSTANTS
  c1 = c1
  c2 = c2
  c3 = c3
  Calls = {c1, c2, c3}
  Scripts <- Mixes
  Approvals = {a1}
  MaxCredential = 2
  MaxSession = 2
  MaxTrouble = 1
CHECK_DEADLOCK FALSE
INVARIANTS
  DecidedOnce
  RecordsOfThisKey
  SpentIsRecorded
  DismissedIsOver
