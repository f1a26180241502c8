SPECIFICATION Spec
CONSTANTS
  tab1 = tab1
  tab2 = tab2
  c1 = c1
  c2 = c2
  l1 = l1
  l2 = l2
  Signers = {tab1, tab2}
  Calls = {c1, c2}
  Loads = {l1, l2}
  Single = {tab2}
  MaxKey = 2
  MaxNonce = 1
INVARIANTS
  ReadyKeyWasStored
PROPERTIES
  NoncesIncrease
SYMMETRY Symmetric
CHECK_DEADLOCK FALSE
