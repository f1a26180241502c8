SPECIFICATION Spec
CONSTANTS
  e1 = e1
  e2 = e2
  sol = sol
  c1 = c1
  c2 = c2
  Calls = {c1, c2}
  Kinds = {"connect", "reconnect", "request", "disconnect", "sign"}
  Ethereum = {e1, e2}
  Others = {sol}
  MaxChange = 2
  MaxListener = 2
  MaxStorage = 2
SYMMETRY Symmetric
INVARIANTS
  TypeOK
  ListensOnlyConnected
  FlagIsStored
  AppShowsWallet
CHECK_DEADLOCK FALSE
