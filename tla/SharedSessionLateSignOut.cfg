SPECIFICATION Spec
CONSTANTS
  Tabs = {a, b}
  Creds = {c1}
  Wallets = {w1}
  NoCred = NoCred
  NoSession = NoSession
  NoWallet = NoWallet
  SignInTabs = {a}
  SignOutTabs = {a}
  SwitchTabs = {}
  ReadTabs = {}
  ShownTabs = {}
  ReloadTabs = {}
  Ends = {}
  Failures = FALSE
  MaxRev = 2
PROPERTIES
  SignOutWins
CHECK_DEADLOCK FALSE
