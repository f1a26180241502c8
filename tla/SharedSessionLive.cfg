SPECIFICATION FairSpec
CONSTANTS
  Tabs = {a, b}
  Creds = {c1, c2}
  Wallets = {w1, w2}
  NoCred = NoCred
  NoSession = NoSession
  NoWallet = NoWallet
  SignInTabs = {a}
  SignOutTabs = {b}
  SwitchTabs = {b}
  ReadTabs = {}
  ShownTabs = {}
  ReloadTabs = {}
  Ends = {}
  Failures = TRUE
  MaxRev = 1
INVARIANT
  QuietTabsAgree
PROPERTIES
  SignOutReachesTabs
  SignInReachesTabs
CHECK_DEADLOCK FALSE
