SPECIFICATION Spec
CONSTANTS
  Tabs = {a, b}
  Creds = {c1, c2}
  Wallets = {w1}
  NoCred = NoCred
  NoSession = NoSession
  NoWallet = NoWallet
  SignInTabs = {a, b}
  SignOutTabs = {a, b}
  SwitchTabs = {}
  ReadTabs = {b}
  ShownTabs = {b}
  ReloadTabs = {b}
  Ends = {"ended","capped"}
  Failures = TRUE
  MaxRev = 1
SYMMETRY CredSymmetry
INVARIANTS
  PublishedFollowsState
  SessionMeansNoCleanup
  QuietTabsAgree
PROPERTIES
  LiveKeyKept
  LiveRecordKept
CHECK_DEADLOCK FALSE
