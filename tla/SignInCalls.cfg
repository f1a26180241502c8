SPECIFICATION Spec
CONSTANTS
  c1 = c1
  c2 = c2
  c3 = c3
  c4 = c4
  Calls = {c1, c2, c3}
  Kinds = {"signOut", "startEmail", "startRedirect", "idToken", "email", "callback", "select", "import"}
  MaxKey = 2
  MaxReload = 1
SYMMETRY Symmetric
INVARIANTS
  TypeOK
  SessionIsAuthorised
  CallbackSentOnce
  SelectionIsExclusive
PROPERTIES
  OvertakenNeverSignsIn
CHECK_DEADLOCK FALSE
