CONSTANTS
  Unlimited = 1000000
  NoAccount = "outside"
  Clients = {c1, c2}
  Scopes <- MCScopes
  Start <- MCStart
  Horizon = 2
SPECIFICATION Spec
INVARIANTS RowsCurrent WritesSound LoanWhole
PROPERTIES ImportLands
CHECK_DEADLOCK FALSE
