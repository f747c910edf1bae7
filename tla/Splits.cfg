SPECIFICATION Spec
CONSTANTS
  s1 = s1
  k1 = k1
  User = {u1, u2}
  srcOwner = u1
  Split = {s1, s2}
  Key = {k1, k2}
  Handler = {h1, h2}
  Scopes <- EachHazard
  Payment = {p1}
  Total = {3}
  Paid = {1, 2}
  none = none
SYMMETRY Calls
CHECK_DEADLOCK FALSE
INVARIANTS HistorySound RetriesSafe
