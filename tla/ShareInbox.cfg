SPECIFICATION Spec
CONSTANTS
  Handler = {h1, h2}
  Key = {k1}
  Scopes <- EachHazard
  MaxCopies = 2
  None = None
SYMMETRY Handlers
CHECK_DEADLOCK FALSE
INVARIANTS OneCopyAccounted
PROPERTIES DecisionsHold
