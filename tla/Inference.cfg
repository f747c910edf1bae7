SPECIFICATION Spec
CONSTANTS
  w1 = w1
  Row = {1, 2, 3}
  Fact <- Facts
  MaxRevision = 4
  Worker = {w1, w2}
  MaxRun = 12
  KeepRuns = 1
  MaxFault = 2
  Sched = {g1, g2}
  Limit = 2
  Scopes <- EachHazard
  none = none
CHECK_DEADLOCK FALSE
INVARIANTS DerivedIsCurrent GeneratedIsBacked
PROPERTIES OwnerHeard 
