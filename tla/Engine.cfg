CONSTANTS
  Unlimited = 1000000
  NoAccount = "outside"
  Requests <- MCRequests
  NoPlan = none
  NoSession = none
  Workers = {w1, w2}
  Batch = 2
SPECIFICATION MonteCarloSpec
INVARIANTS EverythingExecuted HistoryExact ReportsExact PurchaseQueueRight BranchContinues SustainedEarliest SessionExact
PROPERTIES MoneyMoves SessionEnds
CHECK_DEADLOCK FALSE
