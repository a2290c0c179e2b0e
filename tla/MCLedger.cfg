SPECIFICATION Spec
CONSTANTS
  s1 = s1 d1 = d1 k1 = k1
  Cmd <- Trio_
  Class <- TrioClass_
  MaxAttempts = 2
  Periodic = TRUE
  MaxCrashes = 1
  MaxRestarts = 1
  NoRow = NoRow
  None = None
INVARIANTS MessageFollowsLedger AttemptBudget LedgerInv
PROPERTY ClosedStays
CONSTRAINT PairOrCreate_
CHECK_DEADLOCK FALSE
