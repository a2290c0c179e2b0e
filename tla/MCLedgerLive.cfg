SPECIFICATION LiveSpec
CONSTANTS
  s1 = s1 d1 = d1 k1 = k1
  Cmd <- Pair_
  Class <- PairClass_
  MaxAttempts = 1
  Periodic = TRUE
  MaxCrashes = 1
  MaxRestarts = 1
  NoRow = NoRow
  None = None
PROPERTY LedgerCloses
CHECK_DEADLOCK FALSE
