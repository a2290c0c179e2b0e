SPECIFICATION LiveSpec
CONSTANTS
  s1 = s1 s2 = s2 q1 = q1
  NumRuns = 2
  Legacy <- Legacy_
  Slots <- One_
  Readers <- Reader_
  Broken <- Broken2_
  Unreachable <- First_
  BatchRows = 2
  PageRows = 1
  MaxAttempts = 2
  MaxEvents = 2
  MaxFaults = 1
  MaxRearms = 1
  Nobody = Nobody
  Departed = Departed
INVARIANTS ViewFollowsCursor ProjectionInv
PROPERTIES PoisonNeedsRepair EventsProject
CHECK_DEADLOCK FALSE
