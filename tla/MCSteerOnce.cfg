SPECIFICATION Spec
CONSTANTS
  s1 = s1 d1 = d1 k1 = k1
  Cmd <- Steer_
  Class <- SteerClass_
  MaxAttempts = 1
  Periodic = FALSE
  MaxCrashes = 1
  MaxRestarts = 0
  NoRow = NoRow
  None = None
INVARIANT ConvertedNotInjected
CHECK_DEADLOCK FALSE
