SPECIFICATION LiveSpec
CONSTANTS
  r1 = r1 gone = gone c1 = c1 c2 = c2
  Consumers <- Consumers_
  Runs <- Runs_
  Envelopes <- Envelopes_
  BatchRows = 2
  BufferRows = 2
  MaxEvents = 2
  MaxEpoch = 2
  MaxFaults = 1
  Nobody = Nobody
  Departed = Departed
INVARIANTS NothingLost RunOrder PlaneInv
PROPERTIES InOrderOnce EventsArrive
CHECK_DEADLOCK FALSE
