SPECIFICATION Spec
CONSTANTS
  d1 = d1 d2 = d2
  Drivers <- Drivers_
  Ceiling = 1
  MaxEpoch = 2
  MaxCreates = 2
  MaxFaults = 1
  Nobody = Nobody
  NoSession = NoSession
INVARIANTS SingleAgent LiveSessionKept SettledIsBound OwnedInv
PROPERTY BindingAdvances
SYMMETRY Symmetry_
CHECK_DEADLOCK FALSE
