SPECIFICATION Spec
CONSTANTS
  c1 = c1 s1 = s1 c2 = c2 w1 = w1
  r1 = r1 rs = rs r2 = r2 r3 = r3 rw = rw a1 = a1 a2 = a2
  Cmd <- Cmd_
  Req <- Req_
  CmdOf <- CmdOf_
  Kind <- Kind_
  Epoch <- Epoch_
  Asg <- Asg_
  Target <- Target_
  NoAsg = NoAsg
  None = None
  MaxCrashes = 1
SYMMETRY Symmetry_
CONSTRAINT Scenario_
INVARIANTS AtMostOnce OneOwningEpoch ProofMeansGone AgentIsObliged ReleasedIsGone
PROPERTIES ExecutesAfterRetirement RefinesRunOwner
CHECK_DEADLOCK FALSE
