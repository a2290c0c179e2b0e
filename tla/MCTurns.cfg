SPECIFICATION Spec
CONSTANTS
  c1 = c1 p1 = p1 p2 = p2 d1 = d1 w2 = w2
  rc = rc rp = rp rq = rq rd = rd rw = rw a1 = a1 a2 = a2
  Cmd <- Cmd_
  Req <- Req_
  CmdOf <- CmdOf_
  Kind <- Kind_
  Epoch <- Epoch_
  Asg <- Asg_
  Target <- Target_
  NoAsg = NoAsg
  None = None
  MaxCrashes = 1
SYMMETRY Symmetry_
INVARIANT IInv
 
CHECK_DEADLOCK FALSE
