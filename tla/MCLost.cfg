SPECIFICATION LiveSpec
CONSTANTS
  c1 = c1 p1 = p1 w2 = w2 rc = rc rp = rp rw = rw a1 = a1 a2 = a2
  Cmd <- Cmd_
  Req <- Req_
  CmdOf <- CmdOf_
  Kind <- Kind_
  Epoch <- Epoch_
  Asg <- Asg_
  Target <- Target_
  NoAsg = NoAsg
  None = None
  MaxCrashes = 2
PROPERTIES LostWorkSettles
CHECK_DEADLOCK FALSE
