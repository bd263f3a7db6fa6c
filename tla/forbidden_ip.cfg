SPECIFICATION Spec
CONSTANTS
  SendBuffer = 1
  Clients = {c1, c2}
  Outs = {}
  NoConn = none
  Allow = {"forbidIP"}
  MaxSend = 1
  MaxData = 0
INVARIANTS
  ClosedWasInUse
CHECK_DEADLOCK FALSE
