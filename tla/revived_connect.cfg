SPECIFICATION Spec
CONSTANTS
  SendBuffer = 1
  Clients = {}
  Outs = {o1}
  NoConn = none
  Allow = {"firstRecv"}
  MaxSend = 1
  MaxData = 0
INVARIANTS
  ReturnedIsQuiet
CHECK_DEADLOCK FALSE
