SPECIFICATION StopSpec
CONSTANTS
  SendBuffer = 1
  Clients = {c1, c2}
  Outs = {}
  NoConn = none
  Allow = {}
  MaxSend = 1
  MaxData = 0
INVARIANTS
  ReusedIsOpen
CHECK_DEADLOCK FALSE
