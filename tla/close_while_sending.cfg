SPECIFICATION FairSpec
CONSTANTS
  SendBuffer = 1
  Clients = {}
  Outs = {o1}
  NoConn = none
  Allow = {}
  MaxSend = 1
  MaxData = 0
PROPERTIES
  CloseIsAnswered
