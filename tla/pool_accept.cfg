SPECIFICATION Spec
CONSTANTS
  SendBuffer = 1
  Clients = {c1, c2}
  Outs = {}
  NoConn = none
  Allow <- Tolerated
  MaxSend = 0
  MaxData = 1
INVARIANTS
  CloseIsLast
  FreeIsClean
  ListsAgree
  AcceptBacklog
PROPERTIES
  ClosedStaysClosed
  SessionSpec
