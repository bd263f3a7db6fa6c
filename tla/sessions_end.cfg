SPECIFICATION FairSpec
CONSTANTS
  SendBuffer = 1
  Clients = {c1}
  Outs = {o1}
  NoConn = none
  Allow = {}
  MaxSend = 0
  MaxData = 0
PROPERTIES
  PeerCloseIsReported
  IdleCloseIsAnswered
  ObjectsComeBack
