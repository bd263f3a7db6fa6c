SPECIFICATION Spec
CONSTANTS
  SendBuffer = 1
  Clients = {c1}
  Outs = {o1}
  NoConn = none
  Allow <- Refused
  MaxSend = 1
  MaxData = 1
INVARIANTS
  TypeOK
  AssertionsHold
  IocprefCounts
  OneSendOneReceive
  ReceiveArmed
  NothingStranded
PROPERTIES
  NoStalePacket
