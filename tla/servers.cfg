SPECIFICATION Spec
CONSTANTS
  Conns = {c1, c2}
  NoConn = noConn
  Sockets = {s1, s2, s3, s4}
  NoSocket = noSocket
  Programs = {"FlashPolicy", "TestEcho", "RZRQServer", "TestEchoClient"}
  Request = 2
INVARIANTS
  TypeOK
  SocketsAgree
  PolicyAnswered
PROPERTIES
  VisitsEnd
CHECK_DEADLOCK FALSE
