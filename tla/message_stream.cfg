SPECIFICATION Spec
CONSTANTS
  Base = 6
  MaxString = 12
  MaxVector = 4
  NameSize = 4
  SessionSize = 3
  KeyLen = 4
  MaxData = 34
  PacketLen = 10
  SendBuffer = 40
  RecvBuffer = 40
  LogicBuffer = 60
  MaxPackets = 8
  Layouts <- MCLayouts
  Scripts <- MCScripts
INVARIANTS
  TypeOK
PROPERTIES
  StreamInOrder
  AllDelivered
CHECK_DEADLOCK FALSE
