SPECIFICATION Spec
CONSTANTS
  Posters = {p1, p2}
  NoThread = none
  NoObject = noObject
  AllocBlockSize = 1
  Levels = {"INFO"}
  MaxLogCount = 2
  Calendar <- NewYear
  MaxPieces = 2
  MaxLines = 3
  MaxEvents = 4
  MaxRuns = 2
INVARIANTS
  TypeOK
  WriterWoken
  OneWriter
  PacketsHeldOnce
  RightFile
PROPERTIES
  InOrder
  FiniEnds
  Drains
CHECK_DEADLOCK FALSE
