SPECIFICATION Spec
CONSTANTS
  Addresses = {ip1}
  NoThread = noThread
  MaxPools = 2
  MaxStarts = 3
  MaxObjects = 2
INVARIANTS
  TypeOK
  OneDispatcher
  
  OnceIsSafe
PROPERTIES
  StopEnds
CHECK_DEADLOCK FALSE
