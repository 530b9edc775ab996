SPECIFICATION Spec
CONSTANTS
  Capacity = 2
  Tenuring = 2
  MaxObjects = 2
  MaxCycles = 2
  MaxHandles = 0
  MaxRoots = 1
  MaxScopes = 0
  MaxEdges = 1
  NoObject = NoObject
  NoId = NoId
INVARIANT RememberedSetComplete
CHECK_DEADLOCK FALSE
