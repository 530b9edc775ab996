SPECIFICATION Spec
CONSTANTS
  Capacity = 2
  Tenuring = 2
  MaxObjects = 3
  MaxCycles = 2
  MaxHandles = 1
  MaxRoots = 1
  MaxScopes = 1
  MaxEdges = 1
  NoObject = NoObject
  NoId = NoId
INVARIANTS TypeOK ToSpaceSuffices GlobalRootsFollow NurseryEdgesIntact MarksReachable FreeListOK
CHECK_DEADLOCK FALSE
