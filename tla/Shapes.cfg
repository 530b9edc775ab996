SPECIFICATION Spec
CONSTANTS
  Names = 2
  Loads = {2}
  Stores = {2}
  Keyed = {2}
  Deletes = {1}
  LiteralSize = 2
  Scanned = 2
  Data = {d}
  Functions = {f}
  Stored <- StoredMixed
  PoolSize = 1
  MaxObjects = 2
  Address = {root, a1, a2}
  RootMap = root
  Undefined = Undefined
  Nobody = Nobody
INVARIANTS TypeOK OwnLoadsRight StoresLand
SYMMETRY Addresses
VIEW Seen
CHECK_DEADLOCK FALSE
