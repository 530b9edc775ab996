SPECIFICATION FairSpec
CONSTANTS
  Specifiers = 3
  MaxImports = 2
  MaxRecords = 3
  MaxDynamic = 2
  MaxDepth = 7
  Circular = 1
  StarImports = TRUE
INVARIANTS TypeOK ImportsReady EvaluatedOnce
PROPERTIES LoadEnds
CHECK_DEADLOCK FALSE
