SPECIFICATION Spec
CONSTANTS
  Width = 8
  PageSize = 4
  Cells = 4
  MaxCallDepth = 2
  Invocations = 1
  Programs <- MCMisread
  CutPrograms = {}
INVARIANTS HaltsAsReference
