SPECIFICATION Spec
CONSTANTS
  Width = 8
  PageSize = 4
  Cells = 4
  MaxCallDepth = 2
  Invocations = 2
  Programs <- MCPrograms
  CutPrograms <- MCCut
INVARIANTS FollowsText CutsRefused
