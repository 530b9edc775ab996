SPECIFICATION Spec
CONSTANTS
  Patterns <- MCPatterns
  Subjects <- MCSubjects
  Limits = {0, 2, 9}
  LastIndexes = {1, 5}
  MaxCalls = 1
INVARIANTS TypeOK MatchesAsReference MatchesInOrder LoopsProgress
PROPERTY CursorAdvances
CHECK_DEADLOCK FALSE
