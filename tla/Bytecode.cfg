SPECIFICATION MCSpec
CONSTANTS
  Programs <- MCPrograms
  Numbers <- MCNumbers
  MaxSteps = 1000
INVARIANTS TypeOK ParsesAsWritten RunsAsMeant
CHECK_DEADLOCK FALSE
