SPECIFICATION FairSpec
CONSTANTS
  ScriptKinds = {"eval"}
  MaxPromises = 3
  MaxCalls = 5
  MaxDepth = 12
  MaxScripts = 1
  Plain = Plain
  Thenable = Thenable
  CycleError = CycleError
  Thrown = Thrown
  None = None
INVARIANTS TypeOK ReactionOwed AdoptionFollows
PROPERTIES SettledOnce ThenOrder CheckpointEnds
CHECK_DEADLOCK FALSE
