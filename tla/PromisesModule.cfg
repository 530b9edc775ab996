SPECIFICATION Spec
CONSTANTS
  ScriptKinds = {"module"}
  MaxPromises = 2
  MaxCalls = 3
  MaxDepth = 12
  MaxScripts = 1
  Plain = Plain
  Thenable = Thenable
  CycleError = CycleError
  Thrown = Thrown
  None = None
PROPERTY SettledOnce
CHECK_DEADLOCK FALSE
