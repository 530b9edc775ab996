SPECIFICATION FairSpec
CONSTANTS
  Delays = {0, 1}
  MaxClock = 3
  MaxIterations = 4
  MicrotaskLimit = 2
  MaxTimers = 3
  MaxQueued = 1
  NoTimer = NoTimer
INVARIANTS TypeOK ScheduledOnce FiresInOrder
PROPERTIES ClearedStaysQuiet RunEnds
