SPECIFICATION FairSpec
CONSTANTS
  MaxPosts = 4
  MaxReplies = 4
  Terminate = Terminate
INVARIANTS TypeOK InOrder TerminateFlushes EarlyMessagesKept
PROPERTIES Delivers NoWaitForEver
CHECK_DEADLOCK FALSE
