SPECIFICATION FairSpec
CONSTANTS
  MaxQueues = 2
  MaxEvents = 0
CHECK_DEADLOCK FALSE
INVARIANT OnlineIsCreated
