SPECIFICATION FairSpec
CONSTANTS
  Depth = 3
  Entries <- MCEntries
  Qids = {0, 1}
  MaxRetries = 1
  AbortLimit = 1
  MaxAsked = 3
INVARIANTS
  PhaseTellsPosted
  CommandsMatchRequests
PROPERTIES
  SentIsEnded
CHECK_DEADLOCK FALSE
