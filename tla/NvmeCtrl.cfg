SPECIFICATION FairSpec
CONSTANTS
  MaxQueues = 2
  MaxEvents = 2
INVARIANTS
  FreedIsUnused
  LiveAnswers
PROPERTIES
  WorkEndsOrIsHeld
CHECK_DEADLOCK FALSE
