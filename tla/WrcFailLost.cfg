SPECIFICATION DialogSpec
CONSTANTS
  Configs <- W1r1c1
  MaxLba = 3
  NlbWord = 8
  Faults = {"io"}
  InfiniteLoop = TRUE
  Cancelling = FALSE
INVARIANTS
  OnlyPassedRestarted
CHECK_DEADLOCK FALSE
