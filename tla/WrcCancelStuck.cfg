SPECIFICATION DialogSpec
CONSTANTS
  Configs <- W1r1c1
  MaxLba = 3
  NlbWord = 8
  Faults = {}
  InfiniteLoop = FALSE
  Cancelling = TRUE
PROPERTIES
  WaitingHelps
CHECK_DEADLOCK FALSE
