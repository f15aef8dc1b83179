SPECIFICATION MCSpec
CONSTANTS
  Configs <- AllTests
  MaxLba = 4
  NlbWord = 8
  Faults = {"io"}
  InfiniteLoop = TRUE
  Cancelling = TRUE
INVARIANTS
  TeamSharesStep
  PassMeansTested
  SweepLengths
  NoCommandOutlivesTask
  RestartMeansTested
PROPERTIES
  WritesOnlyAsked
  WorkerEnds
  TestsEnd
CHECK_DEADLOCK FALSE
