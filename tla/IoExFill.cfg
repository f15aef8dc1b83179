SPECIFICATION CommandSpec
CONSTANTS
  Slba = 3
  Nlb = 13
  QDepth = 3
  NlbPerBuf = 2
  Kind = "fill"
  Sequential = FALSE
  Uniform = FALSE
  Stamp = TRUE
  Faults = {"io", "ctor"}
  DiskContents <- OldDisk
INVARIANTS
  SlicesDisjoint
  InFlightDataRight
  SuccessLeavesNothingInFlight
  DumpNamesFailedBlock
  FinishedBlocksSurvive
PROPERTIES
  ImplementsRangeJob
CHECK_DEADLOCK FALSE
