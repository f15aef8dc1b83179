SPECIFICATION OthersSpec
CONSTANTS
  Slba = 3
  Nlb = 7
  QDepth = 2
  NlbPerBuf = 2
  FillFaults = {"io", "ctor", "short", "submit"}
  CompareFaults = {"io"}
  ReadFaults = {"io", "ctor", "submit"}
  OldDisk <- WrongEverywhere
  AnyDisk <- SomewhereWrong
  GoodDisk <- RightEverywhere
INVARIANTS
  CancelSeesAssignedHandlers
  VerdictSound
PROPERTIES
  EveryClassImplementsRangeJob
  Terminates
CHECK_DEADLOCK FALSE
