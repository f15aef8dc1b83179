SPECIFICATION FairSpec
CONSTANTS
  MaxNs = 3
  PageSize = 2
  MaxObjects = 4
  MaxChanges = 2
  MaxFailures = 1
  MaxOpens = 1
INVARIANTS
  ScanIsRight
  
  
PROPERTIES
  ChangeArrives
CHECK_DEADLOCK FALSE
