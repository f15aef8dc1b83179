SPECIFICATION Spec
CONSTANTS
  MaxNs = 3
  PageSize = 2
  MaxObjects = 3
  MaxChanges = 2
  MaxFailures = 0
  MaxOpens = 1
INVARIANTS
  RemovalStaysOnList
CHECK_DEADLOCK FALSE
