CONSTANTS
  Names = {n1, n2}
  Unknown = Unknown
  MaxRequests = 2
  MaxTasks = 2
  MaxLost = 1
SPECIFICATION Spec
INVARIANTS
  RunsAccounted
PROPERTIES
  BatchEnds
CHECK_DEADLOCK FALSE
