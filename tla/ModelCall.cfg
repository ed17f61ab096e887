CONSTANTS
  MaxTurns = 2
  MaxNodeRuns = 2
  MaxRetry = 2
SPECIFICATION Spec
INVARIANTS
  ModelHasTheTurn
PROPERTIES
  EveryRetryUsed
  
CHECK_DEADLOCK FALSE
