CONSTANTS
  MaxTurns = 2
  MaxModelCalls = 2
  MaxCalls = 3
  MaxBatch = 3
  MaxThrows = 1
  MaxFreed = 1
SPECIFICATION Spec
INVARIANTS
  NoRerun
  RepliesFollowTheirCall
  OnlyAbandonedUnanswered

  
CHECK_DEADLOCK FALSE
