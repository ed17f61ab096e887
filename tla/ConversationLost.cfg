CONSTANTS
  MaxTurns = 2
  MaxModelCalls = 1
  MaxCalls = 1
  MaxBatch = 1
  MaxThrows = 1
  MaxFreed = 0
SPECIFICATION Spec
PROPERTY ConversationKept
CHECK_DEADLOCK FALSE
