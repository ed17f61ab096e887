CONSTANTS
  MaxRequests = 2
  MaxServers = 2
  MaxRefusals = 1
  Answers = {a1, a2}
  None = None
  Timeout = Timeout
SPECIFICATION Spec
INVARIANTS
  NoSlotLeak
  OwnAnswer
PROPERTIES
  ImplementsAsyncRequest
CHECK_DEADLOCK FALSE
