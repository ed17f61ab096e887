SPECIFICATION Spec
CONSTANTS
  N = 3
  Workers = 2
  MaxConnections = 2
  MaxRequests = 2
INVARIANTS
  StreamsRegistered
PROPERTIES
  ConnectionsEnd
  StartEnds
CHECK_DEADLOCK FALSE
