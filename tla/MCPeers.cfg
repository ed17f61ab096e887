SPECIFICATION PeersSpec
CONSTANTS
  MaxPrompts = 2
  StringIds = {2}
  Sessions = {s1, s2}
  MaxInflight = 1
  MaxCancels = 1
  None = None
  ClientCalls = 3
  MaxStarts = 2
  MaxNoise = 1
  OverlappingWrites = TRUE
  ServingThreads = {w1}
  Entries = {e1, e2}
  MaxChanges = 3
  EditorCalls = 2
  MessageThreads = {t1}
  MaxMessages = 3
  Words = {x, open, close}
  ThinkOpen = open
  ThinkClose = close
  Indices = {0, 1}
  MaxEvents = 3
  ServerEnds = TRUE
INVARIANTS PromptsAccounted  StreamRead
 
CHECK_DEADLOCK FALSE
