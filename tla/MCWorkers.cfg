SPECIFICATION WorkersSpec
CONSTANTS
  MaxWrites = 3
  Capacity = 1
  Hosts = {"a", "b"}
  Dirs = {"d", "e"}
  FollowRedirect = 1
  NFiles = 2
  MaxEdits = 1
  MaxGraphStarts = 3
  TwoThreads = FALSE
  Windows = {{"edit"}, {"browser", "page", "copies"}, {"automation", "emptyValue"}}
  MaxSelections = 2
  MaxMonitorStarts = 2
  MaxBusEvents = 2
  MaxSubs = 2
  MaxStreams = 2
  Removes = FALSE
  Prompts = {p1, p2, p3}
  Seed = p1
  NCases = 2
  CheckAfter = 1
  TopK = 2
  MaxBrood = 1
  Limits = {0, 2}
  Patience = 2
  Backups = 2
  MaxRuns = 2
  MaxCount = 4
INVARIANTS QuietAfterStop 
PROPERTIES Outcomes BestKept CallsEnd 
CHECK_DEADLOCK FALSE
