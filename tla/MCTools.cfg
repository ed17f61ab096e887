SPECIFICATION MCSpec
CONSTANTS
  Running = {"edits", "search", "rules", "text", "patterns", "chunks", "stored", "turns", "asked", "encoded"}
  Calls = {"c1", "c2"}
  Letters = {"x"}
  LineBreak = "nl"
  MaxFile = 2
  MaxLine = 2
  SizeMax = 7
  Files = {1, 2, 3}
  MaxFileChanges = 1
  MaxSize = 2
  Routers = {"r1"}
  Kinds = {"read"}
  Segments = {"a"}
  Star = "*"
  Depth = 2
  MaxRules = 2
  Cleared = FALSE
  TurnPaths = {"p"}
  KeepRecent = 2
  MaxTurnMessages = 5
  MaxIds = 2
  TurnTexts = {"t"}
  MaxBlocks = 2
  MaxMessages = 5
  Streamed = FALSE
    
PROPERTIES OwnRules
CHECK_DEADLOCK FALSE
