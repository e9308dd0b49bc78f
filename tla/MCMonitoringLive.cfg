CONSTANTS
  Endpoints = {e}
  AiTargets = {}
  Nodes = {n}
  Server = Server
  Interval = 0
  OfflineAfter = 0
  MaxTime = 0
  MaxTokens = 1
  MaxCrashes = 2
SPECIFICATION MCFairSpec
PROPERTIES AlertsClear
CHECK_DEADLOCK FALSE
