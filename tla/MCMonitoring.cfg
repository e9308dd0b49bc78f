CONSTANTS
  Endpoints = {e}
  AiTargets = {t}
  Nodes = {n}
  Server = Server
  Interval = 2
  OfflineAfter = 1
  MaxTime = 4
  MaxTokens = 2
  MaxCrashes = 1
SPECIFICATION MCSpec
INVARIANTS NothingOfTheDeleted ProbesSpaced DrainsWhenDisabled
PROPERTIES  RotatedOut
CHECK_DEADLOCK FALSE
