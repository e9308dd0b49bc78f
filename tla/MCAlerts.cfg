CONSTANTS
  Sources = {s1, s2}
  MaxTime = 3
  MaxAlerts = 2
SPECIFICATION FairSpec
INVARIANTS AnnouncedOnce IncidentTracksAlert
PROPERTIES RecoveriesCatchUp
CHECK_DEADLOCK FALSE
