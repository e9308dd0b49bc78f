CONSTANTS
  Keys = {k1, k2}
  Times <- MCTimes
  MinutesPerDay = 7
  MinuteParts = 3
  ServerLimit = 3
  AgentLimit = 4
  BodyLimit = 3
  MaxReads = 3
  MaxRead = 2
  Cookies = {t1, t2}
  MaxUsers = 3
  OwnCookies = {t1}
  MaxOwners = 2
  BuiltInProjects = {alerts, market}
  MarketProject = market
  MaxDeaths = 2
  KeptKeys = {k1}
  Keep = 1
  MaxDay = 4
  MaxReceived = 3
  Publishers = {p1, p2}
  Patient = {p1}
  PublisherKeys = {key}
  NoKey = nokey
  MaxCalls = 2
  MaxVersions = 2
  MaxFaults = 1
SPECIFICATION MCSpec
INVARIANTS TypesOK RowsSummarise AttemptedAsItEnds  SessionsAreCurrent MembersExact RecipientsServed NothingThatMattersForgotten RecordedOnce ToldTruly
PROPERTIES OrderIndependent EpisodesMoveForward LastStepsDown RetriesRecognised
CHECK_DEADLOCK FALSE
