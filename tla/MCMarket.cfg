CONSTANTS
  Servers = {p, q}
  Users = {u}
  Prices = {1, 2}
  MaxSnapshots = 2
  MaxRules = 1
  MaxAttempts = 1
  MaxFaults = 1
SPECIFICATION FairSpec
INVARIANTS   HealthyIsCurrent 
PROPERTIES WantedIsTold
