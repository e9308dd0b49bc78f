CONSTANTS
  Attempts = {a, b}
  Retries = 1
  MaxNames = 2
  MaxJobs = 3
  MaxFaults = 1
SYMMETRY Calls
SPECIFICATION Spec
INVARIANTS DevicesOfCurrentAccount DevicesWork NobodyForgotten
CHECK_DEADLOCK FALSE
