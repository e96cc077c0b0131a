SPECIFICATION FairSpec
CONSTANTS
  r1 = r1
  r2 = r2
  d1 = d1
  d2 = d2
  Rows = {r1, r2}
  Drains = {d1}
  Kind <- KindKick
  Limit = 2
  MaxAttempts = 2
  Lease = 3
  RecountBudget = 1
  SendBudget = 1
  CallTime = 1
  Stalls = FALSE
  MaxFailuresInARow = 1
  MaxDelay = 1
  MaxHolds = 2
  MaxFaults = 0
  Backoff <- MCBackoff
PROPERTIES
  EveryMailCloses
