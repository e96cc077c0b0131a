SPECIFICATION FairSpec
CONSTANTS
  r1 = r1
  r2 = r2
  d1 = d1
  d2 = d2
  Rows = {r1, r2}
  Drains = {d1}
  Kind <- KindLive
  Limit = 2
  MaxAttempts = 2
  Lease = 4
  RecountBudget = 1
  SendBudget = 2
  CallTime = 1
  Stalls = TRUE
  MaxFailuresInARow = 1
  MaxDelay = 1
  MaxHolds = 2
  MaxFaults = 1
  Backoff <- MCBackoff
PROPERTIES
  EveryMailCloses
  ImplementsMailDelivery
