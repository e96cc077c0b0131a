SPECIFICATION Spec
CONSTANTS
  r1 = r1
  r2 = r2
  d1 = d1
  d2 = d2
  Rows = {r1, r2}
  Drains = {d1, d2}
  Kind <- KindReport
  Limit = 2
  MaxAttempts = 3
  Lease = 3
  RecountBudget = 0
  SendBudget = 1
  CallTime = 1
  Stalls = FALSE
  MaxFailuresInARow = 1
  MaxDelay = 1
  MaxHolds = 2
  MaxFaults = 2
  Backoff <- MCBackoff
SYMMETRY DrainSymmetry
INVARIANTS
  TypeOK
  HeldIsLeased
  DeliveryAccount
  NoOrphanWithoutFault
PROPERTIES
  ClosedIsFinal
