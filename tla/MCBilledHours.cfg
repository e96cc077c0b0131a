SPECIFICATION Spec
CONSTANTS
  u1 = u1
  u2 = u2
  l1 = l1
  l2 = l2
  l3 = l3
  i1 = i1
  i2 = i2
  r1 = r1
  r2 = r2
  NoLine = NoLine
  Off = Off
  NoInvoice = NoInvoice
  Units = {u1, u2}
  LastHour = 2
  FirstUnits <- OneHour
  Lines = {l1, l2, l3}
  Invoices = {i1, i2}
  Requests = {r1, r2}
  MaxAside = 1
  MaxGone = 1
SYMMETRY HoursSymmetry
CHECK_DEADLOCK FALSE
INVARIANTS
  TypeOK
  HoursAccounted
  IssueNeverMismatched
  NoDeadlock
PROPERTIES
  ImplementsHourBook
