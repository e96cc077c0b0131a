SPECIFICATION Spec
CONSTANTS
  r1 = r1
  r2 = r2
  NoRun = NoRun
  LastEntry = 1
  LastConn = 1
  Runs = {r1}
  Lease = 2
  Budget = 1
  Softs = {0}
  VoucherLeft = 1
  PdfLeft = 1
  FileLeft = 1
  Unsure = 2
  Landing = 1
  Scan = 2
  MaxOthers = 0
  MaxAttempts = 1
  MaxSlow = 1
  MaxFaults = 1
INVARIANTS
  HandedOverIsNotInFortnox
