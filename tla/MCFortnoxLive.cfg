SPECIFICATION FairSpec
CONSTANTS
  r1 = r1
  r2 = r2
  NoRun = NoRun
  LastEntry = 2
  LastConn = 1
  Runs = {r1}
  Lease = 2
  Budget = 1
  Softs = {0}
  VoucherLeft = 1
  PdfLeft = 1
  FileLeft = 1
  Unsure = 2
  Landing = 1
  Scan = 2
  MaxOthers = 1
  MaxAttempts = 1
  MaxSlow = 0
  MaxFaults = 1
INVARIANTS
  WithinScan
  CutOff
PROPERTIES
  ImplementsVoucherBook
  EveryEntryIsBooked
  EveryStopIsLifted
