SPECIFICATION Spec
CONSTANTS
  e1 = e1
  e2 = e2
  p1 = p1
  p2 = p2
  c1 = c1
  c2 = c2
  NoEntry = NoEntry
  NoProject = NoProject
  NoCall = NoCall
  Entries = {e1, e2}
  Projects = {p1, p2}
  Calls = {c1, c2}
  Cap = 2
  UndoWindow = 1
  MaxNow = 3
  MaxTyped = 2
SYMMETRY TimerSymmetry
CHECK_DEADLOCK FALSE
INVARIANTS
  TypeOK
  OneRunning
  TimerOverlapImpossible
  SummaryIsTotalUnlessCrossed
PROPERTIES
  AutoStopOnce
  DeletedStays
