SPECIFICATION Spec
CONSTANTS
  l1 = l1
  l2 = l2
  g1 = g1
  g2 = g2
  m1 = m1
  m2 = m2
  r1 = r1
  r2 = r2
  NoLink = NoLink
  NoLogin = NoLogin
  NoMember = NoMember
  Links = {l1, l2}
  Logins = {g1}
  Members = {m1}
  Requests = {r1, r2}
  Life = 1
  CodeLife = 1
  MaxCodes = 1
  MaxAttempts = 2
  MaxNow = 1
  MaxVersion = 1
  MaxChanges = 2
SYMMETRY ShareSymmetry
CONSTRAINT OneCoded
CHECK_DEADLOCK FALSE
INVARIANTS
  TypeOK
  OpenedOnce
  NoDeadlock
PROPERTIES
  LinkLifetime
