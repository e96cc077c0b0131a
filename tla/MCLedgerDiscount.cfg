SPECIFICATION Spec
CONSTANTS
  i1 = i1
  i2 = i2
  i3 = i3
  s1 = s1
  s2 = s2
  Invoices = {i1, i2, i3}
  Slots = {s1}
  Rates = {0, 25}
  Nets <- Discounted
  Currencies = {"SEK", "EUR"}
  Periods = {2}
  Today = 2
  Texts = {1}
  Details = {1}
  Firsts = {1}
SYMMETRY LedgerSymmetry
CHECK_DEADLOCK FALSE
CONSTRAINT DiscountBounds
INVARIANTS
  NeverOverCredited
  CreditedIffCovered
  RestIsCreditable
  IssuedAtItsRate
