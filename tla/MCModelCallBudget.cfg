\* Three calls against a budget for one, a card and an approval, without faults.
SPECIFICATION Spec
CONSTANTS
  b1 = b1
  b2 = b2
  e1 = e1
  Call = {b1, b2, e1}
  Bounded = {b1, b2}
  Price <- Prices
  Limit = 1
  Allowance = 1
  MaxUses = 1
  MaxMonth = 1
  MaxEdits = 0
  MaxCards = 2
  Unknown = Unknown
  None = None
  MaxFaults = 0
  MaxLate = 0
SYMMETRY CallSymmetry
INVARIANTS
  NeverOverspent
CHECK_DEADLOCK FALSE
