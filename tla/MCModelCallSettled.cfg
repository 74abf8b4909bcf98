\* Two calls lost, settled again and corrected by leads, at the turn of a month.
SPECIFICATION Spec
CONSTANTS
  b1 = b1
  b2 = b2
  e1 = e1
  Call = {b1, e1}
  Bounded = {b1}
  Price <- Prices
  Limit = 2
  Allowance = 0
  MaxUses = 1
  MaxMonth = 2
  MaxEdits = 1
  MaxCards = 0
  Unknown = Unknown
  None = None
  MaxFaults = 2
  MaxLate = 1

INVARIANTS
  EveryCallIsBooked
  ForgottenMeansSettled
  LeadsOverruleKnowingly
CHECK_DEADLOCK FALSE
