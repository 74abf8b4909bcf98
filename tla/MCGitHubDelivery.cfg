\* Two attempts with two credentials each, two calls side by side, four faults.
SPECIFICATION Spec
CONSTANTS
  MaxAttempts = 2
  MaxGrants = 2
  Call = {one, two}
  None = None
  MaxFaults = 4
SYMMETRY CallSymmetry
CHECK_DEADLOCK FALSE
INVARIANTS
  OneLiveToken
  AnsweredMeansCleared
  EndsAreTrue
