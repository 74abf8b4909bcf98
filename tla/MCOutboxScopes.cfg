\* A run and its evidence, two Team projects, pairing anew at any moment.
SPECIFICATION Spec
CONSTANTS
  Run = Run
  Evidence = {test}
  Runtimes = {}
  Team = {a, b}
  None = None
  Elsewhere = Elsewhere
  FirstPairing = None
  MaxVersion = 2
  MaxRetries = 0
  MaxAttempts = 2
  MaxFaults = 1
  MaxChecks = 0
  MayDeny = TRUE
  NewPairings = {a, b, Elsewhere}
SYMMETRY TeamSymmetry
INVARIANTS
  SendsWithinScope
  CompletedMeansSynced
PROPERTIES
  ScopeNeverChanges
