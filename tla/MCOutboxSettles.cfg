\* A run and an agent runtime under one of its versions, saved while uploads time
\* out, die with the process and arrive late: everything ends, the last save wins.
SPECIFICATION FairSpec
CONSTANTS
  Run = Run
  Evidence = {}
  Runtimes = {runtime}
  Team = {a}
  None = None
  Elsewhere = Elsewhere
  FirstPairing = a
  MaxVersion = 2
  MaxRetries = 1
  MaxAttempts = 2
  MaxFaults = 1
  MaxChecks = 1
  MayDeny = FALSE
  NewPairings = {a}
PROPERTIES
  OperationsSettle
  SavedIsSynced
