\* One command under every hazard: clock skew, revocation, changing material,
\* denied bearers, crashes, time-outs and late requests.
CONSTANTS
  c1 = c1
  c2 = c2
  Command = {c1}
  None = None
  TTL = 2
  LeaseLength = 1
  MaxTime = 2
  MaxVersion = 2
  MaxFaults = 2
  MayDeny = TRUE
  Revocable = {c1}
  Materials = {"clear", "blocked"}
  Skews <- SkewBoth
SPECIFICATION Spec
INVARIANTS
  TeamRecordsTruth
  DecidedUnderLease
  AcknowledgedMeansRecorded
  DrainedBeforeInbox
PROPERTIES
  AppliesOnlyWhenCurrent
  DecidedOnce
  TerminalIsFinal
