\* One command, a faithful bearer and equal clocks: what time-outs, crashes and
\* late requests alone can do, and that everything comes to an end.
CONSTANTS
  c1 = c1
  c2 = c2
  Command = {c1}
  None = None
  TTL = 3
  LeaseLength = 2
  MaxTime = 4
  MaxVersion = 1
  MaxFaults = 2
  MayDeny = FALSE
  Revocable = {c1}
  Materials = {"clear"}
  Skews <- SkewNone
SPECIFICATION FairSpec
INVARIANTS
  LeasesDoNotOverlap
  RefusedOnlyIfRevoked
PROPERTIES
  DecisionsGetSettled
  CommandsResolve
