\* Two commands on the same run: snapshots, conflicts, the abstract register.
CONSTANTS
  c1 = c1
  c2 = c2
  Command = {c1, c2}
  None = None
  TTL = 2
  LeaseLength = 1
  MaxTime = 3
  MaxVersion = 2
  MaxFaults = 1
  MayDeny = FALSE
  Revocable = {}
  Materials = {"clear"}
  Skews <- SkewNone
SPECIFICATION Spec
SYMMETRY Symmetry
INVARIANTS
  OneActivePerTuple
PROPERTIES
  ImplementsDecision
