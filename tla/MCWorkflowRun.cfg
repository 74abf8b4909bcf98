SPECIFICATION Spec
CONSTANTS
  h1 = h1
  h2 = h2
  Handlers = {h1, h2}
  Engines = {"native", "opencode-http"}
  MaxRevisions = 3
  MaxDesigns = 2
  MaxCoding = 2
  MaxTests = 2
  MaxPackages = 2
  MaxIntents = 3
  MaxCrashes = 1
SYMMETRY HandlerSymmetry
INVARIANTS RunStaysSound GateIsReviewable AcceptedOnEvidence
PROPERTIES ApprovesWhatWasSeen VersionTellsRunsApart
CHECK_DEADLOCK FALSE
