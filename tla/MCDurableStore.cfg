\* Three durable calls in any order, failing anywhere, with two crashes.
CONSTANTS
  composite = composite
  single = single
  look = look
  Call = {composite, single, look}
  Parts <- MCParts
  MaxCrashes = 2
SPECIFICATION FairSpec
INVARIANTS
  AllOrNothing
  AnswersAreTrue
  AheadOnlyByRunning
  RevisionTellsChange
PROPERTIES
  ImplementsAtomicStore
  CallsEnd
