\* Five instructions through a reorder buffer of two entries: every entry is
\* reused at least once and the ring wraps twice.
CONSTANTS
  NumOps = 5
  RobSize = 2
  IssueQueueCapacity = 2
SPECIFICATION Spec
INVARIANTS
  RobHoldsInFlight
  MapNamesOccupant
  OldestCanIssue
PROPERTIES
  ImplementsInOrderCommit
