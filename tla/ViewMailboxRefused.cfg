SPECIFICATION Spec
CONSTANTS
  EpochLimit = 3
  RevisionLimit = 1
  SentLimit = 0
  EventLimit = 1
INVARIANTS RefusedShowsNothing
CHECK_DEADLOCK FALSE
