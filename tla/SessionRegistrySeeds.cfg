SPECIFICATION FairSpec
CONSTANTS
  SurfaceLimit = 3
  SubLimit = 2
  SequenceLimit = 0
  RevisionLimit = 0
  MaxSurfaces = 2
  MaxSeeds = 2
  Faults = FALSE
INVARIANTS TypeOK SeedsOwed
PROPERTIES Shown
\* every surface of the instance may have come and gone
CHECK_DEADLOCK FALSE
