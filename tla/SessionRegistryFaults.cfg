SPECIFICATION Spec
CONSTANTS
  SurfaceLimit = 2
  SubLimit = 2
  SequenceLimit = 1
  RevisionLimit = 3
  MaxSurfaces = 2
  MaxSeeds = 2
  Faults = TRUE
INVARIANTS Contiguity NoSpuriousFault LastFrameDelivered NoStranding
PROPERTIES CalledOnlyWhileRegistered
\* the surfaces, the data and the revisions of the instance run out
CHECK_DEADLOCK FALSE
