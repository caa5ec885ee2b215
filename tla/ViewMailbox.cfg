SPECIFICATION FairSpec
CONSTANTS
  EpochLimit = 6
  RevisionLimit = 2
  SentLimit = 3
  EventLimit = 2
INVARIANTS TypeOK DrainIsComing EventsInOrder EndedInItsTurn
PROPERTIES NewestFrameShown OverflowDetaches
\* the attachments, the frames and the events of the instance run out
CHECK_DEADLOCK FALSE
