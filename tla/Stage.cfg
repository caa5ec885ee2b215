SPECIFICATION Spec
CONSTANTS
  Session = {a, r, q}
  Local = {a}
  None = None
  Extra = {x}
  RetryLimit = 2
  MaxStaged = 2
  ColumnsThatFit = 2
  MaxPending = 2
  MaxLinks = 1
  MaxInc = 2
  Shown = {a, r}
  Inputs = 2
  Changes = 3
  Faults = 2
  LinkInputs = 3
  LinkChanges = 3
  LinkFaults = 1
INVARIANTS
  TypeOK
  AttachedAsListed
  NoSilentTile
  StageShown
PROPERTIES
  TilesKept
  LinksHeard
CHECK_DEADLOCK FALSE
