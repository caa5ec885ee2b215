SPECIFICATION Spec
CONSTANTS
  Process = {p1, p2, p3, p4}
  None = None
  Absent = Absent
  RotationBytes = 2
  MaxArchives = 2
  MaxFamilies = 1
  RecordLimit = 5
  TotalLimit = 7
  FaultLimit = 1
INVARIANTS
  TypeOK
  HistoryKept
  Bounded
  ActiveNotPruned
SYMMETRY Symmetry
CHECK_DEADLOCK FALSE
