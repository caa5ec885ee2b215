SPECIFICATION Spec
CONSTANTS
  EpochLimit = 4
  ChangeLimit = 5
  RefusalLimit = 1
  SizeLimit = 2
  QueueLimit = 2
  BatchLimit = 1
INVARIANTS
  TypeOK
  RetryIsComing
  AgreeOnceSettled
  InputInTurn
CHECK_DEADLOCK FALSE
