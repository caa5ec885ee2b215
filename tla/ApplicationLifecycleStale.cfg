SPECIFICATION LifecycleSpec
CONSTANTS
  StartLimit = 2
  EmitLimit = 1
  EventLimit = 2
  ByteLimit = 4
  Sizes = {1}
  Epochs = {0}
  Users = {""}
  Types = {"other"}
  StartsFail = TRUE
INVARIANTS OwnEvents
\* the runtimes and the events of the instance run out
CHECK_DEADLOCK FALSE
