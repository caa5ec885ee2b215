SPECIFICATION LifecycleFairSpec
CONSTANTS
  StartLimit = 1
  EmitLimit = 2
  EventLimit = 1
  ByteLimit = 4
  Sizes = {1}
  Epochs = {0}
  Users = {""}
  Types = {"other"}
  StartsFail = FALSE
PROPERTIES StartingEnds
\* the runtimes and the events of the instance run out
CHECK_DEADLOCK FALSE
