SPECIFICATION Spec
CONSTANTS
  StartLimit = 1
  EmitLimit = 3
  EventLimit = 2
  ByteLimit = 2
  Sizes = {1}
  Epochs = {0, 1, 2}
  Users = {"", "a", "b"}
  Types = {"auth.ready", "system.ready", "other"}
  StartsFail = TRUE
INVARIANTS AccountFenced
\* the runtimes and the events of the instance run out
CHECK_DEADLOCK FALSE
