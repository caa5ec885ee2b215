SPECIFICATION LifecycleFairSpec
CONSTANTS
  StartLimit = 3
  EmitLimit = 3
  EventLimit = 2
  ByteLimit = 3
  Sizes = {1, 2}
  Epochs = {0}
  Users = {""}
  Types = {"other"}
  StartsFail = TRUE
INVARIANTS LifecycleTypeOK NoGap OwnUnlessFailed StateIsTrue CountersExact
PROPERTIES AttemptEnds RuntimesOwned
\* the runtimes and the events of the instance run out
CHECK_DEADLOCK FALSE
