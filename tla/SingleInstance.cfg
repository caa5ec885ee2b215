SPECIFICATION Spec
CONSTANTS
  Process = {p1, p2, p3}
  None = None
  Routed = {p1}
  Misrouted = {p2}
  Tokened = {p1, p3}
  MaximumClients = 1
  Remembered = 1
  AttemptLimit = 3
  CrashLimit = 1
  LossLimit = 2
INVARIANTS
  TypeOK
  OneOwner
  ActedOnce
  ForwardedIsActedOn
CHECK_DEADLOCK FALSE
