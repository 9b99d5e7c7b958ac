SPECIFICATION Spec
CONSTANTS
  NoInstance = NoInstance
  i2 = i2
  NumReservations = 2
  Instances = {i1}
  Updaters = {u1, u2}
  Removers = {c1}
  Breakers = {}
  Priority <- SamePriority
  Serves <- ServesAll
  Removals = {"finish", "poll", "expire", "drop"}
  LeaveFrom = {"waiting", "confirming", "reserved"}
  Failures = {}
  InitializationInAccounting = TRUE
CHECK_DEADLOCK FALSE
SYMMETRY Symmetry
INVARIANT
  NoSharedInstance
  NotForgotten
  SlotHeldOnce
  FinishedIsOver
  ReservedHasSession
