SPECIFICATION Spec
CONSTANTS
  NoInstance = NoInstance
  i2 = i2
  NumReservations = 3
  Instances = {i1}
  Updaters = {u1}
  Removers = {c1}
  Breakers = {b1}
  Priority <- SamePriority
  Serves <- ServesAll
  Removals = {"finish"}
  LeaveFrom = {"confirming"}
  Failures = {"reserve"}
  InitializationInAccounting = FALSE
CHECK_DEADLOCK FALSE
INVARIANT
  NoSharedInstance
