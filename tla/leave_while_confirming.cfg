SPECIFICATION Spec
CONSTANTS
  NoInstance = NoInstance
  i2 = i2
  NumReservations = 2
  Instances = {i1}
  Updaters = {u1}
  Removers = {c1}
  Breakers = {}
  Priority <- SamePriority
  Serves <- ServesAll
  Removals = {"finish"}
  LeaveFrom = {"confirming", "reserved"}
  Failures = {}
  InitializationInAccounting = FALSE
CHECK_DEADLOCK FALSE
INVARIANT
  OneSession
