SPECIFICATION Spec
CONSTANTS
  NoInstance = NoInstance
  i2 = i2
  NumReservations = 1
  Instances = {i1}
  Updaters = {u1}
  Removers = {c1}
  Breakers = {b1, b2}
  Priority <- SamePriority
  Serves <- ServesAll
  Removals = {}
  LeaveFrom = {"waiting", "confirming", "reserved"}
  Failures = {"reserve", "checker"}
  InitializationInAccounting = FALSE
CHECK_DEADLOCK FALSE
SYMMETRY Symmetry
INVARIANT
  TypeOK
