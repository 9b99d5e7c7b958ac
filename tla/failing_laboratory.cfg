SPECIFICATION Spec
CONSTANTS
  NoInstance = NoInstance
  i2 = i2
  NumReservations = 2
  Instances = {i1}
  Updaters = {u1}
  Removers = {c1}
  Breakers = {b1, b2}
  Priority <- SamePriority
  Serves <- ServesAll
  Removals = {"finish", "expire"}
  LeaveFrom = {"reserved"}
  Failures = {"reserve", "free"}
  InitializationInAccounting = FALSE
CHECK_DEADLOCK FALSE
INVARIANT
  NotForgotten
PROPERTY
  ImplementsAllocation
