SPECIFICATION FairSpec
CONSTANTS
  NoInstance = NoInstance
  i2 = i2
  NumReservations = 3
  Instances = {i1, i2}
  Updaters = {u1}
  Removers = {c1}
  Breakers = {}
  Priority <- LastIsFirst
  Serves <- SecondOnly
  Removals = {"finish", "expire", "poll"}
  LeaveFrom = {"reserved"}
  Failures = {}
  InitializationInAccounting = FALSE
CHECK_DEADLOCK FALSE
INVARIANT
  OneSession
  NoSlotLost
PROPERTY
  WaitingIsServed
  SlotsComeBack
