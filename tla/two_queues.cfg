SPECIFICATION FairSpec
CONSTANTS
  Reservations = {r1}
  Schedulers = {s1, s2}
  Servers = {v1}
  Workers = {w1, w2}
  LeaveFrom = {"reserved"}
  Removals = {"expire"}
  Slow = {}
  NoReservation = NoReservation
  NoScheduler = NoScheduler
CHECK_DEADLOCK FALSE
INVARIANTS
  TypeOK
  OneScheduler
  PromotedOnce
  StillSomewhere
  NothingLeftBehind
  SlotAccounted
PROPERTIES
  WaitingIsServed
  ImplementsSingleAssignment
