SPECIFICATION Spec
CONSTANTS
  Reservations = {r1}
  Schedulers = {s1, s2}
  Servers = {v1}
  Workers = {w1}
  LeaveFrom = {"reserved"}
  Removals = {"expire", "drop"}
  Slow = {}
  NoReservation = NoReservation
  NoScheduler = NoScheduler
CHECK_DEADLOCK FALSE
INVARIANTS
  NothingLeftBehind
