SPECIFICATION FairSpec
CONSTANTS
  Reservations = {r1}
  NoReservation = NoReservation
  Clients = {c1}
  Purgers = {p1}
  Unwatched = {}
  ChecksWhileReserving = TRUE
CHECK_DEADLOCK FALSE
PROPERTY
  GoneIsFinished
