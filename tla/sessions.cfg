SPECIFICATION FairSpec
CONSTANTS
  Reservations = {r1}
  NoReservation = NoReservation
  Clients = {c1, c2}
  Purgers = {p1}
  Unwatched = {r1}
  ChecksWhileReserving = FALSE
CHECK_DEADLOCK FALSE
INVARIANT
  TypeOK
  Watched
  OneAtATime
PROPERTY
  GoneIsFinishedWhileChecked
  FinishedIsTold
  RequestsEnd
