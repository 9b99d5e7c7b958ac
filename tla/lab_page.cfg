SPECIFICATION FairSpec
CONSTANTS
  NumReservations = 2
  Setups <- AllSetups
  Impatience = {}
CHECK_DEADLOCK FALSE
INVARIANT
  TypeOK
  NobodyHeldUp
  OneReservationEach
  RemoteIsKept
PROPERTY
  EndIsNoticed
  PollingStops
  ResultsArrive
