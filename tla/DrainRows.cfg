SPECIFICATION RowSpec
CONSTANTS
  lane = lane
  drain = drain
  loopback = loopback
  Name = {lane, drain, loopback}
  Kinds <- MCKinds
  Capacity <- MCCapacity
  MaxVisits <- MCMaxVisits
  Loopback = loopback
  MaxCron = 1
  Lane = lane
  Drain = drain
  MaxMoves = 2
CHECK_DEADLOCK FALSE
INVARIANTS RowTypeOK ReviewsAccountedFor 
PROPERTIES WorkSettles 
