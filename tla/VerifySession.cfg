CONSTANTS
  w1 = w1
  w2 = w2
  Worker = {w1, w2}
  Spawning = {w1}
  Serialized = {w1, w2}
  MaxPort = 2
  Free = Free
  Foreign = Foreign
  MaxAttempts = 2
  MaxSessions = 2
  MaxForeign = 1
SPECIFICATION FairSpec
INVARIANTS TypeOK  PortsAccountedFor
PROPERTIES NotFooledByPeer StartSettles
CHECK_DEADLOCK FALSE
