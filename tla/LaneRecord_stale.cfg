SPECIFICATION Spec
CONSTANTS
  p1 = p1
  p2 = p2
  a = a
  b = b
  Process = {p1, p2}
  Lane = {a}
  Branch = {a, b}
  NoBranch = NoBranch
  PrdBranch <- MCPrdBranch
  NoLane = NoLane
  NoFile = NoFile
  Garbled = Garbled
  MaxPulls = 1
  MaxSwitches = 1
  MaxSetups = 2
  MaxKills = 1
SYMMETRY MCSymmetry
INVARIANTS StaleWhenRefreshFails
CHECK_DEADLOCK FALSE
