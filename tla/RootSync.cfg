SPECIFICATION Spec
CONSTANTS
  a = a
  b = b
  Lane = {a, b}
  Theirs = {b}
  Left = {a}
  Attended = {a}
  NoCommit = NoCommit
  NoLane = NoLane
  MaxMerges = 2
  MaxEdits = 1
  MaxRuns <- MCMaxRuns
  MaxSweeps = 1
INVARIANTS TypeOK 
PROPERTIES MainMovesForward  LaneWorkKept
CHECK_DEADLOCK FALSE
