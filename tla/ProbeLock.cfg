CONSTANTS
  t1 = t1
  t2 = t2
  t3 = t3
  t4 = t4
  p1 = p1
  p2 = p2
  p3 = p3
  Task = {t1, t2, t3, t4}
  ProcOf <- Procs
  Probes = {t1, t2, t3, t4}
  Unserialized = {p3}
  Killable = {p2}
  NoFile = NoFile
  StaleAge = 3
  AggressiveAge = 1
  PollThreshold = 2
SPECIFICATION ProbeFairSpec
INVARIANTS DepthCounts ProbesExclusive
PROPERTIES ProbesEnd
CHECK_DEADLOCK FALSE
