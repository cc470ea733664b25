CONSTANTS
  t1 = t1
  t2 = t2
  t3 = t3
  p1 = p1
  p2 = p2
  Task = {t1, t2, t3}
  ProcOf <- Procs
  Probes = {}
  Unserialized = {}
  Killable = {}
  NoFile = NoFile
  StaleAge = 1
  AggressiveAge = 1
  PollThreshold = 1
  MaxAttempts = 2
  NoSlot = NoSlot
  SlotStaleAge = 1
  LaunchBound = 1
  SlotErrors = TRUE
SPECIFICATION FairSpec
PROPERTIES NoLaunchQueuesForEver
CHECK_DEADLOCK FALSE
