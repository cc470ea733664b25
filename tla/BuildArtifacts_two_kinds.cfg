CONSTANTS
  b1 = b1
  b2 = b2
  b3 = b3
  Builder = {b1, b2}
  KindOf <- MCKinds
  BaseOf <- OneBase
  NoFile = NoFile
  NoBase = NoBase
  StaleAge = 1
  MaxWait = 2
  HoldBound = 1
  MaxBuilds = 2
  MaxCrashes = 1
  MaxEdits = 2
SPECIFICATION Spec
INVARIANTS NextDirExclusive
CHECK_DEADLOCK FALSE
