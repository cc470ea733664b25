CONSTANTS
  b1 = b1
  b2 = b2
  b3 = b3
  Builder = {b1, b2, b3}
  KindOf <- MCKinds
  BaseOf <- OneBase
  NoFile = NoFile
  NoBase = NoBase
  StaleAge = 1
  MaxWait = 3
  HoldBound = 2
  MaxBuilds = 1
  MaxCrashes = 1
  MaxEdits = 1
SPECIFICATION Spec
SYMMETRY MCSymmetry
INVARIANTS TypeOK   SameKindExclusive WaitAccountedFor
 
CHECK_DEADLOCK FALSE
