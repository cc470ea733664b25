CONSTANTS
  Worker = {w1, w2, w3}
  NoFile = NoFile
  StaleAge = 2
  HoldBound = 3
  Crashable = {w1}
SPECIFICATION FairSpec
INVARIANTS TypeOK MutualExclusion
PROPERTIES NoTheft Serializes Progress
