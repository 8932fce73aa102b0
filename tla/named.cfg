SPECIFICATION FairSpec
CONSTANTS
  c = c
  d = d
  k1 = k1
  k2 = k2
  b1 = b1
  b2 = b2
  Other = Other
  CRs <- TwoCRs
  Keys <- TwoKeys
  Bodies <- OneBody
  Specs <- ThreeSpecs
  Kinds <- EachControl
  Unique = FALSE
  MaxGen = 2
  MaxId = 6
  MaxUser = 3
  MaxFaults = 1
INVARIANTS
  TypeOK
  NoOrphan
  NoDouble
  SyncedTruth
  DriftHonest
PROPERTY Converges
CHECK_DEADLOCK FALSE
