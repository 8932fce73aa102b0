SPECIFICATION FairSpec
CONSTANTS
  n1 = n1
  n2 = n2
  Names <- TwoNames
  Specs <- ThreeSpecs
  MaxGen = 2
  MaxRole = 3
  MaxGroup = 6
  MaxUser = 5
  MaxFaults = 1
INVARIANTS
  TypeOK
  SyncedTruth
PROPERTIES
  ImplementsLifecycle
  NeverTakesWanted
  Converges
CHECK_DEADLOCK FALSE
