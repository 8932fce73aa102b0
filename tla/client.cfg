SPECIFICATION FairSpec
CONSTANTS
  v1 = v1
  v2 = v2
  r1 = r1
  Values <- TwoValues
  Responses <- OneResponse
  Specs <- ThreeSpecs
  Webhooks = TRUE
  MaxInc = 2
  MaxGen = 3
  MaxLag = 3
  MaxUser = 5
  MaxFaults = 1
INVARIANTS
  TypeOK
  NoOrphan
  SyncedTruth
  SecretKeptWithoutFaults
PROPERTIES
  DriftHonest
  OwnClientSafe
  ImplementsLifecycle
  Converges
  Quiesces
CHECK_DEADLOCK FALSE
