SPECIFICATION FairSpec
CONSTANTS
  k1 = k1
  k2 = k2
  o1 = o1
  c1 = c1
  c2 = c2
  c3 = c3
  None = None
  Kinds <- TwoKinds
  Slugs <- OneOrg
  ConnIds <- ThreeConns
  MaxUser = 3
  MaxFaults = 1
INVARIANTS
  TypeOK
  NoLeak
PROPERTIES
  ClosesOnlyVanished
  OnlyTwoWedges
  Opens
  EnsureReturns
  AllExit
CHECK_DEADLOCK FALSE
