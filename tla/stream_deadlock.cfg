SPECIFICATION FairSpec
CONSTANTS
  k1 = k1
  k2 = k2
  o1 = o1
  c1 = c1
  c2 = c2
  c3 = c3
  None = None
  Kinds <- OneKind
  Slugs <- OneOrg
  ConnIds <- TwoConns
  MaxUser = 2
  MaxFaults = 0
PROPERTY ShutsDown
CHECK_DEADLOCK FALSE
