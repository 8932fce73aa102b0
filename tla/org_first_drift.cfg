SPECIFICATION Spec
CONSTANTS
  c = c
  d = d
  o1 = o1
  o2 = o2
  v1 = v1
  v2 = v2
  None = None
  CRs <- TwoCRs
  Orgs <- TwoOrgs
  Homes <- Shared
  Sections <- PolicyThenLimits
  Values <- TwoValues
  Defaults <- Unasked
  Specs <- TwoSpecs
  MaxGen = 2
  MaxUser = 1
  MaxFaults = 0
INVARIANT DriftIsOutOfBand
CHECK_DEADLOCK FALSE
