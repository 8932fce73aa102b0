SPECIFICATION FairSpec
CONSTANTS
  v1 = v1
  v2 = v2
  r1 = r1
  Values <- TwoValues
  Responses <- OneResponse
  Specs <- TwoSpecs
  Webhooks = TRUE
  MaxInc = 1
  MaxGen = 2
  MaxLag = 3
  MaxUser = 4
  MaxFaults = 0
PROPERTY NeverStuck
CHECK_DEADLOCK FALSE
