SPECIFICATION Spec
CONSTANTS
  v1 = v1
  v2 = v2
  r1 = r1
  Values <- TwoValues
  Responses <- OneResponse
  Specs <- TwoSpecs
  Webhooks = TRUE
  MaxInc = 1
  MaxGen = 2
  MaxLag = 3
  MaxUser = 2
  MaxFaults = 1
INVARIANT SecretNeverLost
CHECK_DEADLOCK FALSE
