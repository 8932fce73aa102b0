SPECIFICATION Spec
CONSTANTS
  a = a
  s = s
  None = None
  Objects <- Both
  Stubborn <- OnlyStubborn
  Cap = 2
  Replay = 1
  MaxFeed = 2
  MaxEdits = 2
  MaxFaults = 0
INVARIANT CollapsingLosesNothing
CHECK_DEADLOCK FALSE
