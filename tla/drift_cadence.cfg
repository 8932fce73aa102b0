SPECIFICATION FairSpec
CONSTANTS
  a = a
  s = s
  None = None
  Objects <- OnlyStubborn
  Stubborn <- OnlyStubborn
  Cap = 1
  Replay = 1
  MaxFeed = 1
  MaxEdits = 0
  MaxFaults = 0
PROPERTY PollCadence
CHECK_DEADLOCK FALSE
