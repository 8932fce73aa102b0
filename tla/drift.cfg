SPECIFICATION FairSpec
CONSTANTS
  a = a
  s = s
  None = None
  Objects <- Both
  Stubborn <- OnlyStubborn
  Cap = 1
  Replay = 1
  MaxFeed = 1
  MaxEdits = 1
  MaxFaults = 1
INVARIANTS
  TypeOK
  NothingLost
PROPERTIES
  Corrected
  SwiftCadence
  Backstop
CHECK_DEADLOCK FALSE
