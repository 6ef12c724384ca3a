SPECIFICATION FTFairSpec
CONSTANTS
  Job = {j1, j2}
  All = all
  PageSize = {1, 2}
  busyTimeout = 1
  MaxRows = 3
  MaxSecond = 1
INVARIANTS
  FTTypeOK
  WalkComplete
  RepeatsBounded
  GivesUpLate
PROPERTIES
  PageAnswered
