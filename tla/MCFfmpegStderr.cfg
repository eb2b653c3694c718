SPECIFICATION FairSpec
CONSTANTS
  Drained = FALSE
  Limit = 2
  PipeSize = 3
  MaxLine = 2
PROPERTY
  NeverStuck
CHECK_DEADLOCK FALSE
