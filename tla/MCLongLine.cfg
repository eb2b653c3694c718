SPECIFICATION FairSpec
CONSTANTS
  Drained = TRUE
  Limit = 2
  PipeSize = 3
  MaxLine = 3
PROPERTY
  NeverStuck
CHECK_DEADLOCK FALSE
