SPECIFICATION FairSpec
CONSTANTS
  Drained = TRUE
  Limit = 2
  PipeSize = 3
  MaxLine = 3
PROPERTIES
  DrainedNeverStuck
  EndsForCause
CHECK_DEADLOCK FALSE
