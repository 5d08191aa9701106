SPECIFICATION FairSpec
CONSTANTS
  N = 2
  NoItem = NoItem
  Timeouts = FALSE
PROPERTIES StopEndsRun
CHECK_DEADLOCK FALSE
