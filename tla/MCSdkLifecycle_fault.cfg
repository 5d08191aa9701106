SPECIFICATION FairSpec
CONSTANTS
  N = 2
  NoItem = NoItem
  Timeouts = FALSE
PROPERTIES ReceiveExits
CHECK_DEADLOCK FALSE
