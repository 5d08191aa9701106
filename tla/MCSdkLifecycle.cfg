SPECIFICATION FairSpec
CONSTANTS
  N = 2
  NoItem = NoItem
  Timeouts = TRUE
INVARIANTS TypeOK SilenceReportedOnce ReceiverNeverSleeps Handover 
PROPERTIES StartReturns StopCompletes
CHECK_DEADLOCK FALSE
