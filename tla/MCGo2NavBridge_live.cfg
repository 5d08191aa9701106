SPECIFICATION FairSpec
CONSTANTS
  NaN = NaN
  Inf = Inf
  NonFinite <- MCNonFinite
  Twists <- MCStandOrMove
  linear_max_param = 1
  angular_max_param = NaN
  watchdog_timeout_param = 1
  kLinearMax = 1
  kAngularMax = 1
  kDefaultWatchdogMs = 2
  kStopRepublishMs = 3
  kMaxPeriodMs = 100
  CmdVelDepth = 1
  FlushMs = 1
  Lag = 0
  Exec = 1
  MaxFaults = 1
  MaxJump = 0
  Horizon = 0
PROPERTIES EventuallyStopped ShutdownCompletes
