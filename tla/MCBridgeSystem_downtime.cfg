SPECIFICATION SysSpec
CONSTANTS
  NaN = NaN
  NonFinite <- MCNonFinite
  Twists <- MCTwists
  linear_max_param = 1
  angular_max_param = 1
  watchdog_timeout_param = 2
  kLinearMax = 1
  kAngularMax = 1
  kDefaultWatchdogMs = 2
  kStopRepublishMs = 5
  kMaxPeriodMs = 100
  CmdVelDepth = 1
  FlushMs = 1
  Lag = 0
  Exec = 0
  MaxFaults = 0
  MaxJump = 0
  Horizon = 20
  RespawnDelay = 4
  MaxLossBurst = 0
  MaxCrashes = 1
INVARIANT WatchdogCoversDowntime
