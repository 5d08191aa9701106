SPECIFICATION SysSpec
CONSTANTS
  NaN = NaN
  NonFinite <- MCNonFinite
  Twists <- MCTwists
  linear_max_param = 1
  angular_max_param = 1
  watchdog_timeout_param = 2
  kLinearMax = 1
  kAngularMax = 1
  kDefaultWatchdogMs = 2
  kStopRepublishMs = 3
  kMaxPeriodMs = 100
  CmdVelDepth = 1
  FlushMs = 1
  Lag = 0
  Exec = 1
  MaxFaults = 1
  MaxJump = 0
  Horizon = 12
  RespawnDelay = 3
  MaxLossBurst = 1
  MaxCrashes = 1
INVARIANTS RunawayBound RespawnStops
