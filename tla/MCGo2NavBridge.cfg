SPECIFICATION Spec
CONSTANTS
  NaN = NaN
  Inf = Inf
  NonFinite <- MCNonFinite
  Twists <- MCWild
  linear_max_param = 1
  angular_max_param = NaN
  watchdog_timeout_param = 2
  kLinearMax = 1
  kAngularMax = 1
  kDefaultWatchdogMs = 2
  kStopRepublishMs = 5
  kMaxPeriodMs = 100
  CmdVelDepth = 1
  FlushMs = 1
  Lag = 1
  Exec = 1
  MaxFaults = 1
  MaxJump = 1
  Horizon = 0
INVARIANTS TypeOK WithinLimits Heartbeat StopFlagTruthful StopLatency StopInv RetryLatency
PROPERTIES NoSpuriousStop KeepsGate
