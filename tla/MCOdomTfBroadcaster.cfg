SPECIFICATION Spec
CONSTANTS
  Tilts <- MCTilts
  Rates <- MCRates
  MaxTilt = 1
  MaxRate = 2
  cf_tau_ = 3
  MaxDt = 2
  Offset <- MCOffset
  MaxInFlight = 2
  MaxStamp = 6
INVARIANTS TypeOK DriftBounded IntegrationExact StabilizedFed
CHECK_DEADLOCK FALSE
