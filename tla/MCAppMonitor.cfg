SPECIFICATION FairSpec
CONSTANTS
  Request = {r1, r2}
  Route = {"admin", "unknown", "root", "flagged", "register", "metrics"}
  Buckets = 2
  RedisConfigured = TRUE
  ErrorPercent = 40
  Percentile = 50
  LatencyThreshold = 1
CHECK_DEADLOCK FALSE
INVARIANTS
  TypeOK
  ServedAreCounted
  
PROPERTIES
  ErrorRateIsReal
  LatencyOfOneRoute
  MonitoringGoesOn
