SPECIFICATION Spec
CONSTANTS
  Request = {r1, r2}
  Route = {"health", "register"}
  Buckets = 2
  RedisConfigured = FALSE
  ErrorPercent = 5
  Percentile = 95
  LatencyThreshold = 1
SYMMETRY RequestSymmetry
CHECK_DEADLOCK FALSE
PROPERTIES
  SlownessIsAlerted
