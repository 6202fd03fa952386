SPECIFICATION HSpec
CONSTANTS
  Process = {p1, p2}
  Key = {k1}
  Value = {v1}
  Call = {c1, c2}
  None = None
  RedisConfigured = TRUE
  TTL = 1
  Latency = 1
  KeyInvalidator = {p1, p2}
  BulkInvalidator = {}
  Restartable = {p2}
SYMMETRY CallSymmetry
PROPERTIES
  NextReadGoesToDb
