SPECIFICATION HSpec
CONSTANTS
  Process = {p1, p2}
  Key = {k1}
  Value = {v1}
  Call = {c1, c2}
  None = None
  RedisConfigured = TRUE
  TTL = 1
  Latency = 1
  KeyInvalidator = {p1}
  BulkInvalidator = {p1}
  Restartable = {p1}
SYMMETRY CallSymmetry
INVARIANTS
  CacheAgeInv
  SettledIsFresh
PROPERTIES
  AnswersBoundedStale
  ImplementsFlagStore
  SettledReadsAreCurrent
