SPECIFICATION GuardedFairSpec
CONSTANTS
  feed = feed
  health = health
  flag = flag
  Process = {p1, p2}
  Key = {flag}
  Value <- MCValue
  Route <- MCRoute
  FlagOf <- MCFlagOf
  Call = {c1, c2}
  None = None
  RedisConfigured = TRUE
  TTL = 1
  Latency = 1
  KeyInvalidator = {}
  BulkInvalidator = {}
  Restartable = {p2}
PROPERTIES
  ImplementsGuard
  RequestsAreDecided
  SwitchesTakeEffect
