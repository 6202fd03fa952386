SPECIFICATION GuardSpec
CONSTANTS
  feed = feed
  health = health
  flag = flag
  Key = {flag}
  Value <- MCValue
  Call = {c1, c2}
  None = None
  StaleBound = 1
  Route <- MCRoute
  FlagOf <- MCFlagOf
PROPERTIES
  KillSwitch
  RefusalsAreMeant
