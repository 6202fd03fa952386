SPECIFICATION LFairSpec
CONSTANTS
  Request = {r1, r2}
  Token = {t1}
  None = None
  Unreadable = Unreadable
  MaxTime = 1
  Deployments <- MCDeployments
INVARIANTS
  LTypeOK
  LogoutEndsSession
  CookiesAreCleared
  ChecksAgree
  StopIsOrderly
PROPERTIES
  RevocationIsFinal
  LogoutIsAnswered
  StopEnds
