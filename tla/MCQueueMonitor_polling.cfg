SPECIFICATION FairSpec
CONSTANTS
  Process = {p1, p2}
  Host = p1
  Job = {j1, j2}
  None = None
  Attempts = 2
  Concurrency = 1
  KeepFailed = 2
  KeepCompleted = 1
  MaxStalled = 1
  FailedThreshold = 1
  WaitingThreshold = 1
PROPERTIES
  PollingContinues
