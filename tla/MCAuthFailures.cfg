SPECIFICATION WSpec
CONSTANTS
  Window = 4
  Interval = 1
  AlertLatency = 1
  MaxTimestamps = 2
  MaxEvents = 3
  Threshold <- MCThreshold
INVARIANTS
  TypeOK
  WindowIsExact
  AlertsAreTrue
  BurstsMeetTheirDeadline
