SPECIFICATION Spec
CONSTANTS
  Specs <- TimedSpecs
  Worlds <- HealthyOnly
  Wants = {"Running"}
  Grace = 2
  OrphanRetention = 1
  Retention = 1
  PullGrace = 1
  MaxTime = 3
  MaxGen = 1
  MaxFaults = 0
INVARIANTS PendingTimesOut
CHECK_DEADLOCK FALSE
