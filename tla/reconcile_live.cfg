SPECIFICATION FairSpec
CONSTANTS
  Specs <- LiveSpecs
  Worlds <- HealthyOnly
  Wants = {"Running"}
  Grace = 2
  OrphanRetention = 1
  Retention = 1
  PullGrace = 1
  MaxTime = 1
  MaxGen = 1
  MaxFaults = 1
PROPERTIES OverMeansGone PolicyRestored
CHECK_DEADLOCK FALSE
