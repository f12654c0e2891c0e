SPECIFICATION Spec
CONSTANTS
  Specs <- UntimedSpecs
  Worlds <- ClassWorlds
  Wants = {"Running"}
  Grace = 2
  OrphanRetention = 1
  Retention = 1
  PullGrace = 1
  MaxTime = 3
  MaxGen = 1
  MaxFaults = 0
PROPERTIES OrphanReapSparesPods
CHECK_DEADLOCK FALSE
