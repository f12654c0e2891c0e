SPECIFICATION Spec
CONSTANTS
  Specs <- SessionSpecs
  Worlds <- TenantWorlds
  Wants = {"Running"}
  Grace = 2
  OrphanRetention = 1
  Retention = 1
  PullGrace = 1
  MaxTime = 3
  MaxGen = 1
  MaxFaults = 0
PROPERTIES SessionResultKept
CHECK_DEADLOCK FALSE
