SPECIFICATION Spec
CONSTANTS
  Specs <- FaultSpecs
  Worlds <- SnapshotWorlds
  Wants = {"Running", "Paused"}
  Grace = 2
  OrphanRetention = 1
  Retention = 1
  PullGrace = 1
  MaxTime = 2
  MaxGen = 1
  MaxFaults = 2
CONSTRAINT InScenario
INVARIANTS NoForgottenDeadline ServedOnlyVerified
  
CHECK_DEADLOCK FALSE
