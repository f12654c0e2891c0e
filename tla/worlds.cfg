SPECIFICATION Spec
CONSTANTS
  Specs <- WorldSpecs
  Worlds <- RoughWorlds
  Wants = {"Running"}
  Grace = 1
  OrphanRetention = 1
  Retention = 1
  PullGrace = 1
  MaxTime = 2
  MaxGen = 2
  MaxFaults = 1
CONSTRAINT InScenario
ACTION_CONSTRAINT SameKind
INVARIANTS TypeOK WorkspaceKept
PROPERTIES EphemeralResultKept
CHECK_DEADLOCK FALSE
