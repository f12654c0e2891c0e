SPECIFICATION Spec
CONSTANTS
  Durables = {TRUE, FALSE}
  Wants = {"Running", "Paused", "Suspended"}
  MaxDiffChain = 1
  MaxSeq = 3
  MaxPods = 3
  MaxDisruptions = 1
  MaxKeks = 2
  FaultKinds = {"crash", "lag", "rpc", "save", "answer", "patch", "delete", "key"}
  MaxFaults = 1
CONSTRAINT InScenario
INVARIANTS TypeOK SuspendKeepsState StoredIsNamed Erased 
PROPERTIES RestoredOnce
CHECK_DEADLOCK FALSE
