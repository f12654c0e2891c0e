SPECIFICATION Spec
CONSTANTS
  Durables = {TRUE}
  Wants = {"Running"}
  MaxDiffChain = 1
  MaxSeq = 2
  MaxPods = 1
  MaxDisruptions = 0
  MaxKeks = 1
  FaultKinds = {"save"}
  MaxFaults = 1
INVARIANTS DiffCountsFromParent
CHECK_DEADLOCK FALSE
