SPECIFICATION Spec
CONSTANTS
  Foci = {"Admission"}
  None = None
  Setups <- MCSetups
  MaxAttempts = 2
  MaxFaults = 1
  Images = {"a", "b"}
  n1 = n1
  n2 = n2
  BaseNames = {1, 2}
  PreWarmPoolSize = 1
  MaxPoolImages = 1
  WarmPoolIdle = 1
  Pools <- MCPools
  KeyIDs = {"k1", "k2"}
  Backoff = 2
  Plans <- MCPlans
  Scenes <- MCScenes
  IdleTimeout = 2
  Requests <- MCRequests
  MaxLines = 3
  Stamps = {1, 2, 3}
  PerSecond = 2
  Callers = {c1, c2}
  ConnIDs = {1, 2, 3}
  Situations <- MCSituations
  Replicas = {r1, r2}
  Users = {1, 2}
  Tenants = {"t1", "t2"}
  Clients = {"c1", "c2"}
  Grants = {1, 2}
  Cases <- MCCases
  Lives <- MCLives
  Audiences = {"x", "y"}
  Lifetime = 1
  MaxNow = 1
  ClassNames = {"x", "y"}
  Courses <- MCCourses
  DefaultScratch = 2
  SnapNames = {"p", "q", "r"}
  PinnedLimit = 3
  Quota = 2
  MinTTL = 1
  Absent <- MCAbsent
  Size = 3
  Values = {0, 1}
  MaxCaptures = 3
  MaxWrites = 3
  MaxParentChain = 1
  ChunkSize = 3
  Width = 8
  ScanChunk = 2
  WindowOverlap = 2
  Servers = {s1, s2}
  NodeLives <- MCNodeLives
PROPERTY DeletedGoes
\* the writes of the users end
CHECK_DEADLOCK FALSE
