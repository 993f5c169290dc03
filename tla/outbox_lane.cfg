\* An owner route and a plain message in one lane, two Hosts that may stall, a
\* provider that reconciles too early, and a retry of the first message.
SPECIFICATION Spec
CONSTANTS
  l1 = l1
  Hosts = {h1, h2}
  NoOwner = NoOwner
  NMsg = 2
  Lanes <- Lane1
  LaneOf <- OneLane
  Routes <- First1
  Maintenance <- None
  ReconLanes <- Lane1
  Verdicts <- PolicyAnswers
  MaxAttempts = 1
  MaxConcurrency = 1
  MaxGen = 2
  MaxRetries <- RetryFirst
  MayDrain = FALSE
  StalledDispatch = TRUE
  RacyReconcile = TRUE
SYMMETRY SymHosts
INVARIANTS LaneExclusive InOrder RouteAtMostOnce
