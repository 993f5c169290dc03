\* A turn, a permission command and a /stop, two Hosts.
SPECIFICATION Spec
CONSTANTS
  a = a  b = b
  Hosts = {h1, h2}
  NoHost = NoHost
  NMsg = 3
  Convs = {a}
  ConvOf <- ConvStop
  KindOf <- KindStop
  MaxAttempts = 2
  MaxConcurrency = 1
  MaxRetries <- NoRetry
  MaxDefers = 0
  MaxClaims = 2
  MayDrain = FALSE
  MayStall = TRUE
  MayRevoke = TRUE
SYMMETRY SymHosts
CHECK_DEADLOCK FALSE
INVARIANTS ClaimMatchesLedger LaneExclusive InOrder
PROPERTIES KeepsPromise FenceHolds OnlyHolderSettles
