\* Two daemons, two writes of one grant, a stop, a revocation and stalls.
SPECIFICATION FairSpec
CONSTANTS
  a = a  b = b  gh = gh  h1 = h1
  Procs = {p1, p2}
  Actions = {a, b}
  Grants = {gh}
  Heads = {h1}
  Setups <- SmallSetups
  MaxGen = 2
  MaxRev = 2
  MaxEpoch = 1
  MayStall = TRUE
CHECK_DEADLOCK FALSE
INVARIANTS TypeOK LedgerReadable DoubtExclusive WithinQuota
PROPERTIES SendIsAuthorized KeepsPromise Settles
