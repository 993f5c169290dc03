\* One turn that an operator retries.
SPECIFICATION Spec
CONSTANTS
  a = a  b = b
  Hosts = {h1}
  NoHost = NoHost
  NMsg = 1
  Convs = {a}
  ConvOf <- ConvOne
  KindOf <- KindTurn
  MaxAttempts = 2
  MaxConcurrency = 1
  MaxRetries <- RetryFirst
  MaxDefers = 0
  MaxClaims = 2
  MayDrain = FALSE
  MayStall = TRUE
  MayRevoke = FALSE
CHECK_DEADLOCK FALSE
INVARIANTS RetryAdmitted
