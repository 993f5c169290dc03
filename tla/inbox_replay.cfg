\* One permission command whose recovery meets a failure.
SPECIFICATION Spec
CONSTANTS
  a = a  b = b
  Hosts = {h1}
  NoHost = NoHost
  NMsg = 1
  Convs = {a}
  ConvOf <- ConvOne
  KindOf <- KindPermission
  MaxAttempts = 3
  MaxConcurrency = 1
  MaxRetries <- NoRetry
  MaxDefers = 1
  MaxClaims = 3
  MayDrain = FALSE
  MayStall = TRUE
  MayRevoke = FALSE
CHECK_DEADLOCK FALSE
INVARIANTS ElevationOnce
