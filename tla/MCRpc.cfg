SPECIFICATION Spec
CONSTANTS
  c1 = c1
  c2 = c2
  N = 2
  Caller = {c1, c2}
  DailyLimit <- TwoDaily
  WindowLimit <- TwoWindow
  MaxAttempts = 2
  CircuitLimit = 2
  Tolerated429 = 0
  FaultKinds = {"down", "429", "403", "fatal"}
  MaxFaults = 2
INVARIANTS
  RpcTypeOK
  LimitsExceededByConcurrencyOnly
PROPERTIES
  Resumes
