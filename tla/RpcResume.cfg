SPECIFICATION Spec
CONSTANTS
  c1 = c1
  c2 = c2
  N = 1
  Caller = {c1}
  DailyLimit <- OneDaily
  WindowLimit <- OneWindow
  MaxAttempts = 3
  CircuitLimit = 5
  Tolerated429 = 5
  FaultKinds = {"403"}
  MaxFaults = 42
PROPERTIES
  Resumes
