SPECIFICATION Spec
CONSTANTS
  a = a
  b = b
  c = c
  P = P
  Q = Q
  Threads <- ThreeThreads
  Processes <- TwoProcesses
  ProcessOf <- ProcessOfThree
  NoThread = NoThread
  Interval = 1
  Cleanup = 1
  HttpTimeout = 2
  TotalBudget = 3
  MaxRetries = 1
  MaxRedirects = 1
  ForbiddenPause = 2
  ThrottlePause = 1
  RetryAfters = {2}
  NoHeader = NoHeader
  Faults = TRUE
PROPERTIES DemandHonoured
SYMMETRY Alike
