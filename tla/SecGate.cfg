SPECIFICATION FairSpec
CONSTANTS
  a = a
  b = b
  c = c
  P = P
  Q = Q
  Threads <- TwoThreads
  Processes <- TwoProcesses
  ProcessOf <- ProcessOfTwo
  NoThread = NoThread
  Interval = 1
  Cleanup = 1
  HttpTimeout = 2
  TotalBudget = 3
  MaxRetries = 1
  MaxRedirects = 1
  ForbiddenPause = 2
  ThrottlePause = 1
  RetryAfters = {0, 2}
  NoHeader = NoHeader
  Faults = TRUE
INVARIANTS TypeOK OneInFlight
PROPERTIES ServesSerially EveryGetEnds
