CONSTANTS
  NoRun = NoRun
  NoWorker = NoWorker
  Runs = {r1}
  Workers = {w1, w2}
  Handlers = {h1}
  NumUrls = 1
  SlowUrls = FALSE
  MaxRequests = 4
  MaxCrashes = 0
  MaxFaults = 0
SPECIFICATION Spec
CHECK_DEADLOCK FALSE
INVARIANTS
  OnlyInterruptedRunsFail
