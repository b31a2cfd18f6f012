CONSTANTS
  NoRun = NoRun
  NoWorker = NoWorker
  Runs = {r1}
  Workers = {w1, w2}
  Handlers = {h1}
  NumUrls = 2
  SlowUrls = TRUE
  MaxRequests = 7
  MaxCrashes = 2
  MaxFaults = 1
SPECIFICATION FairSpec
CHECK_DEADLOCK FALSE
INVARIANTS
  TypeOK
  OneTaskPerRun
  WorkingIsActive
  WorkingIsRegistered
  RegistryNamesLiveTask
PROPERTIES
  KilledIsFinal
  KeepsContract
  TasksEnd
  DispatchedRunsMoveOn
