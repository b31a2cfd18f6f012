CONSTANTS
  None = None
  Keys = {k1, k2, k3}
  Direct = {k1}
  Fetchers = {f1, f2}
  Runtimes = {b1, b2, b3}
  MaxContexts = 1
  MaxEntries = 1
  RecycleAfter = 1
  MaxCancels = 1
  MaxDeaths = 1
  MaxTroubles = 1
SPECIFICATION Spec
SYMMETRY Interchangeable
CHECK_DEADLOCK FALSE
INVARIANTS
  CountsTally
  PoolBounded
  LocksMatch
