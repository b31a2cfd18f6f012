CONSTANTS
  None = None
  Keys = {k1, k2}
  Direct = {k1}
  Fetchers = {f1, f2}
  Runtimes = {b1, b2, b3}
  MaxContexts = 1
  MaxEntries = 1
  RecycleAfter = 1
  MaxCancels = 0
  MaxDeaths = 0
  MaxTroubles = 1
SPECIFICATION FairSpec
PROPERTIES
  FetchesEnd
