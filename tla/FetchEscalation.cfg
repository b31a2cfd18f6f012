SPECIFICATION FairSpec
CONSTANTS
  Threshold = 2
  HttpAttempts = 2
  MaxSiblings = 1
  Requests <- MCRequests
  Overheard <- MCOverheard
  Rows <- MCRows
CHECK_DEADLOCK FALSE
INVARIANTS MemoryFollowsResult
PROPERTIES FetchEnds ConfirmedBlockTriesEveryEngine
