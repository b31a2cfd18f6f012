SPECIFICATION Spec
CONSTANTS
  NumUrls = 2
  MaxRecords = 3
  Threshold = 2
  RecordUrls = {"a", "a?sku", "b"}
  Canonical <- MCCanonical
  Contents = {1, 2}
  NoRow = NoRow
  Yields <- MCYields
  MaxPauses = 1
CHECK_DEADLOCK FALSE
INVARIANTS RowsCounted DuplicateOnlyByCanonicalUrl
PROPERTIES ErrorLeavesNothing ChallengeSparesContract CompletesWithVerdicts
