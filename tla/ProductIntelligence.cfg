SPECIFICATION Spec
CONSTANTS
    Candidates = {"c1", "c2"}
    MaxErrors = 1
INVARIANTS
    OneMatch
    StatusTellsMatch
PROPERTIES
    NothingLeftBehind
    JobEnds
\* The job has ended and every run has been deleted.
CHECK_DEADLOCK FALSE
