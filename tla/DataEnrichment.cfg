SPECIFICATION Spec
CONSTANTS
    Records = {"r1", "r2"}
    Jobs = {"j1", "j2"}
    LlmJobs = {"j1", "j2"}
    MaxErrors = 2
    MaxCrashes = 1
INVARIANTS
    PendingHasJob
PROPERTIES
    AloneIsCommitted
    JobsEnd
\* Every job has ended.
CHECK_DEADLOCK FALSE
