SPECIFICATION Spec
CONSTANTS
    Workers = {"w1", "w2"}
    Responses <- ResponsesDef
    Declared <- DeclaredDef
    Actual <- ActualDef
    MaxPayloads = 2
    MaxBytes = 2
    QueueSize = 2
    MaxCancels = 2
INVARIANTS
    UnfinishedTallies
    WithinBudget
    OrderlyCloseLosesNothing
PROPERTIES
    CloseEnds
\* The capture has been closed.
CHECK_DEADLOCK FALSE
