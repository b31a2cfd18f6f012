SPECIFICATION Spec
CONSTANTS
    Tasks = {"t1", "t2"}
    Runs = {"r1"}
    Prompts = {"p1"}
    Backends = {"b1", "b2"}
    RunOf <- MCRunOf
    PromptOf <- MCPromptOf
    BackendOf <- MCBackendOf
    RedisEnabled = TRUE
    MaxCalls = 1
    MaxRetries = 1
    Threshold = 2
    MaxRedisFaults = 2
    MaxRefused = 1
    MaxLapses = 2
INVARIANTS
    AdmittedWithinBudget
    FailingProviderIsLeftAlone
    StreakOpensCircuit
