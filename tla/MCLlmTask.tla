----------------------------- MODULE MCLlmTask -----------------------------
\* Two tasks of one run that ask the same prompt, each in its own process.
EXTENDS LlmTask

MCRunOf     == [t \in Tasks |-> "r1"]
MCPromptOf  == [t \in Tasks |-> "p1"]
MCBackendOf == [t \in Tasks |-> IF t = "t1" THEN "b1" ELSE "b2"]
=============================================================================
