------------------------------ MODULE LlmTask ------------------------------
(***************************************************************************)
(* One LLM prompt of a run, from run_prompt_task down to the provider: the *)
(* shared result cache, the call budget of the run, the retries behind the *)
(* provider's circuit breaker and the cost log.  The cache, the budget and *)
(* the breaker live in Redis, which two backend processes share and which  *)
(* may stop answering: every use of it "fails open" to a default, and a    *)
(* failure switches Redis off in that process for a while.                 *)
(* One provider; its answer is the environment's choice.                   *)
(***************************************************************************)
EXTENDS Integers, FiniteSets

CONSTANTS Tasks, Runs, Prompts, Backends,
          RunOf, PromptOf, BackendOf,   \* what each task is about, where it runs
          RedisEnabled,                 \* settings.redis_state_enabled
          MaxCalls,                     \* llm_max_calls_per_run
          MaxRetries,                   \* provider_retry_max_retries
          Threshold,                    \* circuit_failure_threshold
          MaxRedisFaults,               \* bound: failing Redis commands
          MaxRefused,                   \* bound: cost rows the database refuses
          MaxLapses                     \* bound: expiries of a key

ASSUME LlmAssumption ==
    /\ IsFiniteSet(Tasks)
    /\ RunOf \in [Tasks -> Runs] /\ PromptOf \in [Tasks -> Prompts]
    /\ BackendOf \in [Tasks -> Backends]
    /\ RedisEnabled \in BOOLEAN
    /\ MaxCalls \in Nat \ {0} /\ MaxRetries \in Nat /\ Threshold \in Nat \ {0}
    /\ MaxRedisFaults \in Nat /\ MaxRefused \in Nat /\ MaxLapses \in Nat

VARIABLES
    pc, attempt,        \* of a task: where it waits, attempts begun (0 outside the loop)
    answer,             \* what call_provider_with_retry gave the task
    served,             \* the payload the task returned: "none", "good", "bad"
    rows,               \* the task's cost row: "none", "row", "refused"
    spent, hasTtl,      \* Redis: calls counted for a run, and whether they expire
    cache,              \* Redis: result of a prompt, "none" when there is none
    fails, openKey,     \* Redis: the provider's failures in a row, its open key
    off,                \* a backend that has switched Redis off for a while
    localFails, opened, \* a backend's own breaker: opened "no", "hot" or "cold"
    faults, refusals, lapses,
    \* for the properties only
    admitted,           \* tasks admitted on a run's budget since it last expired
    streak,             \* calls begun on Redis's word since the last success or lapse,
                        \* less those whose failure Redis was not told of
    lapsed              \* openKey was removed since the last recorded failure

redis   == <<spent, hasTtl, cache, fails, openKey>>
local   == <<localFails, opened>>
bounds  == <<refusals, lapses>>
history == <<admitted, streak, lapsed>>
task    == <<pc, attempt, answer, served, rows>>
vars    == <<task, redis, off, local, faults, bounds, history>>

Ended == {"done", "gone"}
FailCap == Threshold + 1          \* failures beyond this many are not told apart

Init ==
    /\ pc = [t \in Tasks |-> "new"] /\ attempt = [t \in Tasks |-> 0]
    /\ answer = [t \in Tasks |-> "none"] /\ served = [t \in Tasks |-> "none"]
    /\ rows = [t \in Tasks |-> "none"]
    /\ spent = [r \in Runs |-> 0] /\ hasTtl = [r \in Runs |-> FALSE]
    /\ cache = [p \in Prompts |-> "none"] /\ fails = 0 /\ openKey = FALSE
    /\ off = [b \in Backends |-> FALSE]
    /\ localFails = [b \in Backends |-> 0] /\ opened = [b \in Backends |-> "no"]
    /\ faults = 0 /\ refusals = 0 /\ lapses = 0
    /\ admitted = [r \in Runs |-> 0] /\ streak = 0 /\ lapsed = FALSE

-----------------------------------------------------------------------------
(* A Redis command of backend b: skipped while Redis is off, executed, or   *)
(* failing; a failure switches Redis off in the process (redis_fail_open).  *)

Skipped(b)  == (~RedisEnabled \/ off[b]) /\ UNCHANGED <<off, faults>>
Executed(b) == RedisEnabled /\ ~off[b] /\ UNCHANGED <<off, faults>>
Fails(b) ==
    /\ RedisEnabled /\ ~off[b] /\ faults < MaxRedisFaults
    /\ off' = [off EXCEPT ![b] = TRUE] /\ faults' = faults + 1

\* _DISABLE_COOLDOWN_SECONDS have passed.
RedisBack(b) ==
    /\ off[b]
    /\ off' = [off EXCEPT ![b] = FALSE]
    /\ UNCHANGED <<task, redis, local, faults, bounds, history>>

Goto(t, where) == pc' = [pc EXCEPT ![t] = where]
LeaveLoop(t) == Goto(t, "settle") /\ attempt' = [attempt EXCEPT ![t] = 0]

-----------------------------------------------------------------------------
(* run_prompt_task up to the provider call.                                 *)

\* load_cached_llm_result: a hit ends the task before the budget is touched.
LookUp(t) ==
    LET b == BackendOf[t]   p == PromptOf[t]
    IN  /\ pc[t] = "new"
        /\ \/ /\ Executed(b) /\ cache[p] # "none"
              /\ Goto(t, "done") /\ served' = [served EXCEPT ![t] = cache[p]]
           \/ /\ \/ Executed(b) /\ cache[p] = "none"
                 \/ Skipped(b)
                 \/ Fails(b)
              /\ Goto(t, "reserve") /\ UNCHANGED served
        /\ UNCHANGED <<attempt, answer, rows, redis, local, bounds, history>>

Refuse(t) ==
    /\ Goto(t, "done") /\ answer' = [answer EXCEPT ![t] = "over"]
    /\ UNCHANGED admitted
Admit(t) ==
    /\ Goto(t, "check") /\ UNCHANGED answer
    /\ admitted' = [admitted EXCEPT ![RunOf[t]] = @ + 1]

Default_Admit(t) == Admit(t)     \* (mutant) default=True
\* redis_fail_open(_reserve, default=False)
Default(t) == Refuse(t)

\* reserve_run_llm_call: INCR, then EXPIRE after the first.  Redis may fail
\* before either; a failure, or Redis off, refuses the call.  (A budget of 0
\* refuses every call before Redis is asked.)
Reserve(t) ==
    LET b == BackendOf[t]   r == RunOf[t]   n == spent[r] + 1
    IN  /\ pc[t] = "reserve"
        /\ \/ /\ Skipped(b) \/ Fails(b)
              /\ Default(t) /\ UNCHANGED <<spent, hasTtl>>
           \/ /\ Executed(b)
              /\ spent' = [spent EXCEPT ![r] = n]
              /\ hasTtl' = [hasTtl EXCEPT ![r] = @ \/ n = 1]
              /\ IF n <= MaxCalls THEN Admit(t) ELSE Refuse(t)
           \/ /\ Fails(b) /\ n = 1
              /\ spent' = [spent EXCEPT ![r] = n]
              /\ Default(t) /\ UNCHANGED hasTtl
        /\ UNCHANGED <<attempt, served, rows, cache, fails, openKey, local,
                       bounds, streak, lapsed>>

-----------------------------------------------------------------------------
(* call_provider_with_retry and the circuit breaker.                        *)

SharedOpen_FirstOnly(t) == openKey /\ attempt[t] = 0   \* (mutant) asked once, before the loop
SharedOpen(t) == openKey
LocalOpen(b) == localFails[b] >= Threshold /\ opened[b] = "hot"

NextAttempt(t) == attempt[t] + 1

\* circuit_is_open at the head of every attempt: Redis's word, else the
\* process's own.
Check(t) ==
    LET b == BackendOf[t]
    IN  /\ pc[t] = "check"
        /\ \E isOpen, shared \in BOOLEAN :
              /\ \/ Executed(b) /\ isOpen = SharedOpen(t) /\ shared
                 \/ (Skipped(b) \/ Fails(b)) /\ isOpen = LocalOpen(b) /\ ~shared
              /\ IF isOpen
                   THEN /\ LeaveLoop(t)
                        /\ answer' = [answer EXCEPT ![t] = "circuit_open"]
                        /\ UNCHANGED streak
                   ELSE /\ Goto(t, "calling") /\ UNCHANGED answer
                        /\ attempt' = [attempt EXCEPT ![t] = NextAttempt(t)]
                        /\ streak' = IF shared THEN streak + 1 ELSE streak
        /\ UNCHANGED <<served, rows, redis, local, bounds, admitted, lapsed>>

\* The provider answers; record_success clears the process's breaker and the
\* shared count of failures.  The open key is deleted by a later command.
Answers(t) ==
    LET b == BackendOf[t]
    IN  /\ pc[t] = "calling"
        /\ answer' = [answer EXCEPT ![t] = "text"]
        /\ localFails' = [localFails EXCEPT ![b] = 0]
        /\ opened' = [opened EXCEPT ![b] = "no"]
        /\ \/ Executed(b) /\ fails' = 0 /\ Goto(t, "closing") /\ UNCHANGED attempt
           \/ (Skipped(b) \/ Fails(b)) /\ LeaveLoop(t) /\ UNCHANGED fails
        /\ streak' = 0
        /\ UNCHANGED <<served, rows, spent, hasTtl, cache, openKey,
                       bounds, admitted, lapsed>>

\* The last command of record_success.
DeleteOpenKey(t) ==
    LET b == BackendOf[t]
    IN  /\ pc[t] = "closing"
        /\ \/ /\ UNCHANGED <<off, faults>>
              /\ openKey' = FALSE /\ lapsed' = (lapsed \/ openKey)
              /\ streak' = IF openKey THEN 0 ELSE streak
           \/ /\ faults < MaxRedisFaults
              /\ off' = [off EXCEPT ![b] = TRUE] /\ faults' = faults + 1
              /\ UNCHANGED <<openKey, lapsed, streak>>
        /\ LeaveLoop(t)
        /\ UNCHANGED <<answer, served, rows, spent, hasTtl, cache, fails,
                       local, bounds, admitted>>

Opens_OnlyAt(n) == n = Threshold          \* (mutant)
Opens(n) == n >= Threshold

\* The script of record_failure, which Redis runs as one command; the count's
\* time to live begins anew.
FailureScript ==
    LET n == IF fails < FailCap THEN fails + 1 ELSE fails
    IN  /\ fails' = n
        /\ openKey' = (openKey \/ Opens(n))
        /\ lapsed' = FALSE

\* record_failure in the process: opened_at is set once and only a success
\* clears it.
LocalFailure(b) ==
    LET n == IF localFails[b] < FailCap THEN localFails[b] + 1 ELSE localFails[b]
    IN  /\ localFails' = [localFails EXCEPT ![b] = n]
        /\ opened' = [opened EXCEPT ![b] =
                         IF n >= Threshold /\ @ = "no" THEN "hot" ELSE @]

\* (history) a call whose failure Redis is not told of
Untold == streak' = IF streak > 0 THEN streak - 1 ELSE 0

LastAttempt(t) == attempt[t] > MaxRetries

\* The provider refuses or fails: rate limits, authentication and client errors
\* are final, the rest is tried again while attempts are left.
Errs(t) ==
    LET b == BackendOf[t]
    IN  /\ pc[t] = "calling"
        /\ LocalFailure(b)
        /\ \/ Executed(b) /\ FailureScript /\ UNCHANGED streak
           \/ (Skipped(b) \/ Fails(b)) /\ Untold /\ UNCHANGED <<fails, openKey, lapsed>>
        /\ \E final \in BOOLEAN :
              IF final \/ LastAttempt(t)
                THEN LeaveLoop(t) /\ answer' = [answer EXCEPT ![t] = "error"]
                ELSE Goto(t, "check") /\ UNCHANGED <<answer, attempt>>
        /\ UNCHANGED <<served, rows, spent, hasTtl, cache, bounds,
                       admitted>>

-----------------------------------------------------------------------------
(* run_prompt_task after the call: parse, validate, log the cost, cache.    *)

\* _record_cost; the insert may be refused, which the code only logs.
RecordCost(t) ==
    \/ rows' = [rows EXCEPT ![t] = "row"] /\ UNCHANGED refusals
    \/ /\ refusals < MaxRefused /\ refusals' = refusals + 1
       /\ rows' = [rows EXCEPT ![t] = "refused"]

\* An error, or text that does not parse or validate: logged, not cached.
SettleFailed(t) ==
    /\ pc[t] = "settle"
    /\ RecordCost(t)
    /\ Goto(t, "done")
    /\ UNCHANGED <<attempt, answer, served, redis, off, local, faults, lapses, history>>

\* A validated payload: logged first, then stored for every later task.
SettleGood(t) ==
    /\ pc[t] = "settle" /\ answer[t] = "text"
    /\ RecordCost(t)
    /\ Goto(t, "store")
    /\ UNCHANGED <<attempt, answer, served, redis, off, local, faults, lapses, history>>

\* store_cached_llm_result
Store(t) ==
    LET b == BackendOf[t]
    IN  /\ pc[t] = "store"
        /\ \/ Executed(b) /\ cache' = [cache EXCEPT ![PromptOf[t]] = "good"]
           \/ (Skipped(b) \/ Fails(b)) /\ UNCHANGED cache
        /\ served' = [served EXCEPT ![t] = "good"]
        /\ Goto(t, "done")
        /\ UNCHANGED <<attempt, answer, rows, spent, hasTtl, fails, openKey, local,
                       bounds, history>>

\* The task's coroutine is cancelled at one of its awaits.
Cancel(t) ==
    /\ pc[t] \notin Ended
    /\ Goto(t, "gone") /\ attempt' = [attempt EXCEPT ![t] = 0]
    /\ IF pc[t] = "calling" THEN Untold ELSE UNCHANGED streak
    /\ UNCHANGED <<answer, served, rows, redis, off, local, faults, bounds,
                   admitted, lapsed>>

-----------------------------------------------------------------------------
(* Time.                                                                    *)

Lapse == lapses < MaxLapses /\ lapses' = lapses + 1 /\ UNCHANGED refusals

\* circuit_cooldown_seconds after the open key was set.
CoolShared ==
    /\ openKey /\ Lapse
    /\ openKey' = FALSE /\ lapsed' = TRUE /\ streak' = 0
    /\ UNCHANGED <<task, spent, hasTtl, cache, fails, off, local, faults, admitted>>

\* _shared_circuit_stats_ttl_seconds after the last failure was counted, ten
\* cooldowns at least: the open key is gone by then.
CountExpires ==
    /\ fails > 0 /\ ~openKey /\ Lapse
    /\ fails' = 0 /\ streak' = 0
    /\ UNCHANGED <<task, spent, hasTtl, cache, openKey, off, local, faults, admitted, lapsed>>

CoolLocal(b) ==
    /\ opened[b] = "hot"
    /\ opened' = [opened EXCEPT ![b] = "cold"]
    /\ UNCHANGED <<task, redis, off, localFails, faults, bounds, history>>

\* llm_call_budget_ttl_seconds after the run's first call.
BudgetExpires(r) ==
    /\ hasTtl[r] /\ Lapse
    /\ spent' = [spent EXCEPT ![r] = 0] /\ hasTtl' = [hasTtl EXCEPT ![r] = FALSE]
    /\ admitted' = [admitted EXCEPT ![r] = 0]
    /\ UNCHANGED <<task, cache, fails, openKey, off, local, faults, streak, lapsed>>

CacheExpires(p) ==
    /\ cache[p] # "none" /\ Lapse
    /\ cache' = [cache EXCEPT ![p] = "none"]
    /\ UNCHANGED <<task, spent, hasTtl, fails, openKey, off, local, faults, history>>

-----------------------------------------------------------------------------

Step(t) ==
    \/ LookUp(t) \/ Reserve(t) \/ Check(t) \/ Answers(t) \/ DeleteOpenKey(t)
    \/ Errs(t) \/ SettleFailed(t) \/ SettleGood(t) \/ Store(t)

Finished == (\A t \in Tasks : pc[t] \in Ended) /\ UNCHANGED vars

Next ==
    \/ \E t \in Tasks : Step(t) \/ Cancel(t)
    \/ CoolShared \/ CountExpires
    \/ \E b \in Backends : CoolLocal(b) \/ RedisBack(b)
    \/ \E r \in Runs : BudgetExpires(r)
    \/ \E p \in Prompts : CacheExpires(p)
    \/ Finished

Spec == Init /\ [][Next]_vars

-----------------------------------------------------------------------------

\* Every variable stays in its range; counters stay within their bounds.
TypeOK ==
    /\ pc \in [Tasks -> {"new", "reserve", "check", "calling", "closing", "settle",
                         "store", "done", "gone"}]
    /\ attempt \in [Tasks -> 0 .. MaxRetries + 1]
    /\ answer \in [Tasks -> {"none", "text", "error", "circuit_open", "over"}]
    /\ served \in [Tasks -> {"none", "good", "bad"}]
    /\ rows \in [Tasks -> {"none", "row", "refused"}]
    /\ spent \in [Runs -> 0 .. Cardinality(Tasks)] /\ hasTtl \in [Runs -> BOOLEAN]
    /\ cache \in [Prompts -> {"none", "good", "bad"}]
    /\ fails \in 0 .. FailCap /\ openKey \in BOOLEAN
    /\ off \in [Backends -> BOOLEAN] /\ localFails \in [Backends -> 0 .. FailCap]
    /\ opened \in [Backends -> {"no", "hot", "cold"}]
    /\ faults \in 0 .. MaxRedisFaults /\ refusals \in 0 .. MaxRefused
    /\ lapses \in 0 .. MaxLapses
    /\ admitted \in [Runs -> 0 .. Cardinality(Tasks)]
    /\ streak \in 0 .. Cardinality(Tasks) * (MaxRetries + 1) /\ lapsed \in BOOLEAN

\* Safety.  A run's tasks are admitted to the provider at most
\* llm_max_calls_per_run times before its budget key expires, whatever Redis
\* does between the commands of reserve_run_llm_call and whichever process asks.
AdmittedWithinBudget == \A r \in Runs : admitted[r] <= MaxCalls

\* Safety.  A provider that keeps failing is left alone: without a success, the
\* end of a cooldown or failures so far apart that their count expires between
\* them, no more calls are begun on Redis's word than the failures that open the
\* circuit, less one, and one call of each task already past its check.
FailingProviderIsLeftAlone == streak <= Threshold - 1 + Cardinality(Tasks)

\* Safety.  When the shared count says the provider failed too often in a row,
\* the circuit is open, unless the key expired or a success that was recorded
\* earlier deleted it after the last failure was counted.
StreakOpensCircuit == fails >= Threshold => openKey \/ lapsed

-----------------------------------------------------------------------------
\* What the message "LLM call budget exceeded for crawl run ..." says: only a
\* run that made its calls is refused one.  Fails when Redis is switched off,
\* which is the default of the settings.
OnlySpentBudgetRefuses ==
    [][\A t \in Tasks : answer[t] # "over" /\ answer'[t] = "over"
                           => admitted[RunOf[t]] >= MaxCalls]_vars
=============================================================================
