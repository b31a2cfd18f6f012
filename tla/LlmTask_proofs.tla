--------------------------- MODULE LlmTask_proofs ---------------------------
(***************************************************************************)
(* The budget of a run and the opening of the circuit, for any number of   *)
(* tasks, runs, prompts and processes and any failures of Redis.           *)
(***************************************************************************)
EXTENDS LlmTask, FiniteSetTheorems, TLAPS

(* Every admission was counted in Redis before it was granted, and a count that
   expires takes the admissions with it. *)
BudgetInv ==
  /\ spent \in [Runs -> Nat] /\ admitted \in [Runs -> Nat]
  /\ \A r \in Runs : admitted[r] <= spent[r] /\ admitted[r] <= MaxCalls

LEMMA BudgetInit == Init => BudgetInv
<1> QED BY LlmAssumption DEF Init, BudgetInv

LEMMA ReserveKeepsBudget ==
  ASSUME BudgetInv, NEW t \in Tasks, Reserve(t)
  PROVE  BudgetInv'
<1> DEFINE r == RunOf[t]
<1>1. r \in Runs /\ MaxCalls \in Nat
  BY LlmAssumption
<1>2. CASE Refuse(t) /\ (spent' = spent \/ spent' = [spent EXCEPT ![r] = spent[r] + 1])
  BY <1>1, <1>2 DEF BudgetInv, Refuse
<1>3. CASE /\ Admit(t) /\ spent' = [spent EXCEPT ![r] = spent[r] + 1]
           /\ spent[r] + 1 <= MaxCalls
  BY <1>1, <1>3 DEF BudgetInv, Admit
<1> QED BY <1>2, <1>3 DEF Reserve, Default

LEMMA BudgetStep == BudgetInv /\ [Next]_vars => BudgetInv'
<1> SUFFICES ASSUME BudgetInv, [Next]_vars PROVE BudgetInv'
  OBVIOUS
<1>1. CASE UNCHANGED <<spent, admitted>>
  BY <1>1 DEF BudgetInv
<1>2. ASSUME NEW t \in Tasks, Step(t) PROVE BudgetInv'
  <2>1. CASE Reserve(t)
    BY <2>1, ReserveKeepsBudget
  <2>2. CASE ~Reserve(t)
    BY <1>1, <1>2, <2>2 DEF Step, LookUp, Check, Answers, DeleteOpenKey, Errs, SettleFailed,
       SettleGood, Store, redis, history
  <2> QED BY <2>1, <2>2
<1>3. ASSUME NEW t \in Tasks, Cancel(t) PROVE BudgetInv'
  BY <1>1, <1>3 DEF Cancel, redis
<1>4. ASSUME NEW r \in Runs, BudgetExpires(r) PROVE BudgetInv'
  BY <1>4, LlmAssumption DEF BudgetExpires, BudgetInv
<1>5. CASE UNCHANGED vars
  BY <1>1, <1>5 DEF vars, redis, history
<1>6. CASE CoolShared \/ CountExpires
  BY <1>1, <1>6 DEF CoolShared, CountExpires
<1>7. ASSUME NEW b \in Backends, CoolLocal(b) \/ RedisBack(b) PROVE BudgetInv'
  BY <1>1, <1>7 DEF CoolLocal, RedisBack, redis, history
<1>8. ASSUME NEW p \in Prompts, CacheExpires(p) PROVE BudgetInv'
  BY <1>1, <1>8 DEF CacheExpires, history
<1> QED BY <1>2, <1>3, <1>4, <1>5, <1>6, <1>7, <1>8 DEF Next, Finished

(* reserve_run_llm_call: no run is admitted to the provider more often than its
   budget, whatever Redis does between its commands. *)
THEOREM BudgetHolds == Spec => []AdmittedWithinBudget
<1>1. BudgetInv => AdmittedWithinBudget
  BY DEF BudgetInv, AdmittedWithinBudget
<1> QED BY BudgetInit, BudgetStep, <1>1, PTL DEF Spec

-----------------------------------------------------------------------------
(* The count and the key of the breaker are written by one script; between its
   runs the key goes only by lapsing or by a success, and the count only to 0. *)
CircuitInv ==
  /\ fails \in Nat /\ openKey \in BOOLEAN /\ lapsed \in BOOLEAN
  /\ fails >= Threshold => openKey \/ lapsed

LEMMA CircuitInit == Init => CircuitInv
<1> SUFFICES ASSUME Init PROVE CircuitInv
  OBVIOUS
<1>1. fails = 0 /\ openKey = FALSE /\ lapsed = FALSE
  BY DEF Init
<1>2. ~(fails >= Threshold)
  BY <1>1, LlmAssumption
<1> QED BY <1>1, <1>2 DEF CircuitInv

LEMMA FailureKeepsCircuit ==
  ASSUME CircuitInv, FailureScript
  PROVE  CircuitInv'
<1> DEFINE n == IF fails < FailCap THEN fails + 1 ELSE fails
<1>1. n \in Nat
  BY DEF CircuitInv
<1>2. fails' = n /\ openKey' = (openKey \/ Opens(n)) /\ lapsed' = FALSE
  BY DEF FailureScript
<1>3. Opens(n) = (n >= Threshold)
  BY DEF Opens
<1> HIDE DEF n
<1>4. openKey' \in BOOLEAN /\ lapsed' \in BOOLEAN
  BY <1>2, Zenon DEF CircuitInv
<1>5. fails' >= Threshold => openKey'
  BY <1>2, <1>3
<1> QED BY <1>1, <1>2, <1>4, <1>5 DEF CircuitInv

LEMMA CircuitStep == CircuitInv /\ [Next]_vars => CircuitInv'
<1> SUFFICES ASSUME CircuitInv, [Next]_vars PROVE CircuitInv'
  OBVIOUS
<1>1. CASE UNCHANGED <<fails, openKey, lapsed>>
  BY <1>1 DEF CircuitInv
<1>2. ASSUME NEW t \in Tasks, Step(t) PROVE CircuitInv'
  <2>1. CASE Answers(t)
    <3>1. (fails' = 0 \/ fails' = fails) /\ openKey' = openKey /\ lapsed' = lapsed
      BY <2>1 DEF Answers
    <3> QED BY <3>1, LlmAssumption DEF CircuitInv
  <2>2. CASE DeleteOpenKey(t)
    <3>1. CASE openKey' = FALSE /\ lapsed' = (lapsed \/ openKey) /\ fails' = fails
      BY <3>1 DEF CircuitInv
    <3> QED BY <1>1, <2>2, <3>1 DEF DeleteOpenKey
  <2>3. CASE Errs(t)
    BY <1>1, <2>3, FailureKeepsCircuit DEF Errs
  <2>4. CASE ~Answers(t) /\ ~DeleteOpenKey(t) /\ ~Errs(t)
    BY <1>1, <1>2, <2>4 DEF Step, LookUp, Reserve, Check, SettleFailed, SettleGood, Store, redis,
       history
  <2> QED BY <2>1, <2>2, <2>3, <2>4
<1>3. ASSUME NEW t \in Tasks, Cancel(t) PROVE CircuitInv'
  BY <1>1, <1>3 DEF Cancel, redis
<1>4. CASE CoolShared \/ CountExpires
  <2>1. CASE CoolShared
    BY <2>1 DEF CoolShared, CircuitInv
  <2>2. CASE CountExpires
    <3>1. fails' = 0 /\ openKey' = openKey /\ lapsed' = lapsed
      BY <2>2 DEF CountExpires
    <3> QED BY <3>1, LlmAssumption DEF CircuitInv
  <2> QED BY <1>4, <2>1, <2>2
<1>5. CASE UNCHANGED vars
  BY <1>1, <1>5 DEF vars, redis, history
<1>6. ASSUME NEW r \in Runs, BudgetExpires(r) PROVE CircuitInv'
  BY <1>1, <1>6 DEF BudgetExpires
<1>7. ASSUME NEW b \in Backends, CoolLocal(b) \/ RedisBack(b) PROVE CircuitInv'
  BY <1>1, <1>7 DEF CoolLocal, RedisBack, redis, history
<1>8. ASSUME NEW p \in Prompts, CacheExpires(p) PROVE CircuitInv'
  BY <1>1, <1>8 DEF CacheExpires, history
<1> QED BY <1>2, <1>3, <1>4, <1>5, <1>6, <1>7, <1>8 DEF Next, Finished

(* record_failure, record_success: a count at the threshold has its key, unless
   the key lapsed or an earlier success removed it after the last failure. *)
THEOREM CircuitFollowsStreak == Spec => []StreakOpensCircuit
<1>1. CircuitInv => StreakOpensCircuit
  BY DEF CircuitInv, StreakOpensCircuit
<1> QED BY CircuitInit, CircuitStep, <1>1, PTL DEF Spec

-----------------------------------------------------------------------------
(* While the key is absent each call begun on Redis's word is still under way or
   was counted as a failure, but for those of a count already past the threshold,
   whose next failure sets the key again. *)
Places == {"new", "reserve", "check", "calling", "closing", "settle", "store", "done", "gone"}
Calling == {t \in Tasks : pc[t] = "calling"}
Counted == IF fails < Threshold THEN fails ELSE 0

StreakInv ==
  /\ pc \in [Tasks -> Places] /\ streak \in Nat /\ fails \in Nat /\ openKey \in BOOLEAN
  /\ ~openKey => streak <= Cardinality(Calling) + Counted
  /\ streak <= Threshold - 1 + Cardinality(Tasks)

(* How many tasks are calling, when one of them moves. *)
LEMMA CallingFew ==
  /\ Cardinality(Calling) \in Nat /\ Cardinality(Tasks) \in Nat
  /\ Cardinality(Calling) <= Cardinality(Tasks)
<1>1. IsFiniteSet(Tasks) /\ Calling \subseteq Tasks
  BY LlmAssumption DEF Calling
<1> QED BY <1>1, FS_Subset, FS_CardinalityType

LEMMA CallingMoves ==
  ASSUME pc \in [Tasks -> Places], NEW t \in Tasks, NEW where \in Places, Goto(t, where)
  PROVE  /\ pc' \in [Tasks -> Places]
         /\ Cardinality(Calling) \in Nat
         /\ Cardinality(Calling') = Cardinality(Calling)
              + (IF where = "calling" THEN 1 ELSE 0) - (IF pc[t] = "calling" THEN 1 ELSE 0)
<1>0. pc' \in [Tasks -> Places]
  BY DEF Goto
<1>1. IsFiniteSet(Calling) /\ Cardinality(Calling) \in Nat
  BY LlmAssumption, FS_Subset, FS_CardinalityType DEF Calling
<1>2. CASE where = "calling" /\ pc[t] # "calling"
  <2>1. Calling' = Calling \cup {t} /\ t \notin Calling
    BY <1>2 DEF Calling, Goto
  <2>2. Cardinality(Calling') = Cardinality(Calling) + 1
    BY <1>1, <2>1, FS_AddElement
  <2> QED BY <1>0, <1>1, <1>2, <2>2
<1>3. CASE where # "calling" /\ pc[t] = "calling"
  <2>1. Calling' = Calling \ {t} /\ t \in Calling
    BY <1>3 DEF Calling, Goto
  <2>2. Cardinality(Calling') = Cardinality(Calling) - 1
    BY <1>1, <2>1, FS_RemoveElement
  <2> QED BY <1>0, <1>1, <1>3, <2>2
<1>4. CASE (where = "calling") = (pc[t] = "calling")
  <2>1. Calling' = Calling
    BY <1>4 DEF Calling, Goto
  <2> QED BY <1>0, <1>1, <1>4, <2>1
<1> QED BY <1>2, <1>3, <1>4

LEMMA StreakInit == Init => StreakInv
<1> SUFFICES ASSUME Init PROVE StreakInv
  OBVIOUS
<1>1. pc \in [Tasks -> Places] /\ streak = 0 /\ fails = 0 /\ openKey = FALSE
  BY DEF Init, Places
<1>2. Threshold \in Nat \ {0}
  BY LlmAssumption
<1>3. Cardinality(Calling) \in Nat /\ Cardinality(Tasks) \in Nat /\ Counted \in Nat
  BY <1>1, <1>2, CallingFew DEF Counted
<1>4. streak <= Cardinality(Calling) + Counted /\ streak <= Threshold - 1 + Cardinality(Tasks)
  BY <1>1, <1>2, <1>3
<1> QED BY <1>1, <1>4 DEF StreakInv

(* An attempt that Redis lets through counts; any other moves nothing. *)
LEMMA CheckKeepsStreak ==
  ASSUME StreakInv, NEW t \in Tasks, Check(t)
  PROVE  StreakInv'
<1>1. Threshold \in Nat \ {0} /\ Cardinality(Calling) \in Nat /\ Cardinality(Tasks) \in Nat
  BY LlmAssumption, CallingFew
<1>2. pc[t] = "check" /\ fails' = fails /\ openKey' = openKey
  BY DEF Check, redis
<1>3. Counted' = Counted /\ Counted \in 0 .. Threshold - 1
  BY <1>1, <1>2 DEF Counted, StreakInv
<1>4. CASE Goto(t, "settle") /\ streak' = streak
  <2>1. pc' \in [Tasks -> Places] /\ Cardinality(Calling') = Cardinality(Calling)
    BY <1>2, <1>4, CallingMoves DEF StreakInv, Places
  <2> QED BY <1>2, <1>3, <1>4, <2>1 DEF StreakInv
<1>5. CASE /\ Goto(t, "calling")
           /\ streak' = streak \/ (~openKey /\ streak' = streak + 1)
  <2>1. pc' \in [Tasks -> Places] /\ Cardinality(Calling') = Cardinality(Calling) + 1
    BY <1>2, <1>5, CallingMoves DEF StreakInv, Places
  <2>2. Cardinality(Calling') <= Cardinality(Tasks)
    <3>1. IsFiniteSet(Tasks) /\ Calling' \subseteq Tasks
      BY LlmAssumption DEF Calling
    <3> QED BY <3>1, FS_Subset
  <2> QED BY <1>1, <1>2, <1>3, <1>5, <2>1, <2>2 DEF StreakInv
<1>6. \/ Goto(t, "settle") /\ streak' = streak
      \/ /\ Goto(t, "calling")
         /\ streak' = streak \/ (~openKey /\ streak' = streak + 1)
  BY DEF Check, LeaveLoop, SharedOpen
<1> QED BY <1>4, <1>5, <1>6

(* A call ends and Redis is not told how. *)
LEMMA UntoldKeepsStreak ==
  ASSUME StreakInv, NEW t \in Tasks, NEW where \in Places, Goto(t, where),
         pc[t] = "calling", where # "calling", Untold, UNCHANGED <<fails, openKey>>
  PROVE  StreakInv'
<1>1. /\ pc' \in [Tasks -> Places] /\ Cardinality(Calling) \in Nat
      /\ Cardinality(Calling') = Cardinality(Calling) - 1
  BY CallingMoves DEF StreakInv
<1>2. Cardinality(Calling) > 0
  <2>1. IsFiniteSet(Calling) /\ t \in Calling
    BY LlmAssumption, FS_Subset DEF Calling
  <2> QED BY <1>1, <2>1, FS_EmptySet
<1>3. Threshold \in Nat \ {0} /\ Counted \in Nat /\ Counted' = Counted
  BY LlmAssumption DEF StreakInv, Counted
<1>4. streak' \in Nat /\ streak' <= streak /\ (streak > 0 => streak' = streak - 1)
      /\ (streak = 0 => streak' = 0)
  BY DEF Untold, StreakInv
<1>5. ~openKey' => streak' <= Cardinality(Calling') + Counted'
  BY <1>1, <1>2, <1>3, <1>4 DEF StreakInv
<1>6. streak' <= Threshold - 1 + Cardinality(Tasks)
  BY <1>3, <1>4, CallingFew DEF StreakInv
<1> QED BY <1>1, <1>4, <1>5, <1>6 DEF StreakInv

(* A call ends with a failure: counted in Redis, or taken from the streak. *)
LEMMA ErrsKeepsStreak ==
  ASSUME StreakInv, NEW t \in Tasks, Errs(t)
  PROVE  StreakInv'
<1>1. Threshold \in Nat \ {0} /\ Cardinality(Calling) \in Nat /\ Cardinality(Tasks) \in Nat
  BY LlmAssumption, CallingFew
<1>2. pc[t] = "calling" /\ (Goto(t, "settle") \/ Goto(t, "check"))
  BY DEF Errs, LeaveLoop
<1>3. pc' \in [Tasks -> Places] /\ Cardinality(Calling') = Cardinality(Calling) - 1
  BY <1>2, CallingMoves DEF StreakInv, Places
<1>4. CASE FailureScript /\ streak' = streak
  <2>1. fails' \in Nat /\ openKey' \in BOOLEAN /\ (fails' < Threshold => fails' = fails + 1)
    <3> DEFINE n == IF fails < FailCap THEN fails + 1 ELSE fails
    <3>1. n \in Nat /\ (n < Threshold => n = fails + 1)
      BY <1>1 DEF StreakInv, FailCap
    <3>2. fails' = n /\ openKey' = (openKey \/ Opens(n))
      BY <1>4 DEF FailureScript
    <3>3. openKey' \in BOOLEAN
      BY <3>2, Zenon DEF StreakInv, Opens
    <3> QED BY <3>1, <3>2, <3>3
  <2>2. ~openKey' => ~openKey /\ fails' < Threshold
    <3>1. openKey' = (openKey \/ Opens(fails'))
      BY <1>4, Zenon DEF FailureScript
    <3>2. ~openKey' => ~openKey /\ ~Opens(fails')
      BY <3>1, Zenon
    <3> QED BY <1>1, <2>1, <3>2 DEF Opens
  <2>3. ~openKey' => streak' <= Cardinality(Calling') + Counted'
    BY <1>1, <1>3, <1>4, <2>1, <2>2 DEF StreakInv, Counted
  <2> QED BY <1>3, <1>4, <2>1, <2>3 DEF StreakInv
<1>5. CASE Untold /\ UNCHANGED <<fails, openKey>>
  BY <1>2, <1>5, UntoldKeepsStreak DEF Places
<1> QED BY <1>4, <1>5 DEF Errs

(* A step that begins no call and takes no failure back from the count. *)
LEMMA LessStreak ==
  ASSUME StreakInv, pc' \in [Tasks -> Places], openKey' \in BOOLEAN,
         streak' = 0, fails' = fails \/ fails' = 0
  PROVE  StreakInv'
<1>1. Threshold \in Nat \ {0} /\ Cardinality(Tasks) \in Nat
  BY LlmAssumption, CallingFew
<1>2. Cardinality(Calling') \in Nat
  <2>1. IsFiniteSet(Tasks) /\ Calling' \subseteq Tasks
    BY LlmAssumption DEF Calling
  <2> QED BY <2>1, FS_Subset, FS_CardinalityType
<1>3. fails' \in Nat /\ Counted' \in Nat
  BY <1>1 DEF StreakInv, Counted
<1> QED BY <1>1, <1>2, <1>3 DEF StreakInv

(* Every other step of a task moves from one place that is no call to another. *)
LEMMA OthersKeepStreak ==
  ASSUME StreakInv, NEW t \in Tasks, NEW where \in Places, Goto(t, where),
         pc[t] # "calling", where # "calling", UNCHANGED <<fails, openKey, streak>>
  PROVE  StreakInv'
<1>1. pc' \in [Tasks -> Places] /\ Cardinality(Calling') = Cardinality(Calling)
  BY CallingMoves DEF StreakInv, Places
<1> QED BY <1>1 DEF StreakInv, Counted

LEMMA StreakStep == StreakInv /\ [Next]_vars => StreakInv'
<1> SUFFICES ASSUME StreakInv, [Next]_vars PROVE StreakInv'
  OBVIOUS
<1>1. CASE UNCHANGED <<pc, fails, openKey, streak>>
  BY <1>1 DEF StreakInv, Counted, Calling
<1>2. ASSUME NEW t \in Tasks, Step(t) PROVE StreakInv'
  <2>1. CASE Check(t)
    BY <2>1, CheckKeepsStreak
  <2>2. CASE Errs(t)
    BY <2>2, ErrsKeepsStreak
  <2>3. CASE Answers(t)
    <3>1. pc' \in [Tasks -> Places]
      BY <2>3 DEF Answers, LeaveLoop, Goto, StreakInv, Places
    <3>2. streak' = 0 /\ openKey' = openKey /\ (fails' = fails \/ fails' = 0)
      BY <2>3 DEF Answers
    <3> QED BY <3>1, <3>2, LessStreak DEF StreakInv
  <2>4. CASE DeleteOpenKey(t)
    <3>1. pc[t] = "closing" /\ Goto(t, "settle") /\ fails' = fails
      BY <2>4 DEF DeleteOpenKey, LeaveLoop
    <3>2. CASE openKey' = openKey /\ streak' = streak
      BY <3>1, <3>2, OthersKeepStreak DEF Places
    <3>3. CASE openKey /\ openKey' = FALSE /\ streak' = 0
      BY <3>1, <3>3, LessStreak DEF Goto, StreakInv, Places
    <3>4. \/ openKey' = openKey /\ streak' = streak
          \/ openKey /\ openKey' = FALSE /\ streak' = 0
      BY <2>4 DEF DeleteOpenKey, StreakInv
    <3> QED BY <3>2, <3>3, <3>4
  <2>5. CASE Reserve(t)
    <3>1. pc[t] = "reserve" /\ (Goto(t, "done") \/ Goto(t, "check"))
      BY <2>5 DEF Reserve, Default, Refuse, Admit
    <3>2. UNCHANGED <<fails, openKey, streak>>
      BY <2>5 DEF Reserve
    <3> QED BY <3>1, <3>2, OthersKeepStreak DEF Places
  <2>6. CASE LookUp(t)
    <3>1. pc[t] = "new" /\ (Goto(t, "done") \/ Goto(t, "reserve"))
      BY <2>6 DEF LookUp
    <3>2. UNCHANGED <<fails, openKey, streak>>
      BY <2>6 DEF LookUp, redis, history
    <3> QED BY <3>1, <3>2, OthersKeepStreak DEF Places
  <2>7. CASE SettleFailed(t) \/ SettleGood(t) \/ Store(t)
    <3>1. pc[t] \in {"settle", "store"} /\ (Goto(t, "done") \/ Goto(t, "store"))
      BY <2>7 DEF SettleFailed, SettleGood, Store
    <3>2. UNCHANGED <<fails, openKey, streak>>
      BY <2>7 DEF SettleFailed, SettleGood, Store, redis, history
    <3> QED BY <3>1, <3>2, OthersKeepStreak DEF Places
  <2> QED BY <1>2, <2>1, <2>2, <2>3, <2>4, <2>5, <2>6, <2>7 DEF Step
<1>3. ASSUME NEW t \in Tasks, Cancel(t) PROVE StreakInv'
  <2>1. Goto(t, "gone") /\ UNCHANGED <<fails, openKey>>
    BY <1>3 DEF Cancel, redis
  <2>2. CASE pc[t] = "calling"
    BY <1>3, <2>1, <2>2, UntoldKeepsStreak DEF Cancel, Places
  <2>3. CASE pc[t] # "calling"
    BY <1>3, <2>1, <2>3, OthersKeepStreak DEF Cancel, Places
  <2> QED BY <2>2, <2>3
<1>4. CASE CoolShared \/ CountExpires
  <2>1. pc' = pc /\ (fails' = fails \/ fails' = 0) /\ openKey' = FALSE /\ streak' = 0
    BY <1>4 DEF CoolShared, CountExpires, task, StreakInv
  <2> QED BY <2>1, LessStreak DEF StreakInv
<1>5. CASE UNCHANGED vars
  BY <1>1, <1>5 DEF vars, task, redis, history
<1>6. ASSUME NEW r \in Runs, BudgetExpires(r) PROVE StreakInv'
  BY <1>1, <1>6 DEF BudgetExpires, task
<1>7. ASSUME NEW b \in Backends, CoolLocal(b) \/ RedisBack(b) PROVE StreakInv'
  BY <1>1, <1>7 DEF CoolLocal, RedisBack, task, redis, history
<1>8. ASSUME NEW p \in Prompts, CacheExpires(p) PROVE StreakInv'
  BY <1>1, <1>8 DEF CacheExpires, task, history
<1> QED BY <1>2, <1>3, <1>4, <1>5, <1>6, <1>7, <1>8 DEF Next, Finished

(* circuit_is_open, record_failure: without a success, the end of a cooldown or of
   the count's time to live, a provider is called on Redis's word at most as often
   as opens the circuit, less one, and once more by each task already past its
   check. *)
THEOREM ProviderIsLeftAlone == Spec => []FailingProviderIsLeftAlone
<1>1. StreakInv => FailingProviderIsLeftAlone
  BY DEF StreakInv, FailingProviderIsLeftAlone
<1> QED BY StreakInit, StreakStep, <1>1, PTL DEF Spec
=============================================================================
