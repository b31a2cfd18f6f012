--------------------------- MODULE DataEnrichment ---------------------------
(***************************************************************************)
(* Data enrichment jobs (services/data_enrichment/service.py).  A request  *)
(* creates a job over crawled records; a background task then enriches the *)
(* job's products one after the other inside ONE transaction, which it     *)
(* commits at the end.  Requests and jobs run concurrently, over the same  *)
(* records if the user so selects, in READ COMMITTED sessions that do not  *)
(* flush by themselves and that write a column only when its value differs *)
(* from the one they loaded.                                               *)
(***************************************************************************)
EXTENDS Naturals, FiniteSets

CONSTANTS Records, Jobs,
          LlmJobs,        \* the jobs created with llm_enabled
          MaxErrors,      \* bound: database errors
          MaxCrashes      \* bound: background tasks that die with their process

VARIABLES
    rec,        \* committed: enrichment_status of each record
    prod,       \* committed: [job, status] of each record's product row
    job,        \* committed: status of each job, "none" before it is created
    at,         \* where a job's request or background task is
    accepted,   \* what its request accepted: record -> the statuses it read
    todo,       \* products its task has still to visit
    cur,        \* the record its task is enriching
    seen,       \* product status its session loaded, per record
    read,       \* record status its session loaded, per record
    draft,      \* statuses it set in its session and has not committed
    flushed,    \* records whose rows it has written, and so locked
    good, bad,  \* enriched_count, failed_count
    errors, crashes,
    stranded,   \* for the properties: records a job took up and lost,
    contested   \* and records that two jobs have held at once

task == <<accepted, todo, cur, seen, read, draft, flushed, good, bad>>
vars == <<rec, prod, job, at, task, errors, crashes, stranded, contested>>

NoJob == "no job"
NoRecord == "no record"

ASSUME EnrichmentAssumption ==
    /\ LlmJobs \subseteq Jobs /\ NoJob \notin Jobs /\ NoRecord \notin Records
    /\ MaxErrors \in Nat /\ MaxCrashes \in Nat

NoProduct == [job |-> NoJob, status |-> "none"]
RecordStatus == {"unenriched", "pending", "enriched", "failed"}
Unset == [r \in Records |-> "none"]
None == [r \in {} |-> "none"]

Init ==
    /\ rec \in [Records -> {"unenriched"}] /\ prod = [r \in Records |-> NoProduct]
    /\ job = [j \in Jobs |-> "none"] /\ at = [j \in Jobs |-> "none"]
    /\ accepted = [j \in Jobs |-> None] /\ todo = [j \in Jobs |-> {}]
    /\ cur = [j \in Jobs |-> NoRecord]
    /\ seen = [j \in Jobs |-> Unset] /\ read = [j \in Jobs |-> Unset]
    /\ draft = [j \in Jobs |-> None] /\ flushed = [j \in Jobs |-> {}]
    /\ good = [j \in Jobs |-> {}] /\ bad = [j \in Jobs |-> 0]
    /\ errors = 0 /\ crashes = 0 /\ stranded = {} /\ contested = {}

\* A row another transaction has written and not committed: a write waits.
Locked(j, R) == \E k \in Jobs \ {j} : flushed[k] \cap R # {}
\* Two tasks wait for each other: the database aborts one of them.
Deadlocked(j, R) ==
    \E k \in Jobs \ {j} : flushed[k] \cap R # {} /\ flushed[j] \cap ({cur[k]} \cup DOMAIN draft[k]) # {}
DatabaseError(j, R) ==
    \/ errors < MaxErrors /\ errors' = errors + 1
    \/ Deadlocked(j, R) /\ UNCHANGED errors

-----------------------------------------------------------------------------
(* (history) Jobs that hold a record from its selection to their end.       *)

Holds(j, r) ==
    \/ at[j] = "accepted" /\ r \in DOMAIN accepted[j]
    \/ at[j] = "created" /\ prod[r].job = j
    \/ at[j] = "running" /\ r \in todo[j] \cup {cur[j]} \cup DOMAIN draft[j]

-----------------------------------------------------------------------------
(* create_data_enrichment_job: a request reads, then writes and commits.    *)

Skip == {"enriched", "degraded"}        \* DATA_ENRICHMENT_SKIP_RECORD_STATUSES

\* Read the selected records and their products; refuse when none is accepted.
Select(j, S) ==
    LET chosen == {r \in S : rec[r] \notin Skip}
    IN  /\ at[j] = "none" /\ S # {}
        /\ at' = [at EXCEPT ![j] = IF chosen = {} THEN "refused" ELSE "accepted"]
        /\ accepted' = [accepted EXCEPT ![j] =
               [r \in chosen |-> [rec |-> rec[r], prod |-> prod[r]]]]
        /\ contested' = contested \cup
               {r \in chosen : \E k \in Jobs \ {j} : Holds(k, r)}
        /\ UNCHANGED <<rec, prod, job, todo, cur, seen, read, draft, flushed, good, bad,
                       errors, crashes, stranded>>

Taken_SameJob(j, was, now) ==           \* (mutant) job_id is left as it was
    [job |-> IF was = NoProduct THEN j ELSE now.job,
     status |-> IF was.status = "pending" THEN now.status ELSE "pending"]
\* Of a product that exists, the job and what differs from the row as read.
Taken(j, was, now) ==
    [job |-> j, status |-> IF was.status = "pending" THEN now.status ELSE "pending"]

NewStatus_Running == "running"         \* (mutant) not what the task starts from
NewStatus == "pending"

\* Commit the job with its pending records and products.  A product inserted
\* meanwhile for the same record violates the unique index: the request fails.
Create(j) ==
    LET A == accepted[j]   R == DOMAIN A
    IN  /\ at[j] = "accepted" /\ ~Locked(j, R)
        /\ IF \E r \in R : A[r].prod = NoProduct /\ prod[r] # NoProduct
             THEN /\ at' = [at EXCEPT ![j] = "refused"]
                  /\ UNCHANGED <<rec, prod, job>>
             ELSE /\ at' = [at EXCEPT ![j] = "created"]
                  /\ job' = [job EXCEPT ![j] = NewStatus]
                  /\ rec' = [r \in Records |->
                        IF r \in R /\ A[r].rec # "pending" THEN "pending" ELSE rec[r]]
                  /\ prod' = [r \in Records |->
                        IF r \in R THEN Taken(j, A[r].prod, prod[r]) ELSE prod[r]]
        /\ accepted' = [accepted EXCEPT ![j] = None]
        /\ UNCHANGED <<todo, cur, seen, read, draft, flushed, good, bad, errors,
                       crashes, stranded, contested>>

-----------------------------------------------------------------------------
(* run_data_enrichment_job.                                                 *)

\* The session closes.
Close(j) ==
    /\ seen' = [seen EXCEPT ![j] = Unset] /\ read' = [read EXCEPT ![j] = Unset]
    /\ draft' = [draft EXCEPT ![j] = None] /\ flushed' = [flushed EXCEPT ![j] = {}]
    /\ good' = [good EXCEPT ![j] = {}] /\ bad' = [bad EXCEPT ![j] = 0]

\* Load the job's products; nothing is committed, the status "running" neither.
Start(j) ==
    LET mine == {r \in Records : prod[r].job = j}
    IN  /\ at[j] = "created" /\ job[j] = "pending"
        /\ at' = [at EXCEPT ![j] = "running"]
        /\ todo' = [todo EXCEPT ![j] = mine]
        /\ seen' = [seen EXCEPT ![j] =
               [r \in Records |-> IF r \in mine THEN prod[r].status ELSE "none"]]
        /\ UNCHANGED <<rec, prod, job, accepted, cur, read, draft, flushed, good, bad,
                       errors, crashes, stranded, contested>>

\* Take up the next product.  With the LLM, the prompt's cost log flushes the
\* session: everything drafted so far, and the product.
Take(j, r) ==
    LET written == DOMAIN draft[j] \cup {r}
    IN  /\ at[j] = "running" /\ cur[j] = NoRecord /\ r \in todo[j]
        /\ cur' = [cur EXCEPT ![j] = r] /\ todo' = [todo EXCEPT ![j] = @ \ {r}]
        /\ read' = [read EXCEPT ![j][r] = rec[r]]
        /\ \/ UNCHANGED flushed
           \/ /\ j \in LlmJobs /\ ~Locked(j, written)
              /\ flushed' = [flushed EXCEPT ![j] = @ \cup written]
        /\ UNCHANGED <<rec, prod, job, at, accepted, seen, draft, good, bad, errors,
                       crashes, stranded, contested>>

Settle_LastOnly(j, status) ==           \* (mutant) only the last product is kept
    /\ cur' = [cur EXCEPT ![j] = NoRecord]
    /\ draft' = [draft EXCEPT ![j] = [r \in {cur[j]} |-> status]]
\* Set the statuses of the product and its record in the session.
Settle(j, status) ==
    /\ cur' = [cur EXCEPT ![j] = NoRecord]
    /\ draft' = [draft EXCEPT ![j] =
           [r \in DOMAIN @ \cup {cur[j]} |-> IF r = cur[j] THEN status ELSE @[r]]]

Enrich(j) ==
    /\ at[j] = "running" /\ cur[j] # NoRecord
    /\ Settle(j, "enriched")
    /\ good' = [good EXCEPT ![j] = @ \cup {cur[j]}]
    /\ UNCHANGED <<rec, prod, job, at, accepted, todo, seen, read, flushed, bad, errors,
                   crashes, stranded, contested>>

\* Any other exception of _enrich_product.
Fail(j) ==
    /\ at[j] = "running" /\ cur[j] # NoRecord
    /\ Settle(j, "failed")
    /\ bad' = [bad EXCEPT ![j] = @ + 1]
    /\ UNCHANGED <<rec, prod, job, at, accepted, todo, seen, read, flushed, good, errors,
                   crashes, stranded, contested>>

\* A database error: roll back, reload, and mark this product failed.  The
\* rollback takes with it what the job had drafted for the others.
RollBack(j) ==
    LET r == cur[j]
    IN  /\ at[j] = "running" /\ r # NoRecord /\ j \in LlmJobs
        /\ DatabaseError(j, DOMAIN draft[j] \cup {r})
        /\ cur' = [cur EXCEPT ![j] = NoRecord]
        /\ draft' = [draft EXCEPT ![j] = [q \in {r} |-> "failed"]]
        /\ seen' = [seen EXCEPT ![j] =
               [q \in Records |-> IF @[q] = "none" THEN "none" ELSE prod[q].status]]
        /\ read' = [read EXCEPT ![j] = [q \in Records |-> IF q = r THEN rec[q] ELSE "none"]]
        /\ flushed' = [flushed EXCEPT ![j] = {}]
        /\ bad' = [bad EXCEPT ![j] = @ + 1]
        /\ stranded' = stranded \cup DOMAIN draft[j]
        /\ UNCHANGED <<rec, prod, job, at, accepted, todo, good, crashes, contested>>

Verdict(j) ==
    IF bad[j] > 0 THEN IF good[j] # {} THEN "degraded" ELSE "failed" ELSE "enriched"

\* A column is written only when the value set differs from the value loaded.
Written(set, loaded, now) == IF set = loaded THEN now ELSE set

\* The last commit of _run_job: the job's verdict and every drafted status.
Finish(j) ==
    LET D == draft[j]
    IN  /\ at[j] = "running" /\ cur[j] = NoRecord /\ todo[j] = {}
        /\ ~Locked(j, DOMAIN D)
        /\ job' = [job EXCEPT ![j] = Verdict(j)]
        /\ prod' = [r \in Records |->
              IF r \in DOMAIN D THEN [prod[r] EXCEPT !.status = Written(D[r], seen[j][r], @)]
                                ELSE prod[r]]
        /\ rec' = [r \in Records |->
              IF r \in DOMAIN D THEN Written(D[r], read[j][r], rec[r]) ELSE rec[r]]
        /\ at' = [at EXCEPT ![j] = "finished"]
        /\ Close(j)
        /\ UNCHANGED <<accepted, todo, cur, errors, crashes, stranded, contested>>

\* The task dies, with its process or by an error of the last commit: nothing
\* of it was committed, and nothing starts it again.
Die(j) ==
    /\ at[j] \in {"created", "running"}
    /\ \/ crashes < MaxCrashes /\ crashes' = crashes + 1 /\ UNCHANGED errors
       \/ /\ at[j] = "running" /\ cur[j] = NoRecord /\ todo[j] = {}
          /\ DatabaseError(j, DOMAIN draft[j]) /\ UNCHANGED crashes
    /\ at' = [at EXCEPT ![j] = "dead"]
    /\ Close(j)
    /\ cur' = [cur EXCEPT ![j] = NoRecord] /\ todo' = [todo EXCEPT ![j] = {}]
    /\ stranded' = stranded \cup DOMAIN draft[j] \cup todo[j] \cup ({cur[j]} \ {NoRecord})
                    \cup {r \in Records : prod[r].job = j}
    /\ UNCHANGED <<rec, prod, job, accepted, contested>>

-----------------------------------------------------------------------------

TaskStep(j) ==
    \/ Start(j) \/ Enrich(j) \/ Fail(j) \/ RollBack(j) \/ Finish(j)
    \/ \E r \in Records : Take(j, r)

Next ==
    \/ \E j \in Jobs : Create(j) \/ TaskStep(j) \/ Die(j)
    \/ \E j \in Jobs, S \in SUBSET Records : Select(j, S)

\* Requests and background tasks that can go on do, without an error or a death
\* having to help them; a transaction that waits for a lock gets it when it is
\* free for good.
Fairness ==
    \A j \in Jobs : /\ WF_vars(Create(j))
                   /\ WF_vars((TaskStep(j) \/ Die(j)) /\ errors' = errors /\ crashes' = crashes)

Spec == Init /\ [][Next]_vars /\ Fairness

-----------------------------------------------------------------------------

\* Every variable stays in its range; a job rests only at a verdict.
TypeOK ==
    /\ rec \in [Records -> RecordStatus]
    /\ \A r \in Records : /\ prod[r].job \in Jobs \cup {NoJob}
                          /\ prod[r].status \in RecordStatus \cup {"none"}
    /\ job \in [Jobs -> {"none", "pending", "enriched", "degraded", "failed"}]
    /\ at \in [Jobs -> {"none", "refused", "accepted", "created", "running", "finished", "dead"}]
    /\ \A j \in Jobs : /\ todo[j] \subseteq Records /\ flushed[j] \subseteq Records
                       /\ good[j] \subseteq Records /\ bad[j] \in 0 .. Cardinality(Records)
                       /\ cur[j] \in Records \cup {NoRecord}
                       /\ DOMAIN draft[j] \subseteq Records

\* Safety.  A record that waits for its enrichment is held by a job that will
\* visit it, however the jobs overlap, unless a rollback or the death of a task
\* lost it.
PendingHasJob ==
    \A r \in Records : rec[r] = "pending" => (\E j \in Jobs : Holds(j, r)) \/ r \in stranded

\* Safety.  A record that only one job held is, when the job finishes, what the
\* job counted it to be, and so is its product, unless a rollback came after.
AloneIsCommitted ==
    [][\A j \in Jobs : Finish(j) => \A r \in good[j] \ (contested \cup stranded) :
                                        rec'[r] = "enriched" /\ prod'[r].status = "enriched"]_vars

\* What the comment "defensive job isolation" promises and a test asserts for a
\* failure of the first product: what a finished job counted as enriched is
\* enriched.  Fails when a later product meets a database error.
CountedIsKept ==
    [][\A j \in Jobs : at[j] = "running" /\ at'[j] = "finished"
           => \A r \in good[j] : rec'[r] = "enriched"]_vars

\* Liveness.  A job's task ends, although jobs that share records wait for each
\* other's rows.
JobsEnd == \A j \in Jobs : at[j] = "created" ~> at[j] \in {"finished", "dead"}
=============================================================================
