------------------------ MODULE ProductIntelligence ------------------------
(***************************************************************************)
(* A product intelligence job (services/product_intelligence/service.py).  *)
(* Its task searches the web for each source product and, for each         *)
(* candidate found, creates and dispatches a crawl, polls the crawl's run  *)
(* until it is final or the time is up, and scores the record.  A last     *)
(* pass scores what has become final meanwhile.  The runs themselves are   *)
(* no concern of this module: they do what RunContract says, which         *)
(* RunLifecycle is shown to implement, and users delete those at rest.     *)
(***************************************************************************)
EXTENDS Naturals, FiniteSets, RunStatus

CONSTANTS Candidates,     \* what the searches may yield; each has one run
          MaxErrors       \* bound: database errors and process deaths

ASSUME IntelligenceAssumption == MaxErrors \in Nat

VARIABLES
    status, crawled, outlived,  \* the runs, as in RunContract; "deleted" is a row gone
    rows,               \* runs that have stored a record
    job,                \* committed: the job's status
    cand,               \* committed: each candidate's status, "none" before
    linked,             \* committed: candidates with a candidate_crawl_run_id
    matches,            \* committed: number of match rows per candidate
    count,              \* committed: match_count of the job's summary
    at,                 \* where the job's task is
    cur,                \* the candidate it works on
    left,               \* the candidates of the last pass still to look at
    draft,              \* candidate statuses set and not committed
    scored,             \* matches added and not committed
    errors,
    rested              \* for the properties: runs at rest since the last pass began

runs == <<status, crawled, outlived, rows>>
saved == <<job, cand, linked, matches, count>>
task == <<at, cur, left, draft, scored>>
vars == <<runs, saved, task, errors, rested>>

Run == INSTANCE RunContract WITH Runs <- Candidates

NoOne == "nobody"
Nothing == [c \in {} |-> "none"]
Final == TerminalStatuses               \* CRAWL_RUN_FINAL_STATUSES
Matched == {c \in Candidates : matches[c] > 0}

Init ==
    /\ Run!Init /\ rows = {}
    /\ job = "none" /\ cand = [c \in Candidates |-> "none"] /\ linked = {}
    /\ matches = [c \in Candidates |-> 0] /\ count = 0
    /\ at = "none" /\ cur = NoOne /\ left = {} /\ draft = Nothing /\ scored = {}
    /\ errors = 0 /\ rested = {}

Draft(c, s) == draft' = [d \in DOMAIN draft \cup {c} |-> IF d = c THEN s ELSE draft[d]]

\* A commit writes what the session holds.
Commit ==
    /\ cand' = [c \in Candidates |-> IF c \in DOMAIN draft THEN draft[c] ELSE cand[c]]
    /\ matches' = [c \in Candidates |-> IF c \in scored THEN matches[c] + 1 ELSE matches[c]]
    /\ draft' = Nothing /\ scored' = {}

-----------------------------------------------------------------------------
(* The candidates' runs.                                                    *)

RunStep ==
    /\ \/ \E c \in Candidates : \/ Run!TakeUp(c) \/ Run!Begin(c) \/ Run!Rest(c)
                                \/ Run!Resume(c) \/ Run!Outlive(c) \/ Run!Overrule(c)
       \/ Run!Abandon
    /\ rested' = {c \in rested : status'[c] \in Final}
    /\ UNCHANGED <<rows, saved, task, errors>>

\* Also by a crawl that outlives the kill of its run.
StoreRecord(c) ==
    /\ c \in outlived \/ (c \in crawled /\ status[c] = "running")
    /\ rows' = rows \cup {c}
    /\ UNCHANGED <<status, crawled, outlived, saved, task, errors, rested>>

\* delete_run: the records go with it, the candidate's run id becomes NULL, and
\* a crawl that goes on finds no run to store records of.
Delete(c) ==
    /\ status[c] \in TerminalStatuses
    /\ status' = [status EXCEPT ![c] = "deleted"]
    /\ rows' = rows \ {c} /\ linked' = linked \ {c} /\ rested' = rested \ {c}
    /\ outlived' = outlived \ {c}
    /\ UNCHANGED <<crawled, job, cand, matches, count, task, errors>>

-----------------------------------------------------------------------------
(* Requests.                                                                *)

CreateJob ==
    /\ job = "none" /\ job' = "queued"
    /\ UNCHANGED <<runs, cand, linked, matches, count, task, errors, rested>>

\* discover_product_intelligence_candidates: no crawls; what the search engine
\* said of each candidate is stored as its match, in one commit.
Discover(S) ==
    /\ job = "none" /\ job' = "complete" /\ at' = "discovered"
    /\ cand' = [c \in Candidates |-> IF c \in S THEN "discovered" ELSE "none"]
    /\ matches' = [c \in Candidates |-> IF c \in S THEN 1 ELSE 0]
    /\ count' = Cardinality(S)
    /\ UNCHANGED <<runs, linked, cur, left, draft, scored, errors, rested>>

-----------------------------------------------------------------------------
(* run_product_intelligence_job.                                            *)

Start ==
    /\ job = "queued" /\ at = "none"
    /\ job' = "running" /\ at' = "searching"
    /\ UNCHANGED <<runs, cand, linked, matches, count, cur, left, draft, scored, errors,
                   rested>>

\* The next candidate of a search is flushed.
Find(c) ==
    /\ at = "searching" /\ cand[c] = "none"
    /\ at' = "creating" /\ cur' = c /\ Draft(c, "discovered")
    /\ UNCHANGED <<runs, saved, left, scored, errors, rested>>

\* create_crawl_run commits, the candidate with it; dispatch_run commits.
CreateRun ==
    /\ at = "creating" /\ at' = "linking"
    /\ Run!Create(cur) /\ Commit
    /\ UNCHANGED <<rows, job, linked, count, cur, left, errors, rested>>

Link ==
    /\ at = "linking" /\ status[cur] # "deleted"
    /\ linked' = linked \cup {cur} /\ cand' = [cand EXCEPT ![cur] = "crawl_queued"]
    /\ at' = "polling"
    /\ UNCHANGED <<runs, job, matches, count, cur, left, draft, scored, errors, rested>>

Looks_Again(next) ==                    \* (mutant) no query for an existing match
    \/ /\ status[cur] = "deleted" /\ Draft(cur, "failed") /\ at' = next
    \/ /\ status[cur] \in Final
       /\ at' = (IF next = "settling" THEN "scoring" ELSE "late") /\ UNCHANGED draft
\* _score_candidate_if_ready, as far as its first two queries: next is where
\* the caller goes on once there is nothing to score.
Looks(next) ==
    \/ /\ matches[cur] > 0
       /\ at' = next /\ UNCHANGED draft
    \/ /\ matches[cur] = 0 /\ status[cur] = "deleted"
       /\ Draft(cur, "failed") /\ at' = next
    \/ /\ matches[cur] = 0 /\ status[cur] \in Final
       /\ at' = (IF next = "settling" THEN "scoring" ELSE "late") /\ UNCHANGED draft

\* ... and its last: a record is scored, unless there is none.
Scores(next) ==
    /\ at' = next
    /\ IF cur \in rows THEN Draft(cur, "crawl_complete") /\ scored' = scored \cup {cur}
       ELSE Draft(cur, "no_records") /\ UNCHANGED scored

Poll ==
    /\ at = "polling" /\ Looks("settling")
    /\ UNCHANGED <<runs, saved, cur, left, scored, errors, rested>>

Score ==
    /\ at = "scoring" /\ Scores("settling")
    /\ UNCHANGED <<runs, saved, cur, left, errors, rested>>

Timeout_NotPaused ==                    \* (mutant) waits for a paused run
    /\ at = "polling" /\ status[cur] # "paused"
    /\ Draft(cur, "crawl_timeout") /\ at' = "settling"
    /\ UNCHANGED <<runs, saved, cur, left, scored, errors, rested>>
\* The deadline passes between two polls.
Timeout ==
    /\ at = "polling"
    /\ Draft(cur, "crawl_timeout") /\ at' = "settling"
    /\ UNCHANGED <<runs, saved, cur, left, scored, errors, rested>>

\* A match refers to its record: without it the commit is refused.
Committable == scored \subseteq rows

Settle_Early ==                         \* (mutant) commits before the match is added
    /\ at = "settling"
    /\ count' = Cardinality(Matched) /\ at' = "searching"
    /\ cand' = [c \in Candidates |-> IF c \in DOMAIN draft THEN draft[c] ELSE cand[c]]
    /\ draft' = Nothing
    /\ UNCHANGED <<runs, job, linked, matches, scored, cur, left, errors, rested>>

\* _update_job_summary counts before the commit writes the new match.
Settle ==
    /\ at = "settling" /\ Committable
    /\ count' = Cardinality(Matched) /\ Commit
    /\ at' = "searching"
    /\ UNCHANGED <<runs, job, linked, cur, left, errors, rested>>

LastPass_Queued == {c \in linked : cand[c] = "crawl_queued"}     \* (mutant) not the timed out
\* The candidates _score_completed_candidates loads that have a run; of the one
\* it has just polled the session still knows the run if it was deleted since.
LastPass == linked \cup (IF cur = NoOne THEN {} ELSE {cur})

BeginLastPass ==
    /\ at = "searching" /\ at' = "lastpass" /\ left' = LastPass
    /\ rested' = {c \in linked : status[c] \in Final}
    /\ UNCHANGED <<runs, saved, cur, draft, scored, errors>>

LookAgain(c) ==
    /\ at = "lastpass" /\ c \in left /\ cur' = c /\ left' = left \ {c}
    /\ at' = "looking"
    /\ UNCHANGED <<runs, saved, draft, scored, errors, rested>>

LastLook ==
    /\ at = "looking"
    /\ \/ Looks("lastpass")
       \/ matches[cur] = 0 /\ status[cur] \in ActiveStatuses /\ at' = "lastpass" /\ UNCHANGED draft
    /\ UNCHANGED <<runs, saved, cur, left, scored, errors, rested>>

ScoreLate ==
    /\ at = "late" /\ Scores("lastpass")
    /\ UNCHANGED <<runs, saved, cur, left, errors, rested>>

\* Of the matches not committed the count sees those a prompt's cost log flushed.
Total == Cardinality(Matched) .. Cardinality(Matched \cup scored)

Complete ==
    /\ at = "lastpass" /\ left = {} /\ Committable
    /\ count' \in Total /\ Commit
    /\ job' = "complete" /\ at' = "ended"
    /\ UNCHANGED <<runs, linked, cur, left, errors, rested>>

\* An exception the session survives: a search fails, a candidate's URL or the
\* dispatch of its run is refused, a record cannot be scored.  What the session
\* holds is committed with the failure.
Fail ==
    /\ at \in {"searching", "creating", "linking", "scoring", "late"} /\ Committable
    /\ job' = "failed" /\ at' = "ended" /\ Commit
    /\ UNCHANGED <<runs, linked, count, cur, left, errors, rested>>

\* A cost log that is refused rolls the session back; the objects it expires
\* cannot be read again, and the job fails without what it held.
FailScoring ==
    /\ at \in {"scoring", "late"} /\ errors < MaxErrors /\ errors' = errors + 1
    /\ job' = "failed" /\ at' = "ended" /\ draft' = Nothing /\ scored' = {}
    /\ UNCHANGED <<runs, cand, linked, matches, count, cur, left, rested>>

\* A database error, also in the handler's refresh of the job, or the end of
\* the process: the task is gone and the job stays as it was committed.
Die ==
    /\ at \notin {"none", "discovered", "ended", "dead"}
    /\ \/ errors < MaxErrors /\ errors' = errors + 1
       \/ ~Committable /\ UNCHANGED errors
       \/ at = "linking" /\ status[cur] = "deleted" /\ UNCHANGED errors
    /\ at' = "dead" /\ draft' = Nothing /\ scored' = {}
    /\ UNCHANGED <<runs, saved, cur, left, rested>>

-----------------------------------------------------------------------------

TaskStep ==
    \/ Start \/ CreateRun \/ Link \/ Poll \/ Score \/ Settle
    \/ BeginLastPass \/ LastLook \/ ScoreLate \/ Complete
    \/ Fail \/ FailScoring \/ Die
    \/ \E c \in Candidates : Find(c) \/ LookAgain(c)

Next ==
    \/ CreateJob \/ TaskStep \/ Timeout
    \/ \E S \in SUBSET Candidates : Discover(S)
    \/ RunStep
    \/ \E c \in Candidates : StoreRecord(c) \/ Delete(c)

\* The task goes on, without an error having to help it, and the clock reaches
\* a poll's deadline.
Spec == Init /\ [][Next]_vars /\ WF_vars(TaskStep /\ errors' = errors) /\ WF_vars(Timeout)

-----------------------------------------------------------------------------

\* Every variable stays in its range.
TypeOK ==
    /\ status \in [Candidates -> CrawlStatus \cup {"absent", "deleted"}]
    /\ crawled \subseteq Candidates /\ outlived \subseteq Candidates
    /\ rows \subseteq Candidates /\ linked \subseteq Candidates
    /\ job \in {"none", "queued", "running", "complete", "failed"}
    /\ cand \in [Candidates -> {"none", "discovered", "crawl_queued", "crawl_complete",
                                "no_records", "crawl_timeout", "failed"}]
    /\ \A c \in Candidates : matches[c] \in Nat
    /\ count \in 0 .. Cardinality(Candidates)
    /\ at \in {"none", "searching", "creating", "linking", "polling", "scoring", "settling",
               "lastpass", "looking", "late", "ended", "discovered", "dead"}
    /\ cur \in Candidates \cup {NoOne} /\ left \subseteq Candidates
    /\ DOMAIN draft \subseteq Candidates /\ scored \subseteq Candidates

\* Safety.  A candidate is scored at most once, by its poll or by the last
\* pass, although each looks for a match only among the rows written so far.
OneMatch == \A c \in Candidates : matches[c] <= 1

\* Safety.  In the database a crawled candidate is complete exactly when its
\* match is there, whichever error or death ends the task.
StatusTellsMatch ==
    at # "discovered" => \A c \in Candidates : cand[c] = "crawl_complete" <=> matches[c] > 0

\* Safety.  When a job completes, no candidate is left queued, and one whose
\* crawl was at rest all through the last pass has been judged by its outcome.
NothingLeftBehind ==
    [][job = "running" /\ job' = "complete" =>
          /\ \A c \in linked : cand'[c] # "crawl_queued"
          /\ \A c \in rested : cand'[c] \in {"crawl_complete", "no_records", "failed"}]_vars

\* Liveness.  A job that has begun ends, or its task dies: no crawl that never
\* comes to rest, paused or given up, keeps it waiting.
JobEnds == at = "searching" ~> at \in {"ended", "dead"}
=============================================================================
