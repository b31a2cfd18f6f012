------------------------------ MODULE UrlCrawl ------------------------------
(***************************************************************************)
(* What a crawl task does with the URLs of its run, in the default         *)
(* deployment: process_run's loop, the stages of process_single_url, the   *)
(* rows it upserts, the progress it counts, the acquisition contract it    *)
(* learns, and the transaction all of these share.  One run, one task at a *)
(* time; a pause request with a copy of the run of its own, and a resume   *)
(* that starts the URL list over.  RunLifecycle models the other requests, *)
(* several runs and tasks, and crashes of the backend.                     *)
(***************************************************************************)
EXTENDS Naturals, Sequences, FiniteSets

CONSTANTS
  NumUrls,       \* URLs of the run
  MaxRecords,    \* its max_records setting
  Threshold,     \* acquisition_contract_stale_failure_threshold
  RecordUrls,    \* URLs a record can carry
  Canonical(_),  \* canonical_public_record_url on ecommerce_detail
  Contents,      \* what else distinguishes two extractions of a record
  NoRow,
  Yields,        \* sequences of records that one page may yield
  MaxPauses      \* bound on pause requests

ASSUME CrawlAssumption ==
  /\ NumUrls \in Nat \ {0} /\ MaxRecords \in Nat \ {0} /\ Threshold \in Nat \ {0}
  /\ MaxPauses \in Nat
  /\ NoRow \notin Contents
  /\ Yields \subseteq Seq([url: RecordUrls, content: Contents])
  /\ \A u \in RecordUrls : Canonical(u) \in RecordUrls /\ Canonical(Canonical(u)) = Canonical(u)

VARIABLES
  surface,                         \* of the run: a listing or ecommerce_detail
  status, summary, rows, contract, \* committed
  pc, idx, page, result,           \* the task: step, URL index, page, URL's result
  copy, state, verdicts,           \* its run copy, BatchRunProgressState, verdict list
  loop,                            \* persist_extracted_records while it stores records
  flushed,                         \* its session: rows and contract not yet committed
  request,                         \* a pause request that has loaded the run
  pauses,
  lost                             \* observer: a request wrote an outdated summary back

dbVars   == <<surface, status, summary, rows, contract>>
taskVars == <<pc, idx, page, result, copy, state, verdicts, loop, flushed>>
vars     == <<dbVars, taskVars, request, pauses, lost>>

Verdict == {"success", "partial", "blocked", "listing_detection_failed", "empty", "error"}

Progress == [count: Nat, completed: Nat, verdicts: Seq(Verdict)]
Summary  == [progress: Progress, ctrl: {"none", "pause"}]
Page     == [via: {"http", "patchright", "real_chrome"},
             evidence: {"clear", "suspect", "blocked"}, yield: Yields]

NoProgress == [count |-> 0, completed |-> 0, verdicts |-> <<>>]
NoPage     == [via |-> "http", evidence |-> "clear", yield |-> <<>>]
NoResult   == [verdict |-> "error", count |-> 0]
NoLoop     == [next |-> 1, existing |-> {}, seen |-> {}, count |-> 0]
Unlearned  == [learned |-> FALSE, failures |-> 0, stale |-> FALSE]

Stored == {u \in RecordUrls : rows[u] # NoRow}

-----------------------------------------------------------------------------
(* Progress: BatchRunProgressState *)

FromSummary(p) ==
  LET kept == SubSeq(p.verdicts, 1, IF Len(p.verdicts) < NumUrls THEN Len(p.verdicts) ELSE NumUrls)
      done == IF p.completed < NumUrls THEN p.completed ELSE NumUrls IN
  [p EXCEPT !.verdicts = kept, !.completed = IF kept = <<>> THEN done ELSE Len(kept)]

(* Faulty variant: the verdicts of an earlier pass stay and the new ones follow. *)
RecordResult_Appends(p, i, r) ==
  [count |-> p.count + r.count, completed |-> p.completed + 1,
   verdicts |-> Append(p.verdicts, r.verdict)]

(* record_url_result: a verdict of an earlier pass is replaced. *)
RecordResult(p, i, r) ==
  [count |-> p.count + r.count,
   completed |-> p.completed + 1,
   verdicts |-> IF i <= Len(p.verdicts) THEN [p.verdicts EXCEPT ![i] = r.verdict]
                ELSE Append(p.verdicts, r.verdict)]

-----------------------------------------------------------------------------
(* Pages: PageEvidence, compute_verdict *)

Detail == surface = "detail"
ChallengeShell(p)   == p.evidence # "clear"    \* challenge_shell_reason
EffectivelyBlocked(p) == p.evidence = "blocked"  \* indicates_block

ComputeVerdict(p, n) ==
  CASE n > 0  -> IF EffectivelyBlocked(p) THEN "partial" ELSE "success"
    [] n = 0 /\ EffectivelyBlocked(p) -> "blocked"
    [] OTHER  -> IF Detail THEN "empty" ELSE "listing_detection_failed"

-----------------------------------------------------------------------------
(* Rows: persist_extracted_records.  Rows that the page's records may already
   have are looked up by the URLs the records carry; each record is then stored
   under the URL that public_record_data_for_surface leaves it with. *)

Identity(rec) == IF Detail THEN Canonical(rec.url) ELSE rec.url

(* Faulty variant: rows of an earlier pass are not looked up. *)
Preloaded_None(db, recs) == {}

Preloaded(db, recs) ==
  {u \in RecordUrls : db[u] # NoRow /\ \E i \in DOMAIN recs : recs[i].url = u}

-----------------------------------------------------------------------------
(* The contract of the URLs' domain: record_acquisition_contract_outcome *)

ContractOutcome(c, p, r) ==
  CASE ~EffectivelyBlocked(p) /\ r.count > 0 -> [learned |-> TRUE, failures |-> 0, stale |-> FALSE]
    [] ~EffectivelyBlocked(p) /\ r.count = 0 /\ c.learned ->
         [c EXCEPT !.failures = @ + 1, !.stale = c.failures + 1 >= Threshold]
    [] OTHER -> c

-----------------------------------------------------------------------------
(* The task *)

Goto(p) == pc' = p
(* No request, and no record being stored. *)
Quiet == UNCHANGED <<loop, request, pauses, lost>>

(* The session's rows and contract are what is committed. *)
Clean == flushed' = [rows |-> rows', contract |-> contract']

(* The session commits its copy of the summary, and whatever it has flushed. *)
Commit(new) ==
  /\ copy' = new /\ summary' = new
  /\ rows' = flushed.rows /\ contract' = flushed.contract
  /\ Clean

(* process_run up to its first commit; a run that is terminal is left alone.
   Between the load and the commit only a request could write, and only its
   control request would be overwritten: RunLifecycle has those steps. *)
Open ==
  /\ pc = "start" /\ status \in {"pending", "running"}
  /\ state' = FromSummary(summary.progress)
  /\ Commit([summary EXCEPT !.progress = state'])
  /\ status' = "running"
  /\ idx' = 1 /\ verdicts' = <<>>
  /\ Goto("top")
  /\ UNCHANGED <<surface, page, result>> /\ Quiet

ObeyPause ==
  /\ pc = "top" /\ idx <= NumUrls /\ summary.ctrl = "pause"
  /\ Commit([summary EXCEPT !.ctrl = "none"])
  /\ status' = "paused"
  /\ Goto("idle")
  /\ UNCHANGED <<surface, idx, page, result, state, verdicts>> /\ Quiet

(* Refresh, heartbeat, STAGE_ACQUIRE; _enter_stage commits it once more. *)
BeginUrl ==
  /\ pc = "top" /\ idx <= NumUrls /\ summary.ctrl = "none"
  /\ Commit(summary)
  /\ Goto("acquire")
  /\ UNCHANGED <<surface, status, idx, page, result, state, verdicts>> /\ Quiet

(* _run_robots_gate: no contract outcome is noted. *)
RobotsBlocked ==
  /\ pc = "acquire"
  /\ result' = [verdict |-> "blocked", count |-> 0]
  /\ Goto("result")
  /\ UNCHANGED <<dbVars, idx, page, copy, state, verdicts, flushed>> /\ Quiet

(* acquire() and the extraction of what it returns, STAGE_EXTRACT between. *)
Acquire ==
  /\ pc = "acquire"
  /\ page' \in Page
  /\ Commit(copy)
  /\ Goto("extract")
  /\ UNCHANGED <<surface, status, idx, result, state, verdicts>> /\ Quiet

(* A retry may also be skipped: by what the HTML shows, by the URL's remaining
   budget, or because no real Chrome is installed. *)
RetryEmpty ==
  /\ pc = "extract"
  /\ page.via = "http" /\ page.yield = <<>> /\ ~EffectivelyBlocked(page)
  /\ page' \in Page
  /\ Goto("quality")
  /\ UNCHANGED <<dbVars, idx, result, copy, state, verdicts, flushed>> /\ Quiet

RetryLowQuality ==
  /\ pc \in {"extract", "quality"} /\ Detail
  /\ page.via = "http" /\ page.yield # <<>> /\ ~EffectivelyBlocked(page)
  /\ page' \in Page
  /\ Goto("guard")
  /\ UNCHANGED <<dbVars, idx, result, copy, state, verdicts, flushed>> /\ Quiet

NoBrowserRetry ==
  /\ pc \in {"extract", "quality"}
  /\ Goto("guard")
  /\ UNCHANGED <<dbVars, idx, page, result, copy, state, verdicts, flushed>> /\ Quiet

(* Faulty variant: the records go, the page does not become blocked. *)
Rejected_Unmarked(p) == [p EXCEPT !.yield = <<>>]

(* _apply_detail_rejection_guard: a challenge counts as a block from here on. *)
Rejected(p) ==
  [p EXCEPT !.yield = <<>>, !.evidence = IF ChallengeShell(p) THEN "blocked" ELSE @]

(* A shell that patchright returned is tried once in the real Chrome. *)
RetryShell ==
  /\ pc = "guard" /\ Detail /\ page.via = "patchright"
  /\ page' \in Page
  /\ Goto("reguard")
  /\ UNCHANGED <<dbVars, idx, result, copy, state, verdicts, flushed>> /\ Quiet

(* Then STAGE_NORMALIZE, the artifacts, STAGE_PERSIST. *)
GuardedPages(p) ==
  IF ~Detail THEN {p}
  ELSE {Rejected(p)} \cup (IF ChallengeShell(p) \/ p.yield = <<>> THEN {} ELSE {p})

Guard ==
  /\ pc \in {"guard", "reguard"}
  /\ page' \in GuardedPages(page)
  /\ Commit(copy)
  /\ Goto("persist")
  /\ UNCHANGED <<surface, status, idx, result, state, verdicts>> /\ Quiet

(* persist_extracted_records: look up the rows there are, then store one record
   after the other, each with a flush of its own. *)
LookUp ==
  LET there == Preloaded(flushed.rows, page.yield) IN
  /\ pc = "persist"
  /\ loop' = [NoLoop EXCEPT !.existing = there, !.seen = there]
  /\ Goto("upsert")
  /\ UNCHANGED <<dbVars, idx, page, result, copy, state, verdicts, flushed,
                 request, pauses, lost>>

Storing == pc = "upsert" /\ loop.next <= Len(page.yield)
Key == Identity(page.yield[loop.next])
Content == page.yield[loop.next].content
Stays == UNCHANGED <<dbVars, idx, page, result, copy, state, verdicts, request, pauses, lost>>

(* A row that was looked up and differs is rewritten. *)
Rewrite ==
  /\ Storing /\ Key \in loop.seen \cap loop.existing /\ flushed.rows[Key] # Content
  /\ flushed' = [flushed EXCEPT !.rows[Key] = Content]
  /\ loop' = [loop EXCEPT !.next = @ + 1, !.count = @ + 1]
  /\ UNCHANGED pc /\ Stays

SkipRecord ==
  /\ Storing /\ Key \in loop.seen
  /\ Key \in loop.existing => flushed.rows[Key] = Content
  /\ loop' = [loop EXCEPT !.next = @ + 1]
  /\ UNCHANGED <<pc, flushed>> /\ Stays

Insert ==
  /\ Storing /\ Key \notin loop.seen /\ flushed.rows[Key] = NoRow
  /\ flushed' = [flushed EXCEPT !.rows[Key] = Content]
  /\ loop' = [loop EXCEPT !.next = @ + 1, !.count = @ + 1, !.seen = @ \cup {Key}]
  /\ UNCHANGED pc /\ Stays

(* An insert that the unique index refuses raises out of the URL. *)
InsertRefused ==
  /\ Storing /\ Key \notin loop.seen /\ flushed.rows[Key] # NoRow
  /\ loop' = NoLoop /\ Goto("duplicate")
  /\ UNCHANGED flushed /\ Stays

Persisted ==
  /\ pc = "upsert" /\ loop.next > Len(page.yield)
  /\ result' = [verdict |-> ComputeVerdict(page, loop.count), count |-> loop.count]
  /\ loop' = NoLoop /\ Goto("learn")
  /\ UNCHANGED <<dbVars, idx, page, copy, state, verdicts, flushed, request, pauses, lost>>

Persist == LookUp \/ Rewrite \/ SkipRecord \/ Insert \/ InsertRefused \/ Persisted

(* Faulty variant: save_domain_run_profile with commit=True. *)
Learn_Commits ==
  /\ pc = "learn"
  /\ rows' = flushed.rows
  /\ contract' = ContractOutcome(flushed.contract, page, result)
  /\ Clean
  /\ Goto("result")
  /\ UNCHANGED <<surface, status, summary, idx, page, result, copy, state, verdicts>> /\ Quiet

Learn ==
  /\ pc = "learn"
  /\ flushed' = [flushed EXCEPT !.contract = ContractOutcome(@, page, result)]
  /\ Goto("result")
  /\ UNCHANGED <<dbVars, idx, page, result, copy, state, verdicts>> /\ Quiet

(* wait_for's timeout, or an exception anywhere in process_single_url. *)
UrlFails ==
  /\ pc \in {"acquire", "extract", "quality", "guard", "reguard", "persist", "upsert", "learn"}
  /\ Goto("failed") /\ loop' = NoLoop
  /\ UNCHANGED <<dbVars, idx, page, result, copy, state, verdicts, flushed,
                 request, pauses, lost>>

(* Faulty variant: no rollback before the log line is committed. *)
Recover_NoRollback ==
  /\ pc \in {"failed", "duplicate"}
  /\ result' = [verdict |-> "error", count |-> 0]
  /\ copy' = summary
  /\ rows' = flushed.rows /\ contract' = flushed.contract
  /\ Goto("result")
  /\ UNCHANGED <<surface, status, summary, idx, page, state, verdicts, flushed>> /\ Quiet

(* _recover_url_failure: rollback, reload, and a log line committed alone. *)
Recover ==
  /\ pc \in {"failed", "duplicate"}
  /\ result' = [verdict |-> "error", count |-> 0]
  /\ copy' = summary
  /\ flushed' = [rows |-> rows, contract |-> contract]
  /\ Goto("result")
  /\ UNCHANGED <<dbVars, idx, page, state, verdicts>> /\ Quiet

(* The URL's rows, contract outcome and progress in one commit. *)
Record ==
  /\ pc = "result"
  /\ state' = RecordResult(state, idx, result)
  /\ verdicts' = Append(verdicts, result.verdict)
  /\ Commit([copy EXCEPT !.progress = state'])
  /\ idx' = IF state'.count >= MaxRecords THEN NumUrls + 1 ELSE idx + 1
  /\ page' = NoPage /\ result' = NoResult
  /\ Goto("top")
  /\ UNCHANGED <<surface, status>> /\ Quiet

Complete ==
  /\ pc = "top" /\ idx > NumUrls
  /\ Commit([summary EXCEPT !.progress = state])
  /\ status' = "completed"
  /\ Goto("idle")
  /\ UNCHANGED <<surface, idx, page, result, state, verdicts>> /\ Quiet

(* A database error in process_run itself, the final commit included: rollback
   and mark_run_failed. *)
RunFails ==
  /\ pc \in {"top", "result"}
  /\ status' = "failed"
  /\ Goto("idle")
  /\ copy' = summary
  /\ flushed' = [rows |-> rows, contract |-> contract]
  /\ UNCHANGED <<surface, summary, rows, contract, idx, page, result, state, verdicts>> /\ Quiet

Task ==
  \/ Open \/ ObeyPause \/ BeginUrl \/ RobotsBlocked \/ Acquire
  \/ RetryEmpty \/ RetryLowQuality \/ NoBrowserRetry \/ RetryShell \/ Guard
  \/ Persist \/ Learn \/ UrlFails \/ Recover \/ Record \/ Complete \/ RunFails

-----------------------------------------------------------------------------
(* Requests *)

NoRequest == [on |-> FALSE, copy |-> [progress |-> NoProgress, ctrl |-> "none"]]

(* pause_run loads the run. *)
PauseLoads ==
  /\ ~request.on /\ pauses < MaxPauses /\ status = "running"
  /\ request' = [on |-> TRUE, copy |-> summary]
  /\ pauses' = pauses + 1
  /\ UNCHANGED <<dbVars, taskVars, lost>>

(* It writes the summary back whole.  Without a live task the run is PAUSED by
   the revoke of its task id, whatever its status has become meanwhile. *)
PauseCommits ==
  /\ request.on
  /\ summary' = [request.copy EXCEPT !.ctrl = IF pc = "idle" THEN @ ELSE "pause"]
  /\ status' = IF pc = "idle" THEN "paused" ELSE status
  /\ lost' = (lost \/ request.copy.progress # summary.progress)
  /\ request' = NoRequest
  /\ UNCHANGED <<surface, rows, contract, taskVars, pauses>>

(* resume_run and dispatch_run. *)
Resume ==
  /\ status = "paused" /\ pc = "idle" /\ ~request.on
  /\ status' = "running"
  /\ summary' = [summary EXCEPT !.ctrl = "none"]
  /\ Goto("start")
  /\ page' = NoPage /\ result' = NoResult
  /\ UNCHANGED <<surface, rows, contract, idx, copy, state, verdicts, loop, flushed, request, pauses,
                 lost>>

-----------------------------------------------------------------------------
Init ==
  /\ surface \in {"listing", "detail"}
  /\ status = "pending"
  /\ summary = [progress |-> NoProgress, ctrl |-> "none"]
  /\ rows = [u \in RecordUrls |-> NoRow]
  /\ contract \in {Unlearned, [Unlearned EXCEPT !.learned = TRUE]}
  /\ pc = "start" /\ idx = 0
  /\ page = NoPage /\ result = NoResult
  /\ copy = summary /\ state = NoProgress /\ verdicts = <<>> /\ loop = NoLoop
  /\ flushed = [rows |-> rows, contract |-> contract]
  /\ request = NoRequest /\ pauses = 0 /\ lost = FALSE

Next == Task \/ PauseLoads \/ PauseCommits \/ Resume

Spec == Init /\ [][Next]_vars

-----------------------------------------------------------------------------
(* Properties *)

(* Every variable of the run, its task and the request keeps its type. *)
TypeOK ==
  /\ surface \in {"listing", "detail"}
  /\ status \in {"pending", "running", "paused", "completed", "failed"}
  /\ {summary, copy, request.copy} \subseteq Summary /\ state \in Progress
  /\ rows \in [RecordUrls -> Contents \cup {NoRow}]
  /\ contract \in [learned: BOOLEAN, failures: Nat, stale: BOOLEAN]
  /\ pc \in {"idle", "start", "top", "acquire", "extract", "quality", "guard", "reguard",
             "persist", "upsert", "duplicate", "learn", "failed", "result"}
  /\ idx \in 0..NumUrls + 1
  /\ page \in Page /\ result \in [verdict: Verdict, count: Nat]
  /\ verdicts \in Seq(Verdict)
  /\ loop \in [next: Nat \ {0}, existing: SUBSET RecordUrls, seen: SUBSET RecordUrls, count: Nat]
  /\ flushed \in [rows: [RecordUrls -> Contents \cup {NoRow}],
                 contract: [learned: BOOLEAN, failures: Nat, stale: BOOLEAN]]
  /\ request.on \in BOOLEAN /\ pauses \in 0..MaxPauses /\ lost \in BOOLEAN

(* The run's record_count covers every row it has stored, whatever timeouts,
   rollbacks, pauses and resumes there were: a row is never committed without
   its count.  A request that writes an outdated summary back takes counts
   away, and is the only thing that does (_batch_runtime.py's one commit per
   URL, persistence.py). *)
RowsCounted == ~lost => Cardinality(Stored) <= summary.progress.count

(* Rows and the acquisition contract change only in the commit that also records
   the URL's result, and a URL that failed leaves neither behind: what it had
   flushed when it timed out or raised is gone (_recover_url_failure). *)
ErrorLeavesNothing ==
  [][<<rows, contract>>' # <<rows, contract>> =>
        pc = "result" /\ result.verdict # "error"]_vars

(* A detail page that was rejected as a challenge shell is neither a success nor
   a failure of the domain's acquisition contract, with or without the retry in
   real Chrome (_apply_detail_rejection_guard marks it blocked). *)
ChallengeSparesContract ==
  [][contract' # contract /\ Detail => ~ChallengeShell(page)]_vars

(* Crawling a URL again, or a page that lists a record twice, never runs into the
   unique index, unless a record's URL is not in its public form: the lookup of
   existing rows is by the URL the record carries (persist_extracted_records). *)
DuplicateOnlyByCanonicalUrl ==
  pc = "duplicate" => \E i \in DOMAIN page.yield : Identity(page.yield[i]) # page.yield[i].url

(* A run completes with one verdict for each of its URLs, replaced and not
   repeated when a resume crawls a URL again, or with max_records reached
   (record_url_result, process_run's loop). *)
CompletesWithVerdicts ==
  [][status' = "completed" /\ pc # "idle" =>
       \/ summary'.progress.count >= MaxRecords
       \/ Len(summary'.progress.verdicts) = NumUrls]_vars

(* docs/backend-architecture.md:375: identities the run already has are skipped
   "on rerun/re-entry so detail/listing retries stay idempotent instead of
   failing the run on a duplicate-key insert".  Violated. *)
NoDuplicateKey == pc # "duplicate"

=============================================================================
