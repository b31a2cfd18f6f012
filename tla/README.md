# CrawlerAI: a verification project in TLA+

The backend under `src/backend/app` crawls web pages into records.  A client
creates a *run* (one URL, a list, or a CSV of URLs).  A task of the backend works
through the URLs: it acquires each page over HTTP or in a shared browser, extracts
records, stores them and counts them.  Meanwhile the client pauses, resumes or kills
the run, and the backend may be restarted.  Further jobs work on what was crawled: they
enrich records, or search the web for the same products and crawl what they find.

This directory models the parts of that in which the order of events decides whether
the system is right.

| Module | What it is | Proofs |
| --- | --- | --- |
| `RunStatus` | status alphabet and transition table of a run | |
| `RunContract` | what a run promises: the abstract specification | |
| `RunLifecycle` | runs, crawl tasks, API requests, recovery sweeps, crash and restart | `RunLifecycle_proofs` |
| `UrlCrawl` | the URLs of one run: stages, rows, progress, acquisition contract | `UrlCrawl_proofs` |
| `HostMemory` | what is remembered of a host's protection: the row and its changes | `Fetch_proofs` |
| `FetchEscalation` | one fetch: HTTP clients, browser engines, proxies, hand-off | `Fetch_proofs` |
| `HostPacing` | the table of request slots per host | `Fetch_proofs` |
| `BrowserPool` | the pool of shared browsers, its locks, permits and counts | `BrowserPool_proofs` |
| `BrowserCapture` | the responses of a page: queue, workers, budget, close | `Page_proofs` |
| `Traversal` | scrolling, clicking and turning the pages of a listing | `Page_proofs` |
| `LlmTask` | one prompt of a run: cache, budget, circuit breaker, retries, cost log | `LlmTask_proofs` |
| `DataEnrichment` | enrichment jobs over shared records | `DataEnrichment_proofs` |
| `ProductIntelligence` | jobs that crawl and score candidates | `ProductIntelligence_proofs` |
| `MC...` | an instance of each for TLC | |

How they meet.  `RunLifecycle` has several runs, tasks and requests, and of a URL only
that it is begun, commits, and ends.  `UrlCrawl` has one run and one task and opens the
URL up; what it takes for granted, one task at a time, is `OneTaskPerRun`, which
`RunLifecycle_proofs` proves for one run driven by one request at a time.  The acquisition
stage of a URL is one fetch of `FetchEscalation`, which takes slots of `HostPacing` for
its HTTP attempts, reads and writes `HostMemory`, and, where it uses a browser, is one
fetch of `BrowserPool`; in the open page a `BrowserCapture` listens and a `Traversal`
may run.  `LlmTask` is one call that the extraction or an enrichment job makes.
`RunContract` joins the top: `RunLifecycle` is shown to implement it (`KeepsContract`),
and `ProductIntelligence` is composed with it (`Run == INSTANCE RunContract`), so that
the candidate runs a job waits for do exactly what runs are shown to do, and no more.

## Components

Paths are relative to `src/backend/app/services` unless they begin with another
directory of `src/backend/app`.

### Modelled

**Run lifecycle and control** (`crawl_service.py`, `crawl_state.py`,
`_batch_runtime.py`, `models/crawl_domain.py`, `main.py`, `api/crawls.py`).
*State*: the committed `crawl_runs` row (status, the `result_summary` JSON with the
control request and the task id, the heartbeat); `_local_run_tasks`, the registry of
tasks; per task and request a private copy of the row.
*Operations*: create, dispatch, pause, resume, kill; the task's checkpoints; recovery of
stale runs, at startup and before every local dispatch.
*Interaction*: requests and tasks share only the row and the registry; the control
request is a message left in the row.
*Hard*: every session writes back a copy it read earlier; the JSON column is written
whole; the sweep selects rows and acts on them later; the task's done callback runs
after others have gone on; a cancellation may be swallowed where it lands.
*Right when*: one task per run; a run at rest has no task; a kill is final; a task the
registry forgets cannot be stopped, so it forgets one at work only when it has cancelled
it; interrupted runs are reclaimed, and only those.

**URL pipeline, batch progress, record persistence, acquisition contract**
(`pipeline/extraction_loop.py`, `_batch_runtime.py`, `models/crawl.py`,
`pipeline/persistence.py`, `publish/verdict.py`, `domain_run_profile_service.py`).
*State*: rows unique by `(run_id, url_identity_key)`; `record_count`, `completed_urls`,
`url_verdicts` in the summary; the contract of a domain with its failure count; what the
task's session has flushed and not committed.
*Operations*: the stages of a URL, browser retries, rejection guard, upsert, verdict,
contract outcome, timeout or exception, rollback, the commit of a result.
*Hard*: one transaction shared by all of them, with commits of the stage column in
between; a timeout anywhere; a resume that crawls the list again; a pause that writes
back an outdated summary.
*Right when*: rows and counts go together; a failed URL leaves nothing; challenge pages
do not age the contract; re-crawled records do not collide; a completed run has its
verdicts.

**Fetch escalation and host protection memory** (`fetch/fetch_context.py`,
`acquisition/runtime.py`, `acquisition/host_protection_memory.py`).
*State*: a row per host (count of blocks, the methods of the last block and the last
success, their times, a preference for browsers); a cache of the policy read from it; of
a fetch its result so far, its proxies, its engines.
*Operations*: load the policy; choose between HTTP, browser and hand-off; retry over
clients and proxies; escalate; extend the engines after a block; note a block or a
success.
*Interaction*: every fetch of a host reads and writes the same row and cache.
*Hard*: a note loads, computes and commits apart; a policy read before a commit may be
cached after it; the list of engines grows while it is worked off.
*Right when*: every fetch ends; a proxy is given up only after every engine; the memory
agrees with what the fetch returned.

**Host pacing** (`acquisition/rate_limiter.py`).
*State*: host → time from which it may be asked again, bounded in size.
*Operations*: take a slot, back off after a block, prune, trim, reset.
*Hard*: the table drops entries while fetches sleep outside its lock.
*Right when*: slots of a host are an interval apart and behind its last block.

**Browser runtime** (`acquisition/browser_runtime.py`).
*State*: the pool by lane (engine and proxy) and its lock; per runtime the browser, the
lock, a semaphore, the counts of active and waiting contexts and of contexts created.
*Operations*: get a runtime, evict idle ones, launch, recycle, open a context, use it,
unwind, recover from a dead driver.
*Hard*: awaits under two levels of locks; cancellation by the URL's timeout at any of
them; decisions on counts that are used after an await; browsers that die.
*Right when*: counts tally with the fetches; locks are released; no browser is launched
over another; the pool is bounded; every fetch ends.

**Network payload capture** (`acquisition/browser_capture.py`).
*State*: a bounded queue with its count of unfinished items, worker tasks, a budget of
payloads and bytes, partly reserved.
*Operations*: listen, admit, read, store, close with a bounded join, sentinels, drain,
cancellation.
*Hard*: bodies of unknown or wrong length read in parallel; a close that times out or is
cancelled among its workers, and is called again only if it was not the clean-up's.
*Right when*: the budget holds, the queue's count tallies, an orderly close loses
nothing, every close comes to a summary that is not cut short with nobody left to repeat it.

**Listing traversal** (`acquisition/traversal.py`, the choice of the HTML in
`acquisition/browser_page_flow.py`).
*State*: the snapshots of a page, the fragments kept, the count, the URLs visited, the
streaks of weak progress.
*Operations*: scroll, "load more", turn pages; keep new cards; stop for one of a dozen
reasons; choose what the fetch goes on with.
*Hard*: cards come and go between any two looks.
*Right when*: what is counted and still there is kept, no page is gathered twice, a target
that was reached is delivered.

**LLM prompts, budget and circuit breaker** (`llm_tasks.py`, `llm_provider_client.py`,
`llm_budget.py`, `llm_circuit_breaker.py`, `llm_cache.py`).
*State*: in Redis the calls of a run, a result cache, the provider's failures in a row
and its open key; in each process a breaker of its own and whether Redis is off.
*Operations*: look up, reserve, check, call, record, retry, log the cost, store.
*Hard*: several processes, commands that come apart, Redis that fails at any of them.
*Right when*: a run stays within its budget; a failing provider is left alone; failures
in a row open the circuit.

**Data enrichment jobs** (`data_enrichment/service.py`, `api/data_enrichment.py`).
*State*: status of jobs, products and records; in each job's session what it drafted.
*Operations*: create a job over records, enrich its products in one transaction, fail
one, roll back, commit.
*Hard*: jobs share records; unchanged columns are not written; row locks; a process that
dies.
*Right when*: a pending record has a job that will visit it; what a job counted it
commits; jobs end.

**Product intelligence jobs** (`product_intelligence/service.py`).
*State*: job, candidates, their runs, matches.
*Operations*: find a candidate, crawl it, poll its run, score it, look again at the end.
*Hard*: runs that pause, end late or are deleted under the job; commits that come apart;
errors in the error handler.
*Right when*: one match per candidate, status and match agree, nothing final is left
behind, the job ends.

### Not modelled

| Component | Why |
| --- | --- |
| Celery dispatch (`tasks.py`, `core/celery_app.py`) | off by default (`celery_dispatch_enabled`); redelivery of a late-acknowledged task: planned |
| cookie memory (`acquisition/cookie_store.py`) | planned: what a finishing fetch stores is decided near the end of `browser_fetch`, after a page flow that is not modelled |
| log stream (`crawl_events.py`, `api/crawls.py`) | a stateless writer and a reader that polls with the id of the last line as its cursor; a line flushed before it and committed after it is skipped, which no document excludes: planned |
| selector memory and self heal | which selectors are kept depends on what they extract from a page's text; the order of reads and writes of a domain's memory is planned |
| browser page flow, identity, proxy bridge, HTTP client | I/O with pages and sockets; page heuristics |
| site adapters, extraction, field normalisation, policies | pure functions over HTML, JSON and strings: what they do is the choice of the models' inputs |
| publish metadata and metrics, review, export, artifacts | stateless or read-only views of committed records |
| accounts, dashboard, schemas, configuration, database and redis plumbing | single statements, declarations, infrastructure |
| frontend, smoke harnesses, Zyte comparison | clients and developer scripts |

The components that are not modelled are most of the code by lines: three quarters of it
is extraction, normalisation, page heuristics, configuration and scripts, in which the
order of events decides nothing.

## RunLifecycle and RunContract

An action is what happens between two awaits at which another session's commit may land.

| Model | Code |
| --- | --- |
| `db[r]` | the committed row: `status`, `ctrl` (control request), `task` (whether a task id is stored), `beat` (age of `last_heartbeat_at`, or of the row before the first beat, against the 120 s stall threshold) |
| `registry` | `_local_run_tasks` |
| `wpc, wrun, wrow, widx` | a task: `_run_with_local_session`, `process_run`, its copy, its URL index |
| `hpc, hop, hrun, hrow, htodo, hvictim` | a request or the startup hook: its copy, the rows its sweep selected, the one it is at |
| `Flush` | what a session writes: the status column only if it changed it, the summary whole (`expire_on_commit=False`, `update_summary`) |
| `Load .. Complete` | `process_run`, in the order of the code |
| `RunFault, MarkLoad, Mark` | an exception outside a URL, `mark_run_failed`, tried again once |
| `Return` | the end of the task and its done callback |
| `PauseLive, PauseRevoke, KillLive, KillRevoke, RequestFails, Resume` | `pause_run`, `kill_run`, `resume_run` |
| `Cancel`, `survivors` | what `local_task.cancel()` comes to: it ends the task, or is swallowed by `_close_browser_context_safely` |
| `Sweep, PickVictim, Reclaim, Stamp, SweepOver, Launch` | `_dispatch_run_locally` with `recover_stale_local_runs` |
| `Boot` | the lifespan hook, before requests are served |
| `Age, Crash` | time and process termination |

`RunContract` is the same run without tasks' copies, registry, sweeps and restarts: a
status that follows the transition table, and the set of runs a task is at work on.  A
run is taken up only while it is pending or running; it comes to rest and ceases to be
crawled in one step (`Rest`), except that a kill may leave its crawl going on behind it
(`Outlive`), which then has no effect on any status; only a request that has read the run
before its end may overrule COMPLETED or FAILED.  `KeepsContract` in `RunLifecycle` is the
refinement: `status` is the column of the committed row, `crawled` the runs of the tasks
at work, `outlived` those of the tasks that have swallowed a cancellation.

*A kill* forgets the task, cancels it and marks the run.  `CancelledError` is raised where
the task waits.  In a URL that may be the closing of a browser context, and
`_close_browser_context_safely` logs it and returns: the task is no longer registered, its
run is KILLED, and it goes on, for the checkpoint reads only the control request, of which
its copy has none.  Everywhere else the task ends.  The model has both (`Cancel`); which
properties then still hold of such a survivor is part of their statements, and what does
not, that it begins no further URL, is `KilledBeginsNoUrl` below.

*Joined or left out.* The refresh of a request's row and the sweep's select are one step
(nothing is written between); a request the code rejects outright is not begun; commits
of single progress fields are `EnterStage`, which writes the same whole summary.
`asked` is an observer: no guard reads it.  Field commits from the review screen and
deletion of a run are not modelled.

*`Age`* may happen when no request is in progress and the run's task, if any, is inside a
URL whose timeout is longer than the threshold.  The default `url_timeout_seconds` is 105,
a user may set up to 600: that is `SlowUrls`.  Every other step is a database round trip,
which is taken to last less than 120 s.

*Fairness.*  The event loop runs every ready coroutine (`WF` on a task's steps and on a
request's), `asyncio.wait_for` bounds a URL, so leaving `url` is fair; the stage commits
inside a URL are not progress.  The backend is restarted by whoever runs it (`WF` on
`Boot`).  Requests, crashes, faults and the passing of time owe nothing.

*`CHECK_DEADLOCK FALSE`*: a run that has ended and a client that asks for nothing more are
a proper end.

| Run | Instance | What it shows |
| --- | --- | --- |
| `run_solo` | 1 run, 2 task slots, 1 request slot, 2 URLs, slow URLs, 7 requests, 2 crashes, 1 fault; a kill may be swallowed; fair | `OneTaskPerRun`, `WorkingIsActive`, `WorkingIsRegistered`, `RegistryNamesLiveTask`, `KilledIsFinal`, `KeepsContract`, `TasksEnd`, `DispatchedRunsMoveOn`, `TypeOK` |
| `resume_fails_run` | 1 run, 4 requests | violates `OnlyInterruptedRunsFail` |

*Why these bounds.*  Seven requests are create, pause, resume, pause, resume, kill and
one to spare, and two crashes hit both the first dispatch and a resumed one.  Two task
slots are what a second task for the run would need.  Two URLs separate the first
checkpoint from a later one.  The solo properties are claimed for **one run and one
request at a time** because they fail otherwise: the sweep of another run's dispatch, or
two requests with copies of the same row, break each of them.  That is a statement about
the code, not a convenience of the model.  `RegistryNamesLiveTask` needs no such
hypothesis; `RegistryCorrect` proves it for any number of runs and requests.

## UrlCrawl

| Model | Code |
| --- | --- |
| `status, summary, rows, contract` | committed row, records of the run, contract of the domain |
| `flushed` | rows and contract as the task's session sees them |
| `loop` | `persist_extracted_records` at work: the record it is at, the rows that were there, the rows seen, the count |
| `copy, state, verdicts` | the session's run object, `BatchRunProgressState`, the verdict list of this pass |
| `page` | how the page was got, what its evidence says, which records it yields |
| `Open, ObeyPause, BeginUrl, Record, Complete, RunFails` | `process_run` |
| `RobotsBlocked, Acquire, RetryEmpty, RetryLowQuality, NoBrowserRetry, RetryShell, Guard` | the stages of `process_single_url` and their commits |
| `LookUp`, then per record `Rewrite`, `SkipRecord`, `Insert` or `InsertRefused`, `Persisted` | `persist_extracted_records`: the rows that are there already, the loop over the records, its count |
| `Learn` (`ContractOutcome`) | `record_acquisition_contract_outcome` |
| `UrlFails, Recover` | timeout or exception, `_recover_url_failure` |
| `PauseLoads, PauseCommits, Resume` | requests with a copy of their own |

A page is abstracted to what the pipeline tells apart: HTTP, patchright or the real
Chrome; clear, suspect (a challenge shell that the page-level test does not call a block)
or blocked; and a short sequence of records.  What extraction, self heal and the LLM
fallbacks make of a page is the choice of its yield; whether a retry pays is a choice too.
A record is its URL and one of two contents.  `Canonical` stands for
`canonical_public_record_url`, of which only idempotence is assumed.  `lost` is an
observer.  The row insert of another session, artifacts and the derived summaries are not
modelled.  The task's load and first commit are one step here; `RunLifecycle` has them
apart.

| Run | Instance | What it shows |
| --- | --- | --- |
| `url_crawl` | listing or product run, 2 URLs, `max_records` 3, contract stale after 2 failures, 3 record URLs of which two have one public form, 5 yields, 1 pause | `RowsCounted`, `DuplicateOnlyByCanonicalUrl`, `ErrorLeavesNothing`, `ChallengeSparesContract`, `CompletesWithVerdicts` |

*Why these bounds.*  The second URL and the second pass are where rows, counts and
verdicts of an earlier one are met.  The yields are: nothing, one record, the same
record changed together with a new one, a record whose URL is not in public form, and one
record twice.  Two failures in a row reach the threshold; the first URLs may yield three
records and stop the run.  Deadlock is not checked: a completed run is an end.

## HostMemory and FetchEscalation

`HostMemory` has no behaviour of its own: it is the row of a host, the two notes as
functions of it (`HardBlock`, `UsableFetch`), what a session's commit makes of concurrent
ones (`Flushed`: only columns that differ from the row as loaded, and the times), and the
policy read out of it (`Policy`).  Times are reduced to which lie within the ttl and
whether the last block or the last success is the later.

| Model | Code |
| --- | --- |
| `row, cache` | the host's `host_protection_memory` row, its entry in the policy cache |
| `LoadHit, LoadMiss, LoadPut` | `load_host_protection_policy`: the read and the entry into the cache are apart |
| `NoteLoads, NoteCommits, NoteRefused` | `note_host_hard_block`, `note_host_usable_fetch` with their own session; a failing commit is logged and forgotten |
| `Choose, SkipHandoff, HandoffFails, HandoffAnswers` | `fetch_page` up to the first attempt |
| `HttpFails, HttpFallback, HttpAnswers, Escalate` | curl, then httpx, per proxy and attempt; `_handle_http_result` |
| `BrowserRaises, BrowserAnswered, ExtendEngines` | `_run_browser_attempts` |
| `SiblingNotes, SiblingReads, SiblingPuts` | other fetches of the host |

How a page is judged is an input (`Answers`).  A retryable status is a transport failure
here (`HttpFails`).  The eviction of the cache and the reset of a host are not modelled.

*Fairness.*  `WF` on the fetch: the event loop runs ready tasks and each wait of a fetch
has a timeout.  Nothing is assumed of other fetches.

| Run | Instance | What it shows |
| --- | --- | --- |
| `fetch` | 8 calls that cover every mode, direct or over two proxies, with or without a real Chrome and hand-off; 4 rows that earlier fetches may have left, fresh or expired; threshold 2, 2 HTTP attempts, 1 sibling note or read | `FetchEnds`, `ConfirmedBlockTriesEveryEngine`, `MemoryFollowsResult` |

*Why these bounds.*  Two proxies and two attempts reach each next-proxy and next-attempt
branch, and two is the threshold at which one more block makes a preference.  One sibling
step is enough to fall between a load and its use, a read and its entry into the cache,
or a note's load and its commit.

## HostPacing

| Model | Code |
| --- | --- |
| `allowed` | `_HOST_NEXT_ALLOWED_AT` |
| `TakeSlot, Ask` | `wait_for_host_slot`, up to its sleep and after it |
| `Blocked` | `apply_protected_host_backoff` |
| `Pruned, Trimmed` | `_prune_expired_hosts`, `_trim_host_cache` |
| `Reset` | `reset_pacing_state` |

A section under the table's lock never awaits and is one step.  `since` and `early`
observe: the end of a host's last slot and last protected interval, and the hosts whose
entry was dropped, by a full table or the reset, while its time had not come.

| Run | Instance | What it shows |
| --- | --- | --- |
| `host_pacing` | 3 hosts in a table for 2, 2 fetches, interval 1, protected interval 3, ttl 1, clock up to 3 | `SlotsApart`, `BlockHoldsBack` |

*Why these bounds.*  Three hosts overflow a table for two; a ttl of one lets entries
expire within the clock's range; the protected interval is longer than the plain one, so
that a backoff and a slot taken before it differ.

## BrowserPool

A step runs from one await that may suspend to the next.  The locks of the counters and
statistics are never held across a suspension and are left out.

| Model | Code |
| --- | --- |
| `pool, poolLock, victims` | `_BROWSER_POOL`, its lock, the runtimes an eviction still has to close |
| `browser` | `_browser`: absent, connected, disconnected |
| `lock, permits, active, queued, created` | `_lock`, `_semaphore`, `_active_contexts`, `_queued_contexts`, `_total_contexts_created` since the launch |
| `pc, want, rt, page, attempt, victim` | a fetch: where it is suspended, the lane it wants, its runtime, its page, the round of `_open_context_page`, the runtime it evicts |
| `Get, EnterPool, EvictLock .. EvictNext, GetOrCreate` | `get_browser_runtime`, `_evict_idle_browser_runtimes_locked`, `close` |
| `EnsureLock, Recycled, Launched, LaunchFails` | `_ensure` |
| `Acquire, OpenContext, Opened, OpenFails, DisconnectLock, DisconnectClosed` | `page()`, `_open_context_page`, `_recycle_after_driver_disconnect` |
| `UseEnds, Persisted, ContextClosed` | the unwinding of `page()` |
| `Cancel` | `CancelledError` at the await the fetch is suspended at |
| `BrowserDies, Disconnects, Expire` | the driver or the clock |
| `Dies` in `OpenFails` | a page that closes in a browser that lives: `_open_context_page` recycles that browser too |

Runtime objects are reused once nothing refers to them, so three of them serve two
fetches and one pool entry for ever.  Which idle runtime an eviction takes depends on
times, which are not kept: any that is allowed may go.  The shutdown of the pool, the
SOCKS5 bridge and what is done with a page are not modelled.

*Fairness.*  asyncio locks and semaphores are first come first served, so a waiter whose
lock is free again and again gets it: `SF` on the steps that wait (`Take`).  Every
browser call is bounded by a timeout and the loop runs ready tasks: `WF` on the others
(`Proceed`).  Cancellations, deaths and new fetches owe nothing.

| Run | Instance | What it shows |
| --- | --- | --- |
| `pool_safe` | 2 fetches, 3 lanes (1 direct), 3 runtimes, 1 permit each, 1 pool entry, recycling after every context, one cancellation or one death of a browser or a page | `CountsTally`, `PoolBounded`, `LocksMatch` |
| `pool_live` | 2 lanes, no cancellation or death, fair | `FetchesEnd` |

*Why these bounds.*  One entry and one permit make every second fetch evict or wait, and
a limit of one context per browser makes every one recycle; three lanes give an eviction
more than one victim.  The code's limits (8 entries, 200 contexts, 1800 s) only make the
same events rarer.  `pool_safe` does not check deadlock: a cancellation while cookies are
stored loses a permit, and with one permit its lane then stops, which the code may do.
`pool_live` checks it; without a bound on the pages that close it was run as well, and every
fetch ends.

`CountsTally` and `PoolBounded` hold up to the first cancellation (two cancellation
points leave a count wrong, see below); `LocksMatch` holds whatever is cancelled.

## BrowserCapture

| Model | Code |
| --- | --- |
| `queue, unfinished` | `asyncio.Queue` and the count behind `join()` |
| `pending, reserved, captured` | `_pending_payloads`, `_reserved_bytes`, `_captured_bytes` |
| `Attach, Respond` | `attach`, `_schedule_capture` |
| `Get, Unread, Keep, Break, Unwind` | the worker: admission, the ways a body is not read, storing, an exception of the decoder, cancellation |
| `Close .. SumUp` | `close`: detach, join with its 2 s, sentinels, draining, gather, summary |
| `CancelClose, Unwound, CutShort` | the fetch is cancelled in `close`: its clean-up closes again, unless this was the clean-up's call |

A critical section of the class's lock never awaits and is one step.  A response is its
declared and actual length; endpoint classification, decoding and screenshots are left
out.  A sentinel can only wait too long when the listener could not be detached.

`close` is called by the last stage, `finalize_browser_fetch`, and by the `finally` of
`browser_fetch`, where it returns at once if there is a summary.  A cancelled call of the
stage is therefore followed by the clean-up's.  When a stage before it failed or timed out,
the clean-up's call is the first and only one (`last`); cut short, it ends the closing with
no summary and possibly with workers waiting (`closer` is "left").

*Fairness.*  `WF` on `close` and on each worker: the reading of a body is bounded (5 s).

| Run | Instance | What it shows |
| --- | --- | --- |
| `capture` | 2 workers, responses of known, unknown and understated length, 2 payloads, 2 bytes, queue of 2, 2 cancellations | `UnfinishedTallies`, `WithinBudget`, `OrderlyCloseLosesNothing`, `CloseEnds` |

*Why these bounds.*  Two bodies in flight compete for a budget that one of them uses up;
a queue of two is full with one response waiting and one more, or with its sentinels.
Two cancellations are the stage's call and the clean-up's; `CloseEnds` excepts the second,
and a first one that hits the clean-up.  `OrderlyCloseLosesNothing` is about responses that
found room in the queue: those the code refuses or ignores on arrival it does not count.

## Traversal

| Model | Code |
| --- | --- |
| `page, heading, late` | what the browser shows, a navigation under way, the deadline: the environment |
| `previous, current, count` | `_page_snapshot`s and `card_count` |
| `held, size, fallback` | `html_fragments` |
| `Open .. KeepFirstPage` | the beginning of each mode |
| `LimitReached, Act, ClickFails, NotFound, FollowLink, ClickNext` | the head and the action of a round |
| `OutOfTime .. GatherLast` | scroll and load-more after the action |
| `Arrived, LookAtPage, Settle, GatherSettled` | paginate after the turn |
| `Gather` | a step with progress: append, counts, streaks, stop reasons |
| `Deliver` | `_select_primary_browser_html` |
| `Raises` | a look or an action raises: the earlier pages are lost with it |

Each action reads the page once; between any two cards may come and go (`Changes`: any set
of the URL's cards) and navigations commit.  `content` stands for the signature and the
scroll height, which need not tell of a change: the signature is of the first texts and
links.  `looked` is an observer, the cards of the last look that counted.  The search for
locators, the counting of cards by heuristics, overlays and
`recover_listing_page_content` are not modelled.

`Deliver` counts links as the code does, in the whole HTML: of the cards, when the site's
links are known to lead to details, and any others, of menus or carousels, in the page
(`there`) and, if a whole page was kept, in the fragments (`here`).

| Run | Instance | What it shows |
| --- | --- | --- |
| `traversal` | a listing of 2 cards, a next page of 1, a page of another origin; 3 iterations, 2 scrolls, target 2, fragments of 1 card, 2 changes, 1 other link | `CountIsKept`, `TargetIsDelivered`, `NoPageTwice` |

*Why these bounds.*  Three iterations are a first page, a turn and one that leads back;
the target of two is met by the listing or only with the next page; a fragment of one
overflows; of two changes one brings cards and one takes them away.  The other numbers put
every threshold (thin page, marginal gain, enough items) inside the range of counts.  The
cards of the listing are interchangeable, and the properties name none: symmetry is sound.

*What the properties excuse.*  `CountIsKept`: cards of the last look that are gone when the
fragment is read, and cards shown then for which it has no room; cards that arrive between
the first fragment and the first snapshot; pages that repeat cards, counted on each; and
navigations that commit after the traversal has stopped waiting for them.  Each is a loss
that nothing in the code prevents.  What remains is that no path of the three loops counts
what it never goes on to read: the growth after the last click, the first page that settles
late, the look that ends a wait.  `TargetIsDelivered` excuses the same, and a page with more
links than the fragments (`richer`), which the code takes whatever the links are of.

## LlmTask

| Model | Code |
| --- | --- |
| `spent, hasTtl, cache, fails, openKey` | the keys in Redis |
| `localFails, opened` | `CircuitState` of a process |
| `off` | `redis_fail_open`: a failing command switches Redis off in the process for a while |
| `LookUp, Reserve` | `run_prompt_task` up to the budget; `reserve_run_llm_call` with its two commands |
| `Check, Answers, DeleteOpenKey, Errs` | `call_provider_with_retry` and the circuit breaker |
| `SettleFailed, SettleGood, Store` | parsing, validation, cost log, cache |
| `Cancel`, `CoolShared, CoolLocal, CountExpires, BudgetExpires, CacheExpires, RedisBack` | cancellation; times to live |

One provider.  Prompts without a run, budget 0, configuration and rendering are left out.
`admitted`, `streak` and `lapsed` observe.

The count of failures has a time to live too, which each failure begins anew
(`_shared_circuit_stats_ttl_seconds`, ten cooldowns or 300 s): failures further apart never
add up to the threshold, and a provider that only fails, asked seldom enough, is asked for
ever.  `FailingProviderIsLeftAlone` is about failures within that time; the streak it bounds
begins anew when the count expires (`CountExpires`).

| Run | Instance | What it shows |
| --- | --- | --- |
| `llm` | 2 tasks of one run with one prompt in 2 processes, 1 call allowed, 1 retry, threshold 2, 2 Redis failures, 1 refused cost row, 2 expiries; deadlock checked | `AdmittedWithinBudget`, `FailingProviderIsLeftAlone`, `StreakOpensCircuit` |

*Why these bounds.*  Two tasks race for one call, and when the budget's key expires or
Redis fails the second is admitted as well, so that both call and fail; two failures,
of one task or of both, reach the threshold.  Two Redis failures hit both processes.

## DataEnrichment

| Model | Code |
| --- | --- |
| `rec, prod, job` | committed statuses of records, product rows and jobs |
| `accepted` | what `create_data_enrichment_job` read |
| `seen, read, draft, flushed` | a job's session: what it loaded, set, and wrote without committing |
| `Select, Create` | the request, before and after its reads |
| `Start, Take, Enrich, Fail, RollBack, Finish` | `_run_job`, `_enrich_product` |
| `Die` | the process ends, or the last commit is refused |

Sessions are READ COMMITTED, do not flush by themselves and write a column only when its
value differs from the one loaded; rows written and not committed are locked, and the
database aborts one of two transactions that wait for each other.  Deleted records, the
computed fields and the prompt's payload are left out.

*Fairness.*  A request and a job's task go on, without an error or a death having to help
them.

| Run | Instance | What it shows |
| --- | --- | --- |
| `enrichment` | 2 jobs with the LLM over 2 records, 2 database errors, 1 process death | `PendingHasJob`, `AloneIsCommitted`, `JobsEnd` |

*Why these bounds.*  Two jobs over two records overlap on one, on both or not at all, and
can wait for each other's rows.  Three jobs over one record were run as well: both
invariants hold, and a record and its product can end with different statuses.

## ProductIntelligence

| Model | Code |
| --- | --- |
| `status, crawled, rows` | the candidates' runs, by `RunContract`, and whether one has stored a record |
| `job, cand, linked, matches, count` | the committed job, candidates, their run ids, matches, `match_count` |
| `draft, scored` | what the task's session holds and has not committed |
| `CreateJob, Discover` | the two requests |
| `Start, Find, CreateRun, Link, Poll, Timeout, Score, Settle` | `run_product_intelligence_job` up to the end of its searches |
| `BeginLastPass, LookAgain, LastLook, ScoreLate, Complete` | `_score_completed_candidates` |
| `Fail, FailScoring, Die` | the exceptions the session survives (of a search, a refused URL, a dispatch, a score), those it does not, and the end of the process |
| `Delete` | a user deletes a run at rest |

Search, scoring, the LLM's refinement and the review of a match are left out.

*Fairness.*  The task goes on without an error having to help it, and the clock reaches a
poll's deadline.  Nothing is assumed of the runs.

| Run | Instance | What it shows |
| --- | --- | --- |
| `intelligence` | 2 candidates, 1 error or death | `OneMatch`, `StatusTellsMatch`, `NothingLeftBehind`, `JobEnds` |

*Why these bounds.*  Candidates are worked off one after the other and meet only in the
last pass, where one that timed out is judged after the other; the error may come before,
between and after the commits of either.


## What the violated properties say

`OnlyInterruptedRunsFail` has a run.  The others are stated in their modules with what
they quote; TLC finds them violated on small instances (`KilledPendingHasNoTask` needs two
runs and two tasks), and the runs are kept for what holds.

| Property | What is documented | What happens |
| --- | --- | --- |
| `OnlyInterruptedRunsFail` (run `resume_fails_run`) | `crawl_service.py:428`: failed because "interrupted by backend restart or process termination" | A resume does not touch the heartbeat, and its own dispatch sweeps first: a run paused for over 120 s is failed by being resumed |
| `KilledPendingHasNoTask` | `crawl_service.py:416`: "interrupted before processing began" | A dispatch takes every PENDING row with a task id as interrupted, also one whose task is just about to commit RUNNING; the task goes on and overwrites KILLED |
| `PauseSeenAtCheckpoint` | `crawl_service.py:297`: "crawl will stop at the next checkpoint" | A task inside a URL writes its older summary and the request is gone |
| `KilledBeginsNoUrl` | `crawl_service.py:350`: "Run kill requested; local task cancelled" | A cancellation that lands in the closing of a browser context is swallowed (`browser_runtime.py:1097`): the task passes its next checkpoint, which reads only the control request, and crawls on |
| `NoOrphanForever` | `backend-architecture.md:177`: "does not stay orphaned forever" | A restart within 120 s of the last heartbeat finds the run fresh, and nothing sweeps later unless another run is dispatched |
| `DisconnectStaysLocal` | `INVARIANTS.md:156`: "URL-local failures", "may recycle that browser once" | A fetch whose page closed recycles the healthy browser under the other pages; one that waited for the lock closes the browser another has launched meanwhile |
| `NoDuplicateKey` | `backend-architecture.md:375`: re-entry stays idempotent "instead of failing the run on a duplicate-key insert" | Existing rows are looked up by the extracted URL and stored under its public form |
| `OneHitKeepsHttp` | `INVARIANTS.md:229`: "Host browser-first memory is for repeated hard blocks, not one noisy challenge hit" | The caller of the fetch notes the block the fetch has noted: one hit counts twice, which is the threshold |
| `OnlySpentBudgetRefuses` | the message "LLM call budget exceeded for crawl run ..." | With Redis off, which is the default, the reservation fails and every call of a run is refused with it |
| `CountedIsKept` | the comment "defensive job isolation" of `data_enrichment/service.py` | A database error at a later product rolls back the results of the earlier ones, which stay counted as enriched |
| `UsableFirstPageIsDelivered` | `backend-architecture.md:257`: stop reasons "remain diagnostic when the first rendered listing page is already usable" | When the second page is a challenge, the challenge is what is delivered |

Behaviours of the models that no property states.

*Runs and URLs.*  A request holding a copy from before the last commit turns COMPLETED
into KILLED, or through the revoke path into PAUSED; a fault before the first commit
leaves the run PENDING, since only RUNNING may become FAILED; an unchanged row of an
earlier pass is not written, so a healthy page crawled again counts as empty and as a
failure of the contract (`backend-architecture.md:379` says otherwise of records that are
not blocked); `completed_urls` counts attempts and exceeds `url_count` after a resume; a
stale pause copy takes counts back.

*Fetches.*  A hand-off is not paced (`backend-architecture.md:280` says attempts are); a
success over a browser does not clear the preference for browsers (`:267`); `http_only`
falls back to a browser after transport failures (`BUSINESS_LOGIC.md:58`); the result of
that fallback is not noted.

*Browsers.*  A cancelled wait for a permit leaves its queue count, a cancelled cookie
store its permit; a runtime evicted under a fetch is launched again by it and then known
to nobody; an eviction may close a runtime whose first fetch is still in `_ensure`;
recycling closes pages in use, also after a page that closed by itself in a healthy browser.
A cancellation of a capture's close in the clean-up leaves its workers and no summary; an
exception of the decoder other than `JSONDecodeError` keeps its reservation.

*Traversals.*  Cards that a page drops between the look that counts them and the read that
keeps them are counted and lost; links of a menu may tip the choice to a page with fewer
cards than the fragments; a navigation timeout in paginate loses the pages gathered before; clicks
and redirects are not checked against the origin; overlays muted before a forced click
that fails stay muted; a step without a new card appends the full page (against
`backend-architecture.md:252`); `load_more` and paginate do not look at `max_clicks` and
`max_pages`.

*Jobs and prompts.*  Failures further apart than the count's time to live never open the
circuit; the breaker of a process does not open again after its cooldown
until a success has closed it; the late delete of a success may close a circuit that later failures
have opened; a counter whose `EXPIRE` failed has no time to live; a refused cost row
rolls back the caller's session.  Three overlapping enrichment jobs can leave a record
and its product with different statuses.  A database error leaves a product intelligence
job "running" for good; a refused URL or a failing search fails the whole job;
`match_count` trails the matches.

## Proofs

`tlapm` checks every leaf.  Every invariant and action property of the passing runs is a
theorem; liveness stays with TLC.

| Module | Theorems |
| --- | --- |
| `RunLifecycle_proofs` | `TypeCorrect`, `RegistryCorrect`, `SoloOneTask`, `SoloRestIsRest`, `SoloRegistered`, `SoloTaskIdKept`, `SoloKilledIsFinal`, `SoloKeepsContract` |
| `UrlCrawl_proofs` | `ErrorsLeaveNothing`, `CompletionHasVerdicts`, `ChallengesSpareContract`, `DuplicatesAreNotCanonical`, `RowsAreCounted` |
| `Fetch_proofs` | `SlotsAreApart`, `BlocksHoldBack`, `FetchLeavesTrueMemory`, `BlockedProxyTriesAllEngines` |
| `BrowserPool_proofs` | `LocksAreMatched`, `CountsAreExact`, `PoolStaysBounded` |
| `Page_proofs` | `CountTallies`, `CaptureStaysWithin`, `OrderlyCloseIsComplete`, `CountedCardsAreKept`, `TargetComesThrough`, `PagesAreNew` |
| `LlmTask_proofs` | `BudgetHolds`, `CircuitFollowsStreak`, `ProviderIsLeftAlone` |
| `DataEnrichment_proofs` | `WaitingIsHeld`, `CountedAloneIsCommitted` |
| `ProductIntelligence_proofs` | `MatchedOnce`, `StatusTells`, `JobLeavesNothingBehind` |

`Fetch_proofs` and `Page_proofs` extend two components each, what a fetch does on the way
to a page and what is done in the page.  For that the specifications of `HostPacing` and
`Traversal` have names of their own (`PacingSpec`, `TraversalSpec`); their proofs share
nothing but the library.

*Assumptions.*  The named `ASSUME`s of the modules, which TLC evaluates in the runs:
limits are natural numbers, positive where the code needs them so; a null value is no
member of the set it stands beside; fetches, tasks, workers, responses and cards are
finitely many, where a theorem counts them; the protected interval is not shorter than the
plain one; `Canonical` maps a record URL to one and is idempotent; the requests of a
fetch have one of the four modes and at least one entry in their list of proxies.  Nothing
else is assumed of the data: any rows, policies, pages, yields and links.  The hypothesis
`Solo` is stated in the theorems that need it.

Each invariant below was an invariant of a run of TLC before it was proved.

**`TypeCorrect`, `RegistryCorrect`** (`RunLifecycle_proofs`): for any numbers of runs,
tasks, requests and URLs.  `TypeInv` adds to `TypeOK` what keeps a step from reading
outside its domain: a task or request at work has a run, a sweep's victim is a run, a
loaded URL index is within the list.  The registry claim follows by one case per
action: an entry is made by `Launch` together with the task, and each end of a task
clears its own entry only, which is what `IF @ = w` in the callback is for.

**`SoloOneTask`, `SoloRestIsRest`, `SoloRegistered`, `SoloTaskIdKept`,
`SoloKilledIsFinal`** (`RunLifecycle_proofs`): under the hypothesis `Solo`, one run and one
request slot; any numbers of task slots, URLs, requests, crashes, restarts and faults.
That no two tasks work is not inductive: one must know that a dispatch reaches `Launch`
only when nobody works, hence that a resume acts on a run whose task has paused it and
left, hence that the run of a task at work is active.  `SoloInv` says so in parts:
`SoloTasks` (a task at work is the registered one, its row active and with a task id, its
copy with a task id and no kill request), `SoloRows` and `SoloCopies` (a kill request
stands only in a killed row or copy), `SoloControl` (a request that has loaded its run: a
resume finds nobody at work, a pause or kill finds nobody or holds a task id, and the run
is not killed), `SoloDispatch` (from the sweep to the launch nobody works, and the copies
agree with the row in the status), `SoloDown` (nothing runs while the backend is down).
Since the registry names one task per run, two tasks at work are the same one.
All of it holds only until a kill is swallowed.  From then on `Aftermath` holds: the run is
killed for good, no request is under way and none will be begun, and the only task at work is
the survivor, which has read the killed row whenever it comes to write a status.
`LifeInv` is the one or the other; only a kill of a task in a URL leads from the first to the second (`KillLeaves`).
`KilledIsFinal` follows because whoever can commit while the run is killed holds a copy
that says killed too, and so does not write the status column, or writes KILLED.
`SoloTaskIdKept` is proved and not among the runs.

**`SoloKeepsContract`** (`RunLifecycle_proofs`): under the same hypothesis `RunLifecycle`
implements `RunContract`.  `ContractInv` adds `CopiesTell` to `SoloInv`: no copy is ahead
of its row; a task's copy is pending or running, and running only of a running run; the
run of a request that was accepted has not fallen back since; nothing ever is
`proxy_exhausted`.  There is one lemma for each way in which a step maps (`Keeps`,
`Creates`, `TakesUp`, `Begins`, `Resumes`, `Rests`, `Overrules`), and the step theorem
names one of them for each action.  A swallowed kill maps to `Outlive`
(`SwallowedIsOutlive`), and what its survivor does to nothing, until it ends
(`AftermathKeepsContract`).

**`ErrorsLeaveNothing`** (`UrlCrawl_proofs`): for any URLs, pages, records and pauses.
`SessionInv`: the session's rows and contract differ from the committed ones only between
the first record stored and the end of the URL (`Uncommitted`), and the next commit is that
of a result that is no error, or comes after the rollback.

**`CompletionHasVerdicts`, `ChallengesSpareContract`** (`UrlCrawl_proofs`): `PassInv`, in a
pass over the list there is a verdict for each URL before the one in hand, unless
`max_records` has ended it, and there are never more verdicts than URLs, which is what
makes the list that a resume takes over usable; `GuardInv`, a detail page beyond the guard
is clear or blocked, and the session holds another contract than the committed one only at
`result`, after a clear page.

**`DuplicatesAreNotCanonical`, `RowsAreCounted`** (`UrlCrawl_proofs`): the loop over a
page's records is in the model a step per record, so no induction over the page is needed.
`SeenInv`: whatever row the session has of a URL of this page is among those looked up or
inserted, so only a URL that its public form differs from can collide.  `CountInv`: the
session has at most as many rows more than the committed ones as the count it still owes
(`Owed`), and the rows are no more than `record_count` until an outdated summary has been
written back.

**`SlotsAreApart`, `BlocksHoldBack`** (`Fetch_proofs`): for any hosts, fetches,
intervals, ttl and table size.  `PacingInv`: a host's entry is not before the end of
what was last given out or imposed, unless the full table or a reset dropped it early; an
entry that was pruned had passed.

**`FetchLeavesTrueMemory`, `BlockedProxyTriesAllEngines`** (`Fetch_proofs`): for any
proxies, numbers of attempts, thresholds, rows, answers and siblings.  `FetchInv` has four
parts.  `FetchTypes`.  `Stations`: what is known at each step, and where a load returns to.
`NoteIsFresh`: without siblings the note of a result was computed from the row as it is,
so the row becomes what the note makes of it (`Noted`) whether or not unchanged columns are
written.  `BlocksRemembered`: once a confirmed block of the lane has been noted, the
preference for a browser is in everything that a decision may still come from
(`PreferenceHeld`): the row, the cache, a sibling's policy read but not yet put there, the
fetch's own load, a note under way; hence the reload after the note extends the engines.
It must speak of all of these at once, since each is filled from another.

**`LocksAreMatched`** (`BrowserPool_proofs`): for any fetches, lanes, runtimes, limits,
cancellations and deaths.  `LockInv` is `Placed` (the types, and what a fetch at each
place refers to), `RuntimeLocks` and `PoolLock`; a runtime nobody refers to has a free
lock, which is what lets it be used anew.  `LaunchInv` adds that whoever launches finds no
browser: only the holder of the lock brings one up.

**`CountsAreExact`, `PoolStaysBounded`** (`BrowserPool_proofs`): for finitely many fetches.
`CountInv`: each count of a runtime is the cardinality of a set of fetches (`ActiveAt`,
`QueuedAt`, `HoldingAt`), and every action moves one fetch, so that it is enough that the
step changes each count by what that fetch's moving in or out makes (`Balanced`); `Fresh`
keeps a fetch that was evicted from coming back with a permit.  `SizeInv`: no runtime is in
two lanes; while an eviction goes on there will be room once its victims are gone (`Room`),
for a pool at its limit has either an idle runtime or as many fetches as entries.  Both hold
until the first cancellation, as the properties say.

**`CountTallies`, `CaptureStaysWithin`, `OrderlyCloseIsComplete`** (`Page_proofs`): for any
workers, responses and limits.  `TallyInv` is the count with `CrewInv`, what workers and
`close` are at in each phase; `BudgetInv` says that whoever reads has reserved (`Reading` is
no larger than `pending`) and that what is stored and reserved is within the limits.
`OrderInv`, of a close neither timed out nor cancelled: behind a sentinel are only
sentinels, a worker ends only when nothing else is left, and a response that is queued or
read is where its fate says.

**`CountedCardsAreKept`, `TargetComesThrough`, `PagesAreNew`** (`Page_proofs`): for any
listing, links, limits and thresholds and any changes of the page, cards that go included.
`TravInv` says which count is covered by what: between rounds by the cards accounted for,
kept or excused; from a look to the append that follows it by the cards `looked` at
(`KeptInPlace` for scroll and "load more", `KeptOfPages` for turned pages, whose counts add
up), of which the append keeps or excuses each one (`Appended`).  A stop for the target tells
that the count has reached it (`StopTells`), and after progress the fragments are then what
is delivered, since they have at least as many links (`FragmentsDelivered`).  What was
gathered was visited and a turn heads elsewhere (`PagesVisited`).

**`BudgetHolds`, `CircuitFollowsStreak`, `ProviderIsLeftAlone`** (`LlmTask_proofs`): for
any tasks, runs, prompts, processes and limits.  `BudgetInv`: what was admitted is within
the count and the limit; both begin anew when the counter expires.
`CircuitInv`: the count is at its threshold only with the open key.  `StreakInv`: a streak of useless calls is no longer
than the calls under way and the failures counted while the key is absent, and never
longer than the threshold and the tasks allow; it begins anew when the count expires, which
leaves both at zero.

**`WaitingIsHeld`, `CountedAloneIsCommitted`** (`DataEnrichment_proofs`): for any jobs over
any records.  `PendingInv`: the product of a pending record names a job that still has the
record before it (`PendingIsOwned`), and a session's drafts are of records it has taken
(`Accounts`).  `AloneInv`: of a record that was never contested one job at a time holds
anything, so what that job read of it is what is committed (`HeldIsCurrent`) and the commit
writes the whole of what it drafted.

**`MatchedOnce`, `StatusTells`, `JobLeavesNothingBehind`** (`ProductIntelligence_proofs`):
for any candidates.  `MatchInv` extends the agreement of matches and statuses to the
session's drafts (`DraftTells`) and to the candidate in hand (`HandTells`).  `JudgeInv`: only
the candidate being polled is queued, and one whose run was at rest when the last pass
began is judged or still to be looked at.  Of the runs only `RunContract` is used: the proof
composes the job with whatever `RunLifecycle` is shown to do.

*What the proofs corrected.*  The arms of `ContractOutcome` overlapped for a blocked page
that yields records; TLC takes the first of them, the logic any.  `MemoryFollowsResult` and
`ConfirmedBlockTriesEveryEngine` excused only a sibling's good page over HTTP, while a page
without content is noted as a success too (`SiblingNotes`).  The loop over a page's records
was a fold and is now a step per record, as the code runs it.

**Only model-checked.**  All liveness: `TasksEnd`, `DispatchedRunsMoveOn`, `FetchesEnd`,
`FetchEnds`, `CloseEnds`, `JobsEnd` and `JobEnds`; fairness and `ENABLED` are out of the
prover's reach.  The violated property, for which TLC has the trace.  The `TypeOK` of the
modules other than `RunLifecycle` holds under their configurations and is not listed among
the runs' properties; the proofs carry the types they need in their invariants.

## Plan

Done: every module of the table above, with the refinement of `RunContract` and the
theorems.  Left, in this order:

1. `CeleryDispatch`: redelivery of a late-acknowledged task against the rows of
   `RunLifecycle`.
2. Cookie memory, with the part of `browser_fetch` that decides what is stored; the
   shutdown of the pool in `BrowserPool`.
3. `VerdictFollowsRecords` in `UrlCrawl`; deletion of runs and field commits in
   `RunLifecycle`; three enrichment jobs at once.
4. The log stream, selector memory and self heal.
5. Proofs without the hypothesis `Solo`: which of the lifecycle's claims hold for several
   runs when no sweep interferes.
