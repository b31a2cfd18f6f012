---------------------------- MODULE RunLifecycle ----------------------------
(***************************************************************************)
(* The life of crawl runs in the default deployment (Celery dispatch off): *)
(* one backend process whose API handlers and crawl tasks share an event   *)
(* loop and a READ COMMITTED database.  Every session keeps its own copy   *)
(* of a run row (expire_on_commit=False) and writes back dirty columns:    *)
(* the status column when it changed, the result_summary JSON, which holds *)
(* the control request and the task id, as a whole.  An action is what     *)
(* happens between two awaits at which another session's commit may land.  *)
(***************************************************************************)
EXTENDS Naturals, RunStatus

CONSTANTS
  Runs,         \* crawl runs
  Workers,      \* slots for local crawl tasks
  Handlers,     \* slots for concurrent API requests
  NoRun, NoWorker,
  NumUrls,      \* URLs a run resolves to
  SlowUrls,     \* TRUE: a run's url_timeout_seconds exceeds the stall threshold
  MaxRequests, MaxCrashes, MaxFaults   \* bounds of the environment

ASSUME LifecycleAssumption ==
  /\ NoRun \notin Runs
  /\ NoWorker \notin Workers
  /\ NumUrls \in Nat \ {0}
  /\ SlowUrls \in BOOLEAN
  /\ MaxRequests \in Nat /\ MaxCrashes \in Nat /\ MaxFaults \in Nat

VARIABLES
  db,         \* committed crawl_runs rows
  registry,   \* _local_run_tasks: the task a run's row is believed to have
  wpc, wrun, wrow, widx,          \* crawl tasks: step, run, copied row, URL index
  hpc, hop, hrun, hrow,           \* requests: step, operation, run, copied row
  htodo, hvictim,                 \* recovery sweep: rows left, row being reclaimed
  up, requests, crashes, faults,  \* environment
  asked,      \* observer: a pause was acknowledged and not yet resumed from
  survivors   \* observer: tasks that went on because their cancellation was swallowed

envVars     == <<up, requests, crashes, faults>>
workerVars  == <<wpc, wrun, wrow, widx, survivors>>
handlerVars == <<hpc, hop, hrun, hrow, htodo, hvictim>>
vars == <<db, registry, workerVars, handlerVars, envVars, asked>>

-----------------------------------------------------------------------------
(* Rows *)

Row == [status: CrawlStatus \cup {"absent"}, ctrl: ControlRequest,
        task: BOOLEAN, beat: {"fresh", "stale"}]

Absent == [status |-> "absent", ctrl |-> "none", task |-> FALSE, beat |-> "fresh"]

(* A row the recovery sweep selected: its status then, the copy loaded since. *)
Victim == [run: Runs \cup {NoRun}, status: {"none", "pending", "running"}, row: Row]

NoVictim == [run |-> NoRun, status |-> "none", row |-> Absent]

(* What a session's flush and commit make of the committed row cur, when the
   session loaded old and holds new: the status column is written only when
   dirty, the summary is written whole. *)
Flush(cur, old, new) ==
  [cur EXCEPT !.status = IF new.status = old.status THEN @ ELSE new.status,
              !.ctrl = new.ctrl, !.task = new.task]

Beaten(row) == [row EXCEPT !.beat = "fresh"]


(* Faulty variant: a PENDING row is judged by its age alone. *)
ShouldRecover_AgeOnly(row) == row.beat = "stale"

(* _should_recover_stale_run, over the columns the sweep selects. *)
ShouldRecover(row) ==
  \/ row.status = "pending" /\ row.task
  \/ row.beat = "stale"

-----------------------------------------------------------------------------
(* Crawl tasks: _run_with_local_session around process_run *)

IdleWorker(w) ==
  /\ wpc' = [wpc EXCEPT ![w] = "idle"]
  /\ wrun' = [wrun EXCEPT ![w] = NoRun]
  /\ wrow' = [wrow EXCEPT ![w] = Absent]
  /\ widx' = [widx EXCEPT ![w] = 0]
  /\ survivors' = survivors \ {w}

Goto(w, pc) == wpc' = [wpc EXCEPT ![w] = pc]
LoadRow(w)  == wrow' = [wrow EXCEPT ![w] = db[wrun[w]]]

(* The task's session commits its copy, turned into new. *)
CommitRow(w, new) ==
  /\ db' = [db EXCEPT ![wrun[w]] = Flush(@, wrow[w], new)]
  /\ wrow' = [wrow EXCEPT ![w] = new]

(* The same with _touch_run_heartbeat. *)
CommitBeat(w, new) ==
  /\ db' = [db EXCEPT ![wrun[w]] = Beaten(Flush(@, wrow[w], new))]
  /\ wrow' = [wrow EXCEPT ![w] = Beaten(new)]

WorkerOnly == UNCHANGED <<registry, handlerVars, envVars, asked, survivors>>

Load(w) ==
  /\ wpc[w] = "start"
  /\ LoadRow(w)
  /\ Goto(w, IF db[wrun[w]].status \in TerminalStatuses THEN "ending" ELSE "loaded")
  /\ UNCHANGED <<db, wrun, widx>> /\ WorkerOnly

Reload(w) ==
  /\ wpc[w] = "loaded"
  /\ LoadRow(w)
  /\ Goto(w, IF db[wrun[w]].status = "paused" THEN "ending" ELSE "opening")
  /\ UNCHANGED <<db, wrun, widx>> /\ WorkerOnly

(* URLs resolved, PENDING becomes RUNNING, first progress patch committed. *)
Open(w) ==
  /\ wpc[w] = "opening"
  /\ CommitBeat(w, [wrow[w] EXCEPT !.status = IF @ = "pending" THEN "running" ELSE @])
  /\ Goto(w, "top")
  /\ widx' = [widx EXCEPT ![w] = 1]
  /\ UNCHANGED wrun /\ WorkerOnly

Refresh(w) ==
  /\ wpc[w] = "top" /\ widx[w] <= NumUrls
  /\ LoadRow(w)
  /\ Goto(w, "check")
  /\ UNCHANGED <<db, wrun, widx>> /\ WorkerOnly

(* A control request read at the checkpoint moves the run and ends the task;
   where the table forbids the move, ValueError leads to mark_run_failed. *)
ObeyControl(w) ==
  LET target == IF wrow[w].ctrl = "pause" THEN "paused" ELSE "killed" IN
  /\ wpc[w] = "check" /\ wrow[w].ctrl # "none"
  /\ IF CanTransition(wrow[w].status, target)
     THEN /\ CommitBeat(w, [wrow[w] EXCEPT !.status = target, !.ctrl = "none"])
          /\ Goto(w, "ending")
     ELSE /\ Goto(w, "failing")
          /\ UNCHANGED <<db, wrow>>
  /\ UNCHANGED <<wrun, widx>> /\ WorkerOnly

BeginUrl(w) ==
  /\ wpc[w] = "check" /\ wrow[w].ctrl = "none"
  /\ CommitBeat(w, wrow[w])
  /\ Goto(w, "url")
  /\ UNCHANGED <<wrun, widx>> /\ WorkerOnly

(* _enter_stage inside process_single_url: the whole summary again. *)
EnterStage(w) ==
  /\ wpc[w] = "url"
  /\ CommitRow(w, wrow[w])
  /\ UNCHANGED <<wpc, wrun, widx>> /\ WorkerOnly


(* Faulty variants: a stop that jumps one past the end; a loop that does not
   advance. *)
RecordUrl_Overshoots(w) ==
  /\ CommitBeat(w, wrow[w])
  /\ Goto(w, "top")
  /\ \E i \in {widx[w] + 1, NumUrls + 2} : widx' = [widx EXCEPT ![w] = i]
  /\ UNCHANGED wrun /\ WorkerOnly

RecordUrl_Stays(w) ==
  /\ CommitBeat(w, wrow[w])
  /\ Goto(w, "top")
  /\ UNCHANGED <<wrun, widx>> /\ WorkerOnly

(* The URL's result is counted and the loop advances, or stops for good when
   max_records is reached. *)
RecordUrl(w) ==
  /\ CommitBeat(w, wrow[w])
  /\ Goto(w, "top")
  /\ \E i \in {widx[w] + 1, NumUrls + 1} : widx' = [widx EXCEPT ![w] = i]
  /\ UNCHANGED wrun /\ WorkerOnly

UrlDone(w) == wpc[w] = "url" /\ RecordUrl(w)

(* Timeout or exception: _recover_url_failure rolls back and reloads the row. *)
UrlFails(w) ==
  /\ wpc[w] = "url"
  /\ LoadRow(w)
  /\ Goto(w, "record")
  /\ UNCHANGED <<db, wrun, widx>> /\ WorkerOnly

UrlFailed(w) == wpc[w] = "record" /\ RecordUrl(w)

Finish(w) ==
  /\ wpc[w] = "top" /\ widx[w] > NumUrls
  /\ LoadRow(w)
  /\ Goto(w, IF db[wrun[w]].status \in TerminalStatuses THEN "ending" ELSE "closing")
  /\ UNCHANGED <<db, wrun, widx>> /\ WorkerOnly

Complete(w) ==
  /\ wpc[w] = "closing"
  /\ IF CanTransition(wrow[w].status, "completed")
     THEN /\ CommitBeat(w, [wrow[w] EXCEPT !.status = "completed"])
          /\ Goto(w, "ending")
     ELSE /\ Goto(w, "failing")
          /\ UNCHANGED <<db, wrow>>
  /\ UNCHANGED <<wrun, widx>> /\ WorkerOnly

(* A database error outside the URL's own try block, or a URL list that
   resolves to nothing. *)
RunFault(w) ==
  /\ faults < MaxFaults
  /\ wpc[w] \in {"start", "loaded", "opening", "top", "check", "url", "record", "closing"}
  /\ Goto(w, "failing")
  /\ faults' = faults + 1
  /\ UNCHANGED <<db, registry, wrun, wrow, widx, survivors, handlerVars, up, requests, crashes, asked>>

(* mark_run_failed: rollback, reload, then persist_failure_state. *)
MarkLoad(w) ==
  /\ wpc[w] \in {"failing", "refailing"}
  /\ LoadRow(w)
  /\ Goto(w, IF wpc[w] = "failing" THEN "marking" ELSE "remarking")
  /\ UNCHANGED <<db, wrun, widx>> /\ WorkerOnly

(* Only a RUNNING run can become FAILED.  The ValueError of any other move
   escapes process_run; _run_with_local_session tries once more, then the task
   ends with the exception. *)
Mark(w) ==
  LET first == wpc[w] = "marking" IN
  /\ wpc[w] \in {"marking", "remarking"}
  /\ IF wrow[w].status \in TerminalStatuses \/ CanTransition(wrow[w].status, "failed")
     THEN /\ CommitRow(w, [wrow[w] EXCEPT
                 !.status = IF @ \in TerminalStatuses THEN @ ELSE "failed"])
          /\ Goto(w, IF first THEN "ending" ELSE "raised")
     ELSE /\ Goto(w, IF first THEN "refailing" ELSE "raised")
          /\ UNCHANGED <<db, wrow>>
  /\ UNCHANGED <<wrun, widx>> /\ WorkerOnly


(* Faulty variant: the callback clears whatever task the registry names. *)
Return_ClearsAny(w) ==
  /\ wpc[w] \in {"ending", "raised"}
  /\ registry' = [registry EXCEPT ![wrun[w]] = NoWorker]
  /\ IdleWorker(w)
  /\ UNCHANGED <<db, handlerVars, envVars, asked>>

(* Faulty variant: no callback is attached to the task. *)
Return_NoCallback(w) ==
  /\ wpc[w] \in {"ending", "raised"}
  /\ IdleWorker(w)
  /\ UNCHANGED <<db, registry, handlerVars, envVars, asked>>

(* The task is done; its callback forgets it. *)
Return(w) ==
  /\ wpc[w] \in {"ending", "raised"}
  /\ registry' = [registry EXCEPT ![wrun[w]] = IF @ = w THEN NoWorker ELSE @]
  /\ IdleWorker(w)
  /\ UNCHANGED <<db, handlerVars, envVars, asked>>

WorkerStep(w) ==
  \/ Load(w) \/ Reload(w) \/ Open(w)
  \/ Refresh(w) \/ ObeyControl(w) \/ BeginUrl(w) \/ EnterStage(w)
  \/ UrlDone(w) \/ UrlFails(w) \/ UrlFailed(w) \/ Finish(w) \/ Complete(w)
  \/ RunFault(w) \/ MarkLoad(w) \/ Mark(w) \/ Return(w)

-----------------------------------------------------------------------------
(* Requests.  One that the code rejects changes nothing, so it is not begun. *)

Booting == \E h \in Handlers : hop[h] = "boot"

IdleHandler(h) ==
  /\ hpc' = [hpc EXCEPT ![h] = "idle"]
  /\ hop' = [hop EXCEPT ![h] = "none"]
  /\ hrun' = [hrun EXCEPT ![h] = NoRun]
  /\ hrow' = [hrow EXCEPT ![h] = Absent]
  /\ htodo' = [htodo EXCEPT ![h] = {}]
  /\ hvictim' = [hvictim EXCEPT ![h] = NoVictim]

Accepts(op, row) ==
  CASE op = "pause"  -> row.status = "running"
    [] op = "resume" -> row.status = "paused"
    [] op = "kill"   -> row.status \in ActiveStatuses

(* The request loads its run. *)
Begin(h, op, r) ==
  /\ up /\ ~Booting /\ hpc[h] = "idle" /\ requests < MaxRequests
  /\ Accepts(op, db[r])
  /\ hpc' = [hpc EXCEPT ![h] = "loaded"]
  /\ hop' = [hop EXCEPT ![h] = op]
  /\ hrun' = [hrun EXCEPT ![h] = r]
  /\ hrow' = [hrow EXCEPT ![h] = db[r]]
  /\ requests' = requests + 1
  /\ UNCHANGED <<db, registry, workerVars, htodo, hvictim, up, crashes, faults, asked>>

(* create_crawl_run commits the PENDING row, dispatch_run follows. *)
Create(h, r) ==
  /\ up /\ ~Booting /\ hpc[h] = "idle" /\ requests < MaxRequests
  /\ db[r].status = "absent"
  /\ db' = [db EXCEPT ![r] = [Absent EXCEPT !.status = "pending"]]
  /\ hpc' = [hpc EXCEPT ![h] = "sweep"]
  /\ hop' = [hop EXCEPT ![h] = "create"]
  /\ hrun' = [hrun EXCEPT ![h] = r]
  /\ requests' = requests + 1
  /\ UNCHANGED <<registry, workerVars, hrow, htodo, hvictim, up, crashes, faults, asked>>

(* The handler's session commits its copy of its own run, turned into new. *)
HandlerCommit(h, new) == db' = [db EXCEPT ![hrun[h]] = Flush(@, hrow[h], new)]


(* Faulty variant: the registry has lost its reference to the task. *)
HasTask_Lost(r) == FALSE

(* _get_live_local_run_task: registered and not done. *)
HasTask(r) == registry[r] # NoWorker /\ wpc[registry[r]] # "idle"

PauseLive(h) ==
  /\ hpc[h] = "loaded" /\ hop[h] = "pause" /\ HasTask(hrun[h])
  /\ HandlerCommit(h, [hrow[h] EXCEPT !.ctrl = "pause"])
  /\ asked' = [asked EXCEPT ![hrun[h]] = TRUE]
  /\ IdleHandler(h)
  /\ UNCHANGED <<registry, workerVars, envVars>>

(* No live local task: the Celery revoke is issued and the run is PAUSED. *)
PauseRevoke(h) ==
  /\ hpc[h] = "loaded" /\ hop[h] = "pause" /\ ~HasTask(hrun[h]) /\ hrow[h].task
  /\ HandlerCommit(h, [hrow[h] EXCEPT !.status = "paused", !.task = FALSE])
  /\ IdleHandler(h)
  /\ UNCHANGED <<registry, workerVars, envVars, asked>>


(* Faulty variant: the task is not cancelled. *)
KillLive_NoCancel(h) ==
  /\ hpc[h] = "loaded" /\ hop[h] = "kill" /\ HasTask(hrun[h])
  /\ HandlerCommit(h, [hrow[h] EXCEPT !.status = "killed", !.ctrl = "kill", !.task = FALSE])
  /\ registry' = [registry EXCEPT ![hrun[h]] = NoWorker]
  /\ IdleHandler(h)
  /\ UNCHANGED <<workerVars, envVars, asked>>

(* task.cancel() raises CancelledError where the task waits.  It unwinds the
   task, unless the task is in a URL whose browser context is just being closed:
   _close_browser_context_safely swallows it, and the task goes on. *)
Cancel(w) ==
  \/ Goto(w, "ending") /\ UNCHANGED survivors
  \/ wpc[w] = "url" /\ survivors' = survivors \cup {w} /\ UNCHANGED wpc

(* The local task is forgotten and cancelled, the run is marked KILLED. *)
KillLive(h) ==
  /\ hpc[h] = "loaded" /\ hop[h] = "kill" /\ HasTask(hrun[h])
  /\ HandlerCommit(h, [hrow[h] EXCEPT !.status = "killed", !.ctrl = "kill", !.task = FALSE])
  /\ registry' = [registry EXCEPT ![hrun[h]] = NoWorker]
  /\ Cancel(registry[hrun[h]])
  /\ IdleHandler(h)
  /\ UNCHANGED <<wrun, wrow, widx, envVars, asked>>

KillRevoke(h) ==
  /\ hpc[h] = "loaded" /\ hop[h] = "kill" /\ ~HasTask(hrun[h])
  /\ HandlerCommit(h, [hrow[h] EXCEPT !.status = "killed", !.task = FALSE])
  /\ IdleHandler(h)
  /\ UNCHANGED <<registry, workerVars, envVars, asked>>

(* No task id to pause by, or the revoke raises (broker unreachable): the
   request fails and its session is rolled back. *)
RequestFails(h) ==
  /\ hpc[h] = "loaded" /\ hop[h] \in {"pause", "kill"} /\ ~HasTask(hrun[h])
  /\ hrow[h].task \/ hop[h] = "pause"
  /\ IdleHandler(h)
  /\ UNCHANGED <<db, registry, workerVars, envVars, asked>>

Resume(h) ==
  /\ hpc[h] = "loaded" /\ hop[h] = "resume"
  /\ HandlerCommit(h, [hrow[h] EXCEPT !.status = "running", !.ctrl = "none", !.task = FALSE])
  /\ hpc' = [hpc EXCEPT ![h] = "sweep"]
  /\ asked' = [asked EXCEPT ![hrun[h]] = FALSE]
  /\ UNCHANGED <<registry, workerVars, hop, hrun, hrow, htodo, hvictim, envVars>>

-----------------------------------------------------------------------------
(* _dispatch_run_locally: recover_stale_local_runs, then stamp and launch *)


(* The request's run is refreshed and the active rows are selected; each row
   is remembered with the status it was selected with. *)
Sweep(h) ==
  /\ hpc[h] = "sweep"
  /\ hrow' = [hrow EXCEPT ![h] = IF hrun[h] = NoRun THEN Absent ELSE db[hrun[h]]]
  /\ htodo' = [htodo EXCEPT ![h] =
        {t \in Runs \X {"pending", "running"} :
            db[t[1]].status = t[2] /\ ShouldRecover(db[t[1]])}]
  /\ hpc' = [hpc EXCEPT ![h] = "sweeping"]
  /\ UNCHANGED <<db, registry, workerVars, hop, hrun, hvictim, envVars, asked>>

(* The next selected row: its task is forgotten (not cancelled) and the row is
   loaded, from the identity map when it is the request's own run. *)
PickVictim(h) ==
  /\ hpc[h] = "sweeping"
  /\ \E t \in htodo[h] :
       /\ registry' = [registry EXCEPT ![t[1]] = NoWorker]
       /\ hvictim' = [hvictim EXCEPT ![h] =
            [run |-> t[1], status |-> t[2],
             row |-> IF t[1] = hrun[h] THEN hrow[h] ELSE db[t[1]]]]
       /\ htodo' = [htodo EXCEPT ![h] = @ \ {t}]
  /\ hpc' = [hpc EXCEPT ![h] = "victim"]
  /\ UNCHANGED <<db, workerVars, hop, hrun, hrow, envVars, asked>>


(* What _recover_stale_local_run makes of a loaded row: a terminal row loses its
   task id, a row that left the selected status is skipped. *)
Reclaimed(v) ==
  CASE v.row.status \in TerminalStatuses -> [v.row EXCEPT !.task = FALSE]
    [] v.row.status = v.status ->
         [v.row EXCEPT !.status = IF v.status = "pending" THEN "killed" ELSE "failed",
                       !.task = FALSE]
    [] OTHER -> v.row

Reclaim(h) ==
  LET v == hvictim[h]  new == Reclaimed(v) IN
  /\ hpc[h] = "victim"
  /\ db' = IF new = v.row THEN db ELSE [db EXCEPT ![v.run] = Flush(@, v.row, new)]
  /\ hrow' = IF v.run = hrun[h] THEN [hrow EXCEPT ![h] = new] ELSE hrow
  /\ hvictim' = [hvictim EXCEPT ![h] = NoVictim]
  /\ hpc' = [hpc EXCEPT ![h] = "sweeping"]
  /\ UNCHANGED <<registry, workerVars, hop, hrun, htodo, envVars, asked>>


(* The sweep is over.  The startup sweep ends here; a request stamps a task id
   on its run, or is refused when its own copy is no longer dispatchable. *)
Stamp(h) ==
  /\ hpc[h] = "sweeping" /\ htodo[h] = {} /\ hop[h] # "boot"
  /\ hrow[h].status \in {"pending", "running"}
  /\ HandlerCommit(h, [hrow[h] EXCEPT !.task = TRUE])
  /\ hpc' = [hpc EXCEPT ![h] = "launch"]
  /\ UNCHANGED <<registry, workerVars, hop, hrun, hrow, htodo, hvictim, envVars, asked>>

SweepOver(h) ==
  /\ hpc[h] = "sweeping" /\ htodo[h] = {}
  /\ hop[h] = "boot" \/ hrow[h].status \notin {"pending", "running"}
  /\ IdleHandler(h)
  /\ UNCHANGED <<db, registry, workerVars, envVars, asked>>

(* _track_local_run_task. *)
Launch(h) ==
  /\ hpc[h] = "launch"
  /\ \E w \in Workers :
       /\ wpc[w] = "idle"
       /\ registry' = [registry EXCEPT ![hrun[h]] = w]
       /\ Goto(w, "start")
       /\ wrun' = [wrun EXCEPT ![w] = hrun[h]]
  /\ IdleHandler(h)
  /\ UNCHANGED <<db, wrow, widx, survivors, envVars, asked>>

HandlerStep(h) ==
  \/ PauseLive(h) \/ PauseRevoke(h) \/ KillLive(h) \/ KillRevoke(h)
  \/ RequestFails(h) \/ Resume(h)
  \/ Sweep(h) \/ PickVictim(h) \/ Reclaim(h) \/ Stamp(h) \/ SweepOver(h) \/ Launch(h)

-----------------------------------------------------------------------------
(* The environment *)

Live(w) == wpc[w] # "idle"

(* The stall threshold passes since the run's last heartbeat.  Everything but
   a URL whose timeout exceeds the threshold is quicker than that. *)
Age(r) ==
  /\ db[r].status \in ActiveStatuses /\ db[r].beat = "fresh"
  /\ \A h \in Handlers : hpc[h] = "idle"
  /\ \A w \in Workers : wrun[w] = r => SlowUrls /\ wpc[w] = "url"
  /\ db' = [db EXCEPT ![r].beat = "stale"]
  /\ UNCHANGED <<registry, workerVars, handlerVars, envVars, asked>>

Crash ==
  /\ up /\ crashes < MaxCrashes
  /\ up' = FALSE
  /\ crashes' = crashes + 1
  /\ registry' = [r \in Runs |-> NoWorker]
  /\ asked' = [r \in Runs |-> FALSE]
  /\ wpc' = [w \in Workers |-> "idle"]
  /\ wrun' = [w \in Workers |-> NoRun]
  /\ wrow' = [w \in Workers |-> Absent]
  /\ widx' = [w \in Workers |-> 0]
  /\ survivors' = {}
  /\ hpc' = [h \in Handlers |-> "idle"]
  /\ hop' = [h \in Handlers |-> "none"]
  /\ hrun' = [h \in Handlers |-> NoRun]
  /\ hrow' = [h \in Handlers |-> Absent]
  /\ htodo' = [h \in Handlers |-> {}]
  /\ hvictim' = [h \in Handlers |-> NoVictim]
  /\ UNCHANGED <<db, requests, faults>>

(* The lifespan hook sweeps before any request is served. *)
Boot(h) ==
  /\ ~up
  /\ up' = TRUE
  /\ hpc' = [hpc EXCEPT ![h] = "sweep"]
  /\ hop' = [hop EXCEPT ![h] = "boot"]
  /\ UNCHANGED <<db, registry, workerVars, hrun, hrow, htodo, hvictim,
                 requests, crashes, faults, asked>>

Init ==
  /\ db = [r \in Runs |-> Absent]
  /\ registry = [r \in Runs |-> NoWorker]
  /\ wpc = [w \in Workers |-> "idle"]
  /\ wrun = [w \in Workers |-> NoRun]
  /\ wrow = [w \in Workers |-> Absent]
  /\ widx = [w \in Workers |-> 0]
  /\ hpc = [h \in Handlers |-> "idle"]
  /\ hop = [h \in Handlers |-> "none"]
  /\ hrun = [h \in Handlers |-> NoRun]
  /\ hrow = [h \in Handlers |-> Absent]
  /\ htodo = [h \in Handlers |-> {}]
  /\ hvictim = [h \in Handlers |-> NoVictim]
  /\ up = TRUE /\ requests = 0 /\ crashes = 0 /\ faults = 0
  /\ asked = [r \in Runs |-> FALSE]
  /\ survivors = {}

Next ==
  \/ \E w \in Workers : WorkerStep(w)
  \/ \E h \in Handlers : HandlerStep(h) \/ Boot(h)
  \/ \E h \in Handlers, r \in Runs :
        Create(h, r) \/ \E op \in {"pause", "resume", "kill"} : Begin(h, op, r)
  \/ \E r \in Runs : Age(r)
  \/ Crash

Spec == Init /\ [][Next]_vars

(* The event loop runs every ready coroutine, wait_for bounds a URL, and the
   supervisor restarts the backend.  EnterStage alone is no progress: a URL's
   end is fair by itself.  Requests, crashes, faults and time owe nothing. *)
Progress(w) ==
  \/ Load(w) \/ Reload(w) \/ Open(w) \/ Refresh(w) \/ ObeyControl(w)
  \/ BeginUrl(w) \/ UrlDone(w) \/ UrlFails(w) \/ UrlFailed(w) \/ Finish(w)
  \/ Complete(w) \/ MarkLoad(w) \/ Mark(w) \/ Return(w)

Fairness ==
  /\ \A w \in Workers : WF_vars(Progress(w))
  /\ \A h \in Handlers : WF_vars(HandlerStep(h))
  /\ WF_vars(\E h \in Handlers : Boot(h))

FairSpec == Spec /\ Fairness

-----------------------------------------------------------------------------
(* Properties *)

WorkerPc == {"idle", "start", "loaded", "opening", "top", "check", "url", "record",
             "closing", "failing", "marking", "refailing", "remarking",
             "ending", "raised"}
HandlerPc == {"idle", "loaded", "sweep", "sweeping", "victim", "launch"}
HandlerOp == {"none", "create", "pause", "resume", "kill", "boot"}

(* Every variable keeps its type. *)
TypeOK ==
  /\ db \in [Runs -> Row]
  /\ registry \in [Runs -> Workers \cup {NoWorker}]
  /\ wpc \in [Workers -> WorkerPc]
  /\ wrun \in [Workers -> Runs \cup {NoRun}]
  /\ wrow \in [Workers -> Row]
  /\ widx \in [Workers -> 0 .. NumUrls + 1]
  /\ hpc \in [Handlers -> HandlerPc]
  /\ hop \in [Handlers -> HandlerOp]
  /\ hrun \in [Handlers -> Runs \cup {NoRun}]
  /\ hrow \in [Handlers -> Row]
  /\ htodo \in [Handlers -> SUBSET (Runs \X {"pending", "running"})]
  /\ hvictim \in [Handlers -> Victim]
  /\ up \in BOOLEAN
  /\ requests \in Nat /\ crashes \in Nat /\ faults \in Nat
  /\ asked \in [Runs -> BOOLEAN]
  /\ survivors \subseteq Workers

(* A task that has more of its run to do: not finished, not about to return. *)
Working(w) == wpc[w] \notin {"idle", "ending", "raised"}

(* A run is processed by one task at a time: a pause, a resume, a kill, a
   restart or a recovery sweep never leaves two tasks on the same URL list, be
   one of them the survivor of a kill. *)
OneTaskPerRun ==
  \A v, w \in Workers : Working(v) /\ Working(w) /\ wrun[v] = wrun[w] => v = w

(* A task at work that no kill has been swallowed by. *)
Serving(w) == Working(w) /\ w \notin survivors

(* A run that is paused, ended or failed is at rest: whoever resumes it, exports
   it or deletes it need not fear that some task is still crawling for it.  The
   one exception is a KILLED run whose task swallowed its cancellation. *)
WorkingIsActive ==
  \A w \in Workers : Working(w) =>
     IF w \in survivors THEN db[wrun[w]].status = "killed"
     ELSE db[wrun[w]].status \in {"pending", "running"}

(* While a task works on a run, the registry names it, and pause and kill reach
   it, until a kill has tried to end it and was swallowed. *)
WorkingIsRegistered ==
  \A w \in Workers : Serving(w) => registry[wrun[w]] = w

(* No whole-summary write of the task or of a request loses the task id of a
   run being worked on, without which a pause after a restart is refused. *)
WorkingKeepsTaskId ==
  \A w \in Workers : Serving(w) => db[wrun[w]].task

(* KILLED is final: no commit of a copy read before the kill overwrites it. *)
KilledIsFinal ==
  [][\A r \in Runs : db[r].status = "killed" => db'[r].status = "killed"]_vars

(* A task that works on a run comes to an end. *)
TasksEnd == \A w \in Workers : Working(w) ~> ~Working(w)

(* A run dispatched but not yet begun is begun, or reclaimed after a crash: it
   does not stay PENDING with a task id for ever, unless the database failed its
   task before it could begin. *)
DispatchedRunsMoveOn ==
  \A r \in Runs : (db[r].status = "pending" /\ db[r].task)
                     ~> (db[r].status # "pending" \/ faults > 0)

(* A registered task exists and is that run's. *)
RegistryNamesLiveTask ==
  \A r \in Runs : registry[r] # NoWorker =>
      wpc[registry[r]] # "idle" /\ wrun[registry[r]] = r

(* The tasks, requests, sweeps and crashes together keep the contract of a run:
   RunContract with the committed status, the runs some task has work left on,
   and of these the ones a task goes on with although it was cancelled. *)
Contract == INSTANCE RunContract WITH
  status   <- [r \in Runs |-> db[r].status],
  crawled  <- {r \in Runs : \E w \in Workers : Serving(w) /\ wrun[w] = r},
  outlived <- {r \in Runs : \E w \in Workers : Working(w) /\ w \in survivors /\ wrun[w] = r}

KeepsContract == Contract!Spec

-----------------------------------------------------------------------------
(* What docs, comments and messages of the code say, and the code does not do *)

(* crawl_service.py:428: a run is failed by recovery because it was
   "interrupted by backend restart or process termination". *)
OnlyInterruptedRunsFail ==
  crashes = 0 /\ faults = 0 => \A r \in Runs : db[r].status # "failed"

(* crawl_service.py:416: a PENDING run is killed by recovery because the runner
   "was interrupted before processing began": so no task of it goes on. *)
KilledPendingHasNoTask ==
  [][\A r \in Runs : db[r].status = "pending" /\ db'[r].status = "killed"
        => \A w \in Workers : wrun'[w] = r => wpc'[w] = "ending"]_vars

(* crawl_service.py:297: after "Pause requested; crawl will stop at the next
   checkpoint" the next checkpoint sees the request. *)
PauseSeenAtCheckpoint ==
  [][\A w \in Workers :
        wpc[w] = "top" /\ wpc'[w] = "check" /\ asked[wrun[w]]
          => wrow'[w].ctrl = "pause"]_vars

(* crawl_service.py:350: "Run kill requested; local task cancelled", so the task
   begins no further URL of the killed run. *)
KilledBeginsNoUrl ==
  [][\A w \in Workers : BeginUrl(w) => db[wrun[w]].status # "killed"]_vars

(* backend-architecture.md:177: recovery works "so interrupted work does not
   stay orphaned forever". *)
NoOrphanForever ==
  \A r \in Runs : (up /\ db[r].status = "running" /\ registry[r] = NoWorker)
                     ~> (db[r].status # "running" \/ registry[r] # NoWorker)
=============================================================================
