------------------------ MODULE RunLifecycle_proofs ------------------------
(***************************************************************************)
(* Theorems about RunLifecycle for every number of runs, tasks, requests   *)
(* and URLs.                                                               *)
(***************************************************************************)
EXTENDS RunLifecycle, TLAPS

(* TypeOK is not inductive alone: a load reads the row of the task's run, so
   a busy task must have one; a launch gives a task the request's run; and
   the URL index grows only where it is still within the list. *)
TypeInv ==
  /\ TypeOK
  /\ \A w \in Workers : wpc[w] # "idle" => wrun[w] \in Runs
  /\ \A w \in Workers : wpc[w] = "top" => widx[w] >= 1
  /\ \A w \in Workers : wpc[w] \in {"check", "url", "record"} => widx[w] \in 1 .. NumUrls
  /\ \A h \in Handlers : hpc[h] # "idle" /\ hop[h] # "boot" => hrun[h] \in Runs
  /\ \A h \in Handlers : hpc[h] \in {"loaded", "launch"} => hop[h] # "boot"

-----------------------------------------------------------------------------
(* Rows *)

LEMMA StatusNames ==
  /\ {"pending", "running", "paused", "completed", "killed", "failed"} \subseteq CrawlStatus
  /\ {"none", "pause", "kill"} \subseteq ControlRequest
BY DEF CrawlStatus, ActiveStatuses, TerminalStatuses, ControlRequest

LEMMA AbsentIsRow == Absent \in Row /\ NoVictim \in Victim
BY StatusNames DEF Absent, Row, NoVictim, Victim

(* Any change of a row's own columns to legal values leaves a row. *)
LEMMA ChangedIsRow ==
  ASSUME NEW row \in Row, NEW s \in CrawlStatus \cup {"absent"},
         NEW c \in ControlRequest, NEW b \in BOOLEAN
  PROVE  /\ [row EXCEPT !.status = s] \in Row
         /\ [row EXCEPT !.status = s, !.ctrl = c] \in Row
         /\ [row EXCEPT !.status = s, !.task = b] \in Row
         /\ [row EXCEPT !.status = s, !.ctrl = c, !.task = b] \in Row
         /\ [row EXCEPT !.ctrl = c] \in Row
         /\ [row EXCEPT !.task = b] \in Row
BY DEF Row

LEMMA AgedIsRow == \A row \in Row : [row EXCEPT !.beat = "stale"] \in Row
BY DEF Row

LEMMA FlushIsRow ==
  ASSUME NEW cur \in Row, NEW old \in Row, NEW new \in Row
  PROVE  /\ Flush(cur, old, new) \in Row
         /\ Beaten(Flush(cur, old, new)) \in Row
         /\ Beaten(new) \in Row
BY DEF Row, Flush, Beaten

LEMMA ReclaimedIsRow ==
  ASSUME NEW v \in Victim
  PROVE  v.row \in Row /\ Reclaimed(v) \in Row
<1>1. v.row \in Row
  BY DEF Victim
<1>2. /\ [v.row EXCEPT !.task = FALSE] \in Row
      /\ [v.row EXCEPT !.status = "killed", !.task = FALSE] \in Row
      /\ [v.row EXCEPT !.status = "failed", !.task = FALSE] \in Row
  BY <1>1, ChangedIsRow, StatusNames
<1>3. QED
  BY <1>1, <1>2 DEF Reclaimed

(* A task's commit keeps the table and the copies typed. *)
LEMMA CommitType ==
  ASSUME NEW w \in Workers, TypeOK, NEW new \in Row,
         CommitRow(w, new) \/ CommitBeat(w, new)
  PROVE  db' \in [Runs -> Row] /\ wrow' \in [Workers -> Row]
<1> DEFINE flushed == Flush(db[wrun[w]], wrow[w], new)
<1>1. wrun[w] \in Runs => flushed \in Row /\ Beaten(flushed) \in Row
  BY FlushIsRow DEF TypeOK
<1>2. Beaten(new) \in Row
  BY DEF Beaten, Row
<1>3. \/ db' = [db EXCEPT ![wrun[w]] = flushed] /\ wrow' = [wrow EXCEPT ![w] = new]
      \/ db' = [db EXCEPT ![wrun[w]] = Beaten(flushed)] /\ wrow' = [wrow EXCEPT ![w] = Beaten(new)]
  BY DEF CommitRow, CommitBeat
<1> HIDE DEF flushed
<1>4. QED
  BY <1>1, <1>2, <1>3 DEF TypeOK

LEMMA HandlerCommitType ==
  ASSUME NEW h \in Handlers, TypeOK, NEW new \in Row, HandlerCommit(h, new)
  PROVE  db' \in [Runs -> Row]
BY FlushIsRow DEF TypeOK, HandlerCommit

LEMMA LoadRowType ==
  ASSUME NEW w \in Workers, TypeOK, wrun[w] \in Runs, LoadRow(w)
  PROVE  wrow' \in [Workers -> Row]
BY DEF TypeOK, LoadRow

LEMMA IdleHandlerType ==
  ASSUME NEW h \in Handlers, TypeInv, IdleHandler(h)
  PROVE  /\ hpc' \in [Handlers -> HandlerPc] /\ hop' \in [Handlers -> HandlerOp]
         /\ hrun' \in [Handlers -> Runs \cup {NoRun}] /\ hrow' \in [Handlers -> Row]
         /\ htodo' \in [Handlers -> SUBSET (Runs \X {"pending", "running"})]
         /\ hvictim' \in [Handlers -> Victim]
         /\ \A g \in Handlers : hpc'[g] # "idle" /\ hop'[g] # "boot" => hrun'[g] \in Runs
         /\ \A g \in Handlers : hpc'[g] \in {"loaded", "launch"} => hop'[g] # "boot"
BY AbsentIsRow DEF TypeInv, TypeOK, IdleHandler, HandlerPc, HandlerOp

LEMMA IdleWorkerType ==
  ASSUME NEW w, TypeInv, IdleWorker(w)
  PROVE  /\ wpc' \in [Workers -> WorkerPc] /\ wrun' \in [Workers -> Runs \cup {NoRun}]
         /\ wrow' \in [Workers -> Row] /\ widx' \in [Workers -> 0 .. NumUrls + 1]
         /\ survivors' \subseteq Workers
         /\ \A v \in Workers : wpc'[v] # "idle" => wrun'[v] \in Runs
         /\ \A v \in Workers : wpc'[v] = "top" => widx'[v] >= 1
         /\ \A v \in Workers : wpc'[v] \in {"check", "url", "record"} => widx'[v] \in 1 .. NumUrls
<1> USE DEF TypeInv, TypeOK, IdleWorker
<1>1. wpc' \in [Workers -> WorkerPc] /\ wrun' \in [Workers -> Runs \cup {NoRun}]
  BY DEF WorkerPc
<1>2. wrow' \in [Workers -> Row]
  BY AbsentIsRow
<1>3. widx' \in [Workers -> 0 .. NumUrls + 1]
  <2>1. 0 \in 0 .. NumUrls + 1
    BY LifecycleAssumption DEF LifecycleAssumption
  <2>2. QED
    BY <2>1
<1>4. \A v \in Workers : v # w => /\ wpc'[v] = wpc[v] /\ wrun'[v] = wrun[v]
                                 /\ widx'[v] = widx[v]
  OBVIOUS
<1>5. \A v \in Workers : v = w => wpc'[v] = "idle"
  OBVIOUS
<1>6. QED
  BY <1>1, <1>2, <1>3, <1>4, <1>5

-----------------------------------------------------------------------------
(* Type correctness, one lemma per actor *)

LEMMA TypeInit == Init => TypeInv
BY AbsentIsRow, LifecycleAssumption
DEF Init, TypeInv, TypeOK, LifecycleAssumption, WorkerPc, HandlerPc, HandlerOp

LEMMA TypeWorker ==
  ASSUME NEW w \in Workers, TypeInv, WorkerStep(w)
  PROVE  TypeInv'
<1> USE LifecycleAssumption DEF LifecycleAssumption, Goto, WorkerOnly, handlerVars, envVars
<1>0. /\ wrow[w] \in Row /\ db \in [Runs -> Row]
      /\ wpc[w] # "idle" => wrun[w] \in Runs
  BY DEF TypeInv, TypeOK
<1>1. CASE Load(w)
  BY <1>0, <1>1, LoadRowType DEF Load, TypeInv, TypeOK, WorkerPc
<1>2. CASE Reload(w)
  BY <1>0, <1>2, LoadRowType DEF Reload, TypeInv, TypeOK, WorkerPc
<1>3. CASE Refresh(w)
  BY <1>0, <1>3, LoadRowType DEF Refresh, TypeInv, TypeOK, WorkerPc
<1>4. CASE UrlFails(w)
  BY <1>0, <1>4, LoadRowType DEF UrlFails, TypeInv, TypeOK, WorkerPc
<1>5. CASE Finish(w)
  BY <1>0, <1>5, LoadRowType DEF Finish, TypeInv, TypeOK, WorkerPc
<1>6. CASE MarkLoad(w)
  BY <1>0, <1>6, LoadRowType DEF MarkLoad, TypeInv, TypeOK, WorkerPc
<1>8. CASE RunFault(w)
  BY <1>0, <1>8 DEF RunFault, TypeInv, TypeOK, WorkerPc
<1>9. CASE BeginUrl(w)
  BY <1>0, <1>9, CommitType DEF BeginUrl, TypeInv, TypeOK, WorkerPc
<1>10. CASE EnterStage(w)
  BY <1>0, <1>10, CommitType DEF EnterStage, TypeInv, TypeOK, WorkerPc
<1>11. CASE UrlDone(w)
  BY <1>0, <1>11, CommitType DEF UrlDone, RecordUrl, TypeInv, TypeOK, WorkerPc
<1>12. CASE UrlFailed(w)
  BY <1>0, <1>12, CommitType DEF UrlFailed, RecordUrl, TypeInv, TypeOK, WorkerPc
<1>13. CASE Open(w)
  <2> DEFINE new == [wrow[w] EXCEPT !.status = IF @ = "pending" THEN "running" ELSE @]
  <2>1. new \in Row
    BY <1>0, StatusNames DEF Row
  <2>2. db' \in [Runs -> Row] /\ wrow' \in [Workers -> Row]
    BY <1>13, <2>1, CommitType DEF Open, TypeInv
  <2>3. /\ wpc' = [wpc EXCEPT ![w] = "top"] /\ widx' = [widx EXCEPT ![w] = 1]
        /\ 1 \in 0 .. NumUrls + 1 /\ wpc[w] = "opening"
        /\ UNCHANGED <<registry, wrun, survivors, handlerVars, envVars, asked>>
    BY <1>13 DEF Open
  <2>4. wpc' \in [Workers -> WorkerPc] /\ widx' \in [Workers -> 0 .. NumUrls + 1]
    BY <2>3 DEF TypeInv, TypeOK, WorkerPc
  <2>5. QED
    BY <1>0, <2>2, <2>3, <2>4 DEF TypeInv, TypeOK
<1>14. CASE ObeyControl(w)
  <2> DEFINE target == IF wrow[w].ctrl = "pause" THEN "paused" ELSE "killed"
             new == [wrow[w] EXCEPT !.status = target, !.ctrl = "none"]
  <2>1. new \in Row
    BY <1>0, StatusNames, ChangedIsRow
  <2>2. db' \in [Runs -> Row] /\ wrow' \in [Workers -> Row]
    <3>1. CASE CommitBeat(w, new)
      BY <2>1, <3>1, CommitType DEF TypeInv
    <3>2. CASE UNCHANGED <<db, wrow>>
      BY <3>2 DEF TypeInv, TypeOK
    <3>3. QED
      BY <1>14, <3>1, <3>2 DEF ObeyControl
  <2>3. wpc' \in [Workers -> WorkerPc] /\ \E pc \in {"ending", "failing"} : wpc' = [wpc EXCEPT ![w] = pc]
    BY <1>14 DEF ObeyControl, TypeInv, TypeOK, WorkerPc
  <2>4. QED
    BY <1>0, <1>14, <2>2, <2>3 DEF ObeyControl, TypeInv, TypeOK
<1>15. CASE Complete(w)
  <2> DEFINE new == [wrow[w] EXCEPT !.status = "completed"]
  <2>1. new \in Row
    BY <1>0, StatusNames, ChangedIsRow
  <2>2. db' \in [Runs -> Row] /\ wrow' \in [Workers -> Row]
    <3>1. CASE CommitBeat(w, new)
      BY <2>1, <3>1, CommitType DEF TypeInv
    <3>2. CASE UNCHANGED <<db, wrow>>
      BY <3>2 DEF TypeInv, TypeOK
    <3>3. QED
      BY <1>15, <3>1, <3>2 DEF Complete
  <2>3. wpc' \in [Workers -> WorkerPc] /\ \E pc \in {"ending", "failing"} : wpc' = [wpc EXCEPT ![w] = pc]
    BY <1>15 DEF Complete, TypeInv, TypeOK, WorkerPc
  <2>4. QED
    BY <1>0, <1>15, <2>2, <2>3 DEF Complete, TypeInv, TypeOK
<1>16. CASE Mark(w)
  <2> DEFINE new == [wrow[w] EXCEPT !.status = IF @ \in TerminalStatuses THEN @ ELSE "failed"]
  <2>1. new \in Row
    BY <1>0, StatusNames DEF Row
  <2>2. db' \in [Runs -> Row] /\ wrow' \in [Workers -> Row]
    <3>1. CASE CommitRow(w, new)
      BY <2>1, <3>1, CommitType DEF TypeInv
    <3>2. CASE UNCHANGED <<db, wrow>>
      BY <3>2 DEF TypeInv, TypeOK
    <3>3. QED
      BY <1>16, <3>1, <3>2 DEF Mark
  <2>3. wpc' \in [Workers -> WorkerPc]
        /\ \E pc \in {"ending", "raised", "refailing"} : wpc' = [wpc EXCEPT ![w] = pc]
    BY <1>16 DEF Mark, TypeInv, TypeOK, WorkerPc
  <2>4. QED
    BY <1>0, <1>16, <2>2, <2>3 DEF Mark, TypeInv, TypeOK
<1>17. CASE Return(w)
  <2>1. registry' \in [Runs -> Workers \cup {NoWorker}]
    BY <1>17 DEF Return, TypeInv, TypeOK
  <2>2. QED
    BY <1>17, <2>1, IdleWorkerType DEF Return, TypeInv, TypeOK
<1>18. QED
  BY <1>1, <1>2, <1>3, <1>4, <1>5, <1>6, <1>8, <1>9, <1>10, <1>11, <1>12, <1>13, <1>14, <1>15, <1>16, <1>17 DEF WorkerStep

LEMMA TypeHandler ==
  ASSUME NEW h \in Handlers, TypeInv, HandlerStep(h)
  PROVE  TypeInv'
<1> USE DEF workerVars, envVars
<1>0. /\ hrow[h] \in Row /\ db \in [Runs -> Row] /\ hvictim[h] \in Victim
      /\ hpc[h] # "idle" /\ hop[h] # "boot" => hrun[h] \in Runs
  BY DEF TypeInv, TypeOK
<1>1. CASE PauseLive(h)
  <2> DEFINE new == [hrow[h] EXCEPT !.ctrl = "pause"]
  <2>1. new \in Row
    BY <1>0, StatusNames, ChangedIsRow
  <2>2. db' \in [Runs -> Row]
    BY <1>1, <2>1, HandlerCommitType DEF PauseLive, TypeInv
  <2>3. QED
    BY <1>1, <1>0, <2>2, IdleHandlerType DEF PauseLive, TypeInv, TypeOK
<1>2. CASE PauseRevoke(h)
  <2> DEFINE new == [hrow[h] EXCEPT !.status = "paused", !.task = FALSE]
  <2>1. new \in Row
    BY <1>0, StatusNames, ChangedIsRow
  <2>2. db' \in [Runs -> Row]
    BY <1>2, <2>1, HandlerCommitType DEF PauseRevoke, TypeInv
  <2>3. QED
    BY <1>2, <1>0, <2>2, IdleHandlerType DEF PauseRevoke, TypeInv, TypeOK
<1>3. CASE KillLive(h)
  <2> DEFINE new == [hrow[h] EXCEPT !.status = "killed", !.ctrl = "kill", !.task = FALSE]
  <2>1. new \in Row
    BY <1>0, StatusNames, ChangedIsRow
  <2>2. db' \in [Runs -> Row] /\ registry' \in [Runs -> Workers \cup {NoWorker}]
    BY <1>3, <2>1, HandlerCommitType DEF KillLive, TypeInv, TypeOK
  <2>3. /\ hrun[h] \in Runs /\ wpc[registry[hrun[h]]] # "idle" /\ registry[hrun[h]] # NoWorker
        /\ Cancel(registry[hrun[h]]) /\ UNCHANGED <<wrun, wrow, widx>>
    BY <1>0, <1>3 DEF KillLive, HasTask
  <2>4. registry[hrun[h]] \in Workers
    BY <2>3 DEF TypeInv, TypeOK
  <2>5. /\ wpc' \in [Workers -> WorkerPc] /\ survivors' \subseteq Workers
        /\ \A w \in Workers : wpc'[w] = wpc[w] \/ (wpc'[w] = "ending" /\ wpc[w] # "idle")
    BY <2>3, <2>4 DEF Cancel, Goto, TypeInv, TypeOK, WorkerPc
  <2>6. QED
    BY <1>3, <2>2, <2>3, <2>5, IdleHandlerType DEF KillLive, TypeInv, TypeOK
<1>4. CASE KillRevoke(h)
  <2> DEFINE new == [hrow[h] EXCEPT !.status = "killed", !.task = FALSE]
  <2>1. new \in Row
    BY <1>0, StatusNames, ChangedIsRow
  <2>2. db' \in [Runs -> Row]
    BY <1>4, <2>1, HandlerCommitType DEF KillRevoke, TypeInv
  <2>3. QED
    BY <1>4, <1>0, <2>2, IdleHandlerType DEF KillRevoke, TypeInv, TypeOK
<1>5. CASE RequestFails(h)
  BY <1>5, IdleHandlerType DEF RequestFails, TypeInv, TypeOK
<1>6. CASE Resume(h)
  <2> DEFINE new == [hrow[h] EXCEPT !.status = "running", !.ctrl = "none", !.task = FALSE]
  <2>1. new \in Row
    BY <1>0, StatusNames, ChangedIsRow
  <2>2. db' \in [Runs -> Row]
    BY <1>6, <2>1, HandlerCommitType DEF Resume, TypeInv
  <2>3. QED
    BY <1>6, <1>0, <2>2, HandlerCommitType DEF Resume, TypeInv, TypeOK, HandlerPc
<1>7. CASE Sweep(h)
  BY <1>0, <1>7, AbsentIsRow DEF Sweep, TypeInv, TypeOK, HandlerPc
<1>8. CASE PickVictim(h)
  <2>1. PICK t \in htodo[h] :
          /\ registry' = [registry EXCEPT ![t[1]] = NoWorker]
          /\ hvictim' = [hvictim EXCEPT ![h] =
               [run |-> t[1], status |-> t[2],
                row |-> IF t[1] = hrun[h] THEN hrow[h] ELSE db[t[1]]]]
          /\ htodo' = [htodo EXCEPT ![h] = @ \ {t}]
    BY <1>8 DEF PickVictim
  <2>2. t[1] \in Runs /\ t[2] \in {"pending", "running"}
    BY DEF TypeInv, TypeOK
  <2>3. hvictim' \in [Handlers -> Victim]
    BY <1>0, <2>1, <2>2 DEF TypeInv, TypeOK, Victim
  <2>4. registry' \in [Runs -> Workers \cup {NoWorker}]
    BY <2>1 DEF TypeInv, TypeOK
  <2>5. htodo' \in [Handlers -> SUBSET (Runs \X {"pending", "running"})]
    BY <2>1 DEF TypeInv, TypeOK
  <2>6. QED
    BY <1>8, <2>3, <2>4, <2>5 DEF PickVictim, TypeInv, TypeOK, HandlerPc
<1>9. CASE Reclaim(h)
  <2> DEFINE v == hvictim[h]
             new == Reclaimed(v)
  <2>1. v.row \in Row /\ new \in Row
    BY <1>0, ReclaimedIsRow
  <2>2. db' \in [Runs -> Row]
    BY <1>0, <1>9, <2>1, FlushIsRow DEF Reclaim
  <2>3. hrow' \in [Handlers -> Row]
    BY <1>9, <2>1 DEF Reclaim, TypeInv, TypeOK
  <2>4. hvictim' \in [Handlers -> Victim] /\ hpc' \in [Handlers -> HandlerPc]
    BY <1>9, AbsentIsRow DEF Reclaim, TypeInv, TypeOK, HandlerPc
  <2>5. QED
    BY <1>9, <2>2, <2>3, <2>4 DEF Reclaim, TypeInv, TypeOK
<1>10. CASE Stamp(h)
  <2> DEFINE new == [hrow[h] EXCEPT !.task = TRUE]
  <2>1. new \in Row
    BY <1>0, StatusNames, ChangedIsRow
  <2>2. db' \in [Runs -> Row]
    BY <1>10, <2>1, HandlerCommitType DEF Stamp, TypeInv
  <2>3. QED
    BY <1>10, <1>0, <2>2, HandlerCommitType DEF Stamp, TypeInv, TypeOK, HandlerPc
<1>11. CASE SweepOver(h)
  BY <1>11, IdleHandlerType DEF SweepOver, TypeInv, TypeOK
<1>12. CASE Launch(h)
  <2>1. hrun[h] \in Runs
    BY <1>0, <1>12 DEF Launch, TypeInv
  <2>2. PICK w \in Workers :
          /\ wpc[w] = "idle"
          /\ registry' = [registry EXCEPT ![hrun[h]] = w]
          /\ wpc' = [wpc EXCEPT ![w] = "start"]
          /\ wrun' = [wrun EXCEPT ![w] = hrun[h]]
    BY <1>12 DEF Launch, Goto
  <2>3. QED
    BY <1>12, <2>1, <2>2, IdleHandlerType DEF Launch, TypeInv, TypeOK, WorkerPc
<1>13. QED
  BY <1>1, <1>2, <1>3, <1>4, <1>5, <1>6, <1>7, <1>8, <1>9, <1>10, <1>11, <1>12 DEF HandlerStep

LEMMA TypeEnvironment ==
  ASSUME TypeInv,
         \/ \E h \in Handlers : Boot(h)
         \/ \E h \in Handlers, r \in Runs :
               Create(h, r) \/ \E op \in {"pause", "resume", "kill"} : Begin(h, op, r)
         \/ \E r \in Runs : Age(r)
         \/ Crash
  PROVE  TypeInv'
<1> USE DEF workerVars, handlerVars, envVars
<1>1. ASSUME NEW h \in Handlers, Boot(h) PROVE TypeInv'
  BY <1>1 DEF Boot, TypeInv, TypeOK, HandlerPc, HandlerOp
<1>2. ASSUME NEW h \in Handlers, NEW r \in Runs, Create(h, r) PROVE TypeInv'
  <2>1. [Absent EXCEPT !.status = "pending"] \in Row
    BY AbsentIsRow, ChangedIsRow, StatusNames
  <2>2. db' \in [Runs -> Row]
    BY <1>2, <2>1 DEF Create, TypeInv, TypeOK
  <2>3. QED
    BY <1>2, <2>2 DEF Create, TypeInv, TypeOK, HandlerPc, HandlerOp
<1>3. ASSUME NEW h \in Handlers, NEW r \in Runs, NEW op \in {"pause", "resume", "kill"},
             Begin(h, op, r)
      PROVE TypeInv'
  BY <1>3 DEF Begin, TypeInv, TypeOK, HandlerPc, HandlerOp
<1>4. ASSUME NEW r \in Runs, Age(r) PROVE TypeInv'
  <2>1. db' \in [Runs -> Row]
    <3>1. db[r] \in Row /\ [db[r] EXCEPT !.beat = "stale"] \in Row
      BY AgedIsRow DEF TypeInv, TypeOK
    <3>2. db' = [db EXCEPT ![r] = [db[r] EXCEPT !.beat = "stale"]]
      BY <1>4 DEF Age
    <3>3. QED
      BY <3>1, <3>2 DEF TypeInv, TypeOK
  <2>2. QED
    BY <1>4, <2>1 DEF Age, TypeInv, TypeOK
<1>5. CASE Crash
  <2>1. /\ registry' \in [Runs -> Workers \cup {NoWorker}]
        /\ asked' \in [Runs -> BOOLEAN]
    BY <1>5 DEF Crash
  <2>6. up' \in BOOLEAN
    BY <1>5 DEF Crash
  <2>7. crashes' \in Nat
    BY <1>5 DEF Crash, TypeInv, TypeOK
  <2>2. /\ wpc' \in [Workers -> WorkerPc] /\ wrun' \in [Workers -> Runs \cup {NoRun}]
        /\ wrow' \in [Workers -> Row] /\ widx' \in [Workers -> 0 .. NumUrls + 1]
        /\ \A w \in Workers : wpc'[w] = "idle"
        /\ survivors' \subseteq Workers
    BY <1>5, AbsentIsRow, LifecycleAssumption DEF Crash, WorkerPc, LifecycleAssumption
  <2>3. /\ hpc' \in [Handlers -> HandlerPc] /\ hop' \in [Handlers -> HandlerOp]
        /\ hrun' \in [Handlers -> Runs \cup {NoRun}] /\ hrow' \in [Handlers -> Row]
        /\ htodo' \in [Handlers -> SUBSET (Runs \X {"pending", "running"})]
        /\ hvictim' \in [Handlers -> Victim]
        /\ \A h \in Handlers : hpc'[h] = "idle"
    BY <1>5, AbsentIsRow DEF Crash, HandlerPc, HandlerOp
  <2>4. db' \in [Runs -> Row] /\ requests' \in Nat /\ faults' \in Nat
    BY <1>5 DEF Crash, TypeInv, TypeOK
  <2>5. QED
    BY <2>1, <2>2, <2>3, <2>4, <2>6, <2>7 DEF TypeInv, TypeOK
<1>6. QED
  BY <1>1, <1>2, <1>3, <1>4, <1>5

LEMMA TypeStep == TypeInv /\ [Next]_vars => TypeInv'
<1>1. ASSUME TypeInv, Next PROVE TypeInv'
  BY <1>1, TypeWorker, TypeHandler, TypeEnvironment DEF Next
<1>2. ASSUME TypeInv, UNCHANGED vars PROVE TypeInv'
  BY <1>2 DEF TypeInv, TypeOK, vars, workerVars, handlerVars, envVars
<1>3. QED
  BY <1>1, <1>2

(* Every reachable state of RunLifecycle is typed: no load reads a row that
   does not exist, and the URL loop never runs past its list. *)
THEOREM TypeCorrect == Spec => []TypeOK
<1>1. Spec => []TypeInv
  BY TypeInit, TypeStep, PTL DEF Spec
<1>2. TypeInv => TypeOK
  BY DEF TypeInv
<1>3. QED
  BY <1>1, <1>2, PTL

-----------------------------------------------------------------------------
(* The registry *)

LEMMA RegistryStep == TypeInv /\ RegistryNamesLiveTask /\ [Next]_vars => RegistryNamesLiveTask'
<1> USE DEF handlerVars, workerVars, envVars
<1> SUFFICES ASSUME TypeInv, RegistryNamesLiveTask, [Next]_vars
             PROVE  RegistryNamesLiveTask'
  OBVIOUS
<1>0. /\ registry \in [Runs -> Workers \cup {NoWorker}] /\ wpc \in [Workers -> WorkerPc]
      /\ wrun \in [Workers -> Runs \cup {NoRun}]
      /\ \A h \in Handlers : hpc[h] # "idle" /\ hop[h] # "boot" => hrun[h] \in Runs
  BY DEF TypeInv, TypeOK
<1>1. ASSUME NEW w \in Workers, WorkerStep(w), ~Return(w) PROVE RegistryNamesLiveTask'
  <2>1. /\ UNCHANGED <<registry, wrun>>
        /\ \A v \in Workers : wpc[v] # "idle" => wpc'[v] # "idle"
    BY <1>0, <1>1 DEF WorkerStep, Load, Reload, Open, Refresh, ObeyControl, BeginUrl, EnterStage,
       UrlDone, UrlFails, UrlFailed, RecordUrl, Finish, Complete, RunFault, MarkLoad, Mark, Goto,
       WorkerOnly
  <2>2. QED
    BY <1>0, <2>1 DEF RegistryNamesLiveTask
<1>2. ASSUME NEW w \in Workers, Return(w) PROVE RegistryNamesLiveTask'
  BY <1>0, <1>2, LifecycleAssumption DEF Return, IdleWorker, RegistryNamesLiveTask, LifecycleAssumption
<1>3. ASSUME NEW h \in Handlers, KillLive(h) PROVE RegistryNamesLiveTask'
  <2>1. /\ hpc[h] = "loaded" /\ registry' = [registry EXCEPT ![hrun[h]] = NoWorker]
        /\ Cancel(registry[hrun[h]]) /\ UNCHANGED wrun
    BY <1>3 DEF KillLive
  <2>2. \A w \in Workers : wpc[w] # "idle" => wpc'[w] # "idle"
    BY <1>0, <2>1 DEF Cancel, Goto
  <2>3. QED
    BY <1>0, <2>1, <2>2 DEF RegistryNamesLiveTask
<1>4. ASSUME NEW h \in Handlers, PickVictim(h) PROVE RegistryNamesLiveTask'
  <2>1. UNCHANGED <<wpc, wrun>> /\ \E r : registry' = [registry EXCEPT ![r] = NoWorker]
    BY <1>4 DEF PickVictim
  <2>2. QED
    BY <1>0, <2>1 DEF RegistryNamesLiveTask
<1>5. ASSUME NEW h \in Handlers, Launch(h) PROVE RegistryNamesLiveTask'
  <2>1. hrun[h] \in Runs
    BY <1>5 DEF Launch, TypeInv
  <2>2. PICK w \in Workers :
          /\ wpc[w] = "idle"
          /\ registry' = [registry EXCEPT ![hrun[h]] = w]
          /\ wpc' = [wpc EXCEPT ![w] = "start"]
          /\ wrun' = [wrun EXCEPT ![w] = hrun[h]]
    BY <1>5 DEF Launch, Goto
  <2>3. \A r \in Runs : registry[r] # w
    BY <2>2, LifecycleAssumption DEF RegistryNamesLiveTask, LifecycleAssumption
  <2>4. QED
    BY <1>0, <2>1, <2>2, <2>3 DEF RegistryNamesLiveTask
<1>6. CASE Crash
  BY <1>6 DEF Crash, RegistryNamesLiveTask
<1>7. CASE UNCHANGED <<registry, wpc, wrun>>
  BY <1>7 DEF RegistryNamesLiveTask
<1>8. ASSUME NEW h \in Handlers, HandlerStep(h), ~KillLive(h), ~PickVictim(h), ~Launch(h)
      PROVE  UNCHANGED <<registry, wpc, wrun>>
  BY <1>8 DEF HandlerStep, PauseLive, PauseRevoke, KillRevoke, RequestFails, Resume, Sweep, Reclaim,
     Stamp, SweepOver
<1>9. \/ \E w \in Workers : WorkerStep(w)
      \/ \E h \in Handlers : HandlerStep(h)
      \/ Crash
      \/ UNCHANGED <<registry, wpc, wrun>>
  BY DEF Next, Boot, Create, Begin, Age, vars
<1>10. QED
  BY <1>1, <1>2, <1>3, <1>4, <1>5, <1>6, <1>7, <1>8, <1>9

(* Whatever the number of runs, tasks and concurrent requests, the registry of
   local tasks never names a task that has ended or that serves another run:
   cancelling what it names cancels nothing else. *)
THEOREM RegistryCorrect == Spec => []RegistryNamesLiveTask
<1>1. Init => RegistryNamesLiveTask
  BY DEF Init, RegistryNamesLiveTask
<1>2. Spec => [](TypeInv /\ RegistryNamesLiveTask)
  BY <1>1, TypeInit, TypeStep, RegistryStep, PTL DEF Spec
<1>3. QED
  BY <1>2, PTL

-----------------------------------------------------------------------------
(* What one run may rely on when its control requests come one at a time:  *)
(* the claims of the run_solo runs, for every number of URLs, task slots,  *)
(* crashes and faults.  With a second run or a second request in flight    *)
(* they fail, so the hypothesis Solo is part of each theorem.              *)

Solo == /\ \A r, s \in Runs : r = s
        /\ \A g, h \in Handlers : g = h

-----------------------------------------------------------------------------
(* The inductive invariant *)

AtRest == \A w \in Workers : ~Working(w)

(* A request that may launch a task, or reclaim the run, finds no task at work. *)
DispatchPc == {"sweep", "sweeping", "victim", "launch"}

(* Steps at which a task holds a copy of the row it was launched for. *)
Copied == {"loaded", "opening", "top", "check", "url", "record", "closing",
           "marking", "remarking"}

SoloTasks ==
  \A w \in Workers :
    /\ Working(w) => /\ registry[wrun[w]] = w
                     /\ db[wrun[w]].status \in {"pending", "running"}
                     /\ db[wrun[w]].task
    /\ wpc[w] \in Copied => wrow[w].task /\ wrow[w].ctrl # "kill"

SoloRows == \A r \in Runs : db[r].ctrl = "kill" => db[r].status = "killed"

SoloControl ==
  \A h \in Handlers : hpc[h] = "loaded" =>
    /\ hop[h] = "resume" => AtRest
    /\ AtRest \/ hrow[h].task
    /\ db[hrun[h]].status # "killed" /\ hrow[h].status # "killed"

SoloCopies ==
  \A h \in Handlers :
    /\ hrow[h].ctrl = "kill" => hrow[h].status = "killed"
    /\ hvictim[h].row.ctrl = "kill" => hvictim[h].row.status = "killed"

SoloDispatch ==
  \A h \in Handlers :
    /\ hpc[h] \in DispatchPc => AtRest
    /\ hpc[h] \in {"sweeping", "victim"} /\ hrun[h] \in Runs
         => hrow[h].status = db[hrun[h]].status
    /\ hpc[h] = "victim" => /\ hvictim[h].run \in Runs
                            /\ hvictim[h].row.status = db[hvictim[h].run].status
    /\ hpc[h] = "launch" => /\ db[hrun[h]].status \in {"pending", "running"}
                            /\ db[hrun[h]].task

SoloDown == ~up => /\ \A w \in Workers : wpc[w] = "idle"
                   /\ \A h \in Handlers : hpc[h] = "idle"

SoloInv == /\ TypeInv
           /\ SoloTasks /\ SoloRows /\ SoloControl /\ SoloCopies
           /\ SoloDispatch /\ SoloDown

-----------------------------------------------------------------------------
(* What a commit does to the columns *)

LEMMA FlushColumns ==
  ASSUME NEW cur \in Row, NEW old \in Row, NEW new \in Row
  PROVE  /\ Flush(cur, old, new).ctrl = new.ctrl
         /\ Flush(cur, old, new).task = new.task
         /\ new.status = old.status => Flush(cur, old, new).status = cur.status
         /\ new.status # old.status => Flush(cur, old, new).status = new.status
BY DEF Flush, Row

LEMMA BeatenColumns ==
  ASSUME NEW row \in Row
  PROVE  /\ Beaten(row).ctrl = row.ctrl
         /\ Beaten(row).task = row.task
         /\ Beaten(row).status = row.status
BY DEF Beaten, Row

LEMMA CommitColumns ==
  ASSUME NEW w \in Workers, TypeOK, wrun[w] \in Runs, NEW new \in Row,
         CommitRow(w, new) \/ CommitBeat(w, new)
  PROVE  /\ \A r \in Runs : r # wrun[w] => db'[r] = db[r]
         /\ \A v \in Workers : v # w => wrow'[v] = wrow[v]
         /\ db'[wrun[w]].ctrl = new.ctrl /\ db'[wrun[w]].task = new.task
         /\ new.status = wrow[w].status => db'[wrun[w]].status = db[wrun[w]].status
         /\ new.status # wrow[w].status => db'[wrun[w]].status = new.status
         /\ wrow'[w].ctrl = new.ctrl /\ wrow'[w].task = new.task
<1> DEFINE flushed == Flush(db[wrun[w]], wrow[w], new)
<1>1. db[wrun[w]] \in Row /\ wrow[w] \in Row
  BY DEF TypeOK
<1>2. flushed \in Row
  BY <1>1, FlushIsRow
<1>3. /\ flushed.ctrl = new.ctrl
      /\ flushed.task = new.task
      /\ new.status = wrow[w].status => flushed.status = db[wrun[w]].status
      /\ new.status # wrow[w].status => flushed.status = new.status
  <2>1. \A cur, old, nxt \in Row :
          /\ Flush(cur, old, nxt).ctrl = nxt.ctrl
          /\ Flush(cur, old, nxt).task = nxt.task
          /\ nxt.status = old.status => Flush(cur, old, nxt).status = cur.status
          /\ nxt.status # old.status => Flush(cur, old, nxt).status = nxt.status
    BY FlushColumns
  <2>2. QED
    BY <1>1, <2>1
<1>4. \/ db' = [db EXCEPT ![wrun[w]] = flushed] /\ wrow' = [wrow EXCEPT ![w] = new]
      \/ db' = [db EXCEPT ![wrun[w]] = Beaten(flushed)] /\ wrow' = [wrow EXCEPT ![w] = Beaten(new)]
  BY DEF CommitRow, CommitBeat
<1> HIDE DEF flushed
<1>5. /\ Beaten(flushed).ctrl = flushed.ctrl /\ Beaten(flushed).task = flushed.task
      /\ Beaten(flushed).status = flushed.status
      /\ Beaten(new).ctrl = new.ctrl /\ Beaten(new).task = new.task
  BY <1>2, BeatenColumns
<1>6. QED
  BY <1>2, <1>3, <1>4, <1>5 DEF TypeOK

LEMMA HandlerCommitColumns ==
  ASSUME NEW h \in Handlers, TypeOK, hrun[h] \in Runs, NEW new \in Row,
         HandlerCommit(h, new)
  PROVE  /\ \A r \in Runs : r # hrun[h] => db'[r] = db[r]
         /\ db'[hrun[h]].ctrl = new.ctrl /\ db'[hrun[h]].task = new.task
         /\ new.status = hrow[h].status => db'[hrun[h]].status = db[hrun[h]].status
         /\ new.status # hrow[h].status => db'[hrun[h]].status = new.status
<1>1. db[hrun[h]] \in Row /\ hrow[h] \in Row
  BY DEF TypeOK
<1>2. QED
  BY <1>1, FlushColumns DEF HandlerCommit, TypeOK

(* With one run the registry leaves room for one task at work. *)
LEMMA OneAtWork ==
  ASSUME Solo, SoloInv, NEW v \in Workers, NEW w \in Workers, Working(v), Working(w)
  PROVE  v = w
<1>1. wrun[v] \in Runs /\ wrun[w] \in Runs
  BY DEF SoloInv, TypeInv, Working
<1>2. wrun[v] = wrun[w]
  BY <1>1 DEF Solo
<1>3. QED
  BY <1>2 DEF SoloInv, SoloTasks

-----------------------------------------------------------------------------
(* A task's steps, Return aside: what they change and what they leave *)

WorkerEffect(w) ==
  /\ Working(w) /\ wpc'[w] # "idle"
  /\ \A v \in Workers : v # w => wpc'[v] = wpc[v] /\ wrow'[v] = wrow[v]
  /\ \A r \in Runs : r # wrun[w] => db'[r] = db[r]
  /\ db'[wrun[w]].task /\ db'[wrun[w]].ctrl # "kill" /\ db'[wrun[w]].status # "killed"
  /\ Working(w)' => db'[wrun[w]].status \in {"pending", "running"}
  /\ wpc'[w] \in Copied => wrow'[w].task /\ wrow'[w].ctrl # "kill"
  /\ UNCHANGED <<registry, wrun, handlerVars, up>>

(* A copy just loaded is the committed row. *)
LEMMA LoadEffect ==
  ASSUME SoloInv, NEW w \in Workers, Working(w), LoadRow(w), UNCHANGED <<db, wrun>>,
         NEW pc, pc # "idle", Goto(w, pc), WorkerOnly
  PROVE  WorkerEffect(w)
<1>1. wrun[w] \in Runs /\ wpc \in [Workers -> WorkerPc] /\ wrow \in [Workers -> Row]
  BY DEF SoloInv, TypeInv, TypeOK, Working
<1>2. wrow'[w] = db[wrun[w]] /\ \A v \in Workers : v # w => wrow'[v] = wrow[v]
  BY <1>1 DEF LoadRow
<1>3. wpc'[w] = pc /\ \A v \in Workers : v # w => wpc'[v] = wpc[v]
  BY <1>1 DEF Goto
<1>4. /\ db[wrun[w]].status \in {"pending", "running"}
      /\ db[wrun[w]].task /\ db[wrun[w]].ctrl # "kill"
  BY <1>1 DEF SoloInv, SoloTasks, SoloRows
<1>5. QED
  BY <1>1, <1>2, <1>3, <1>4 DEF WorkerEffect, WorkerOnly, handlerVars, envVars

(* A commit that keeps the status and the control request. *)
LEMMA CommitEffect ==
  ASSUME SoloInv, NEW w \in Workers, wpc[w] \in Copied, NEW new \in Row,
         CommitRow(w, new) \/ CommitBeat(w, new),
         new.task = wrow[w].task,
         new.ctrl \in {wrow[w].ctrl, "none"},
         new.status = wrow[w].status \/ new.status # "killed",
         NEW pc, pc # "idle", wpc' = [wpc EXCEPT ![w] = pc],
         pc \in {"ending", "raised"} \/ new.status \in {wrow[w].status, "running"},
         UNCHANGED wrun, WorkerOnly
  PROVE  WorkerEffect(w)
<1>1. /\ wrun[w] \in Runs /\ wpc \in [Workers -> WorkerPc] /\ wrow \in [Workers -> Row]
      /\ Working(w)
  BY DEF SoloInv, TypeInv, TypeOK, Working, Copied
<1>2. wpc'[w] = pc /\ \A v \in Workers : v # w => wpc'[v] = wpc[v]
  BY <1>1
<1>3. /\ db[wrun[w]].status \in {"pending", "running"} /\ wrow[w].ctrl # "kill"
      /\ wrow[w].task
  BY <1>1 DEF SoloInv, SoloTasks
<1>4. /\ \A r \in Runs : r # wrun[w] => db'[r] = db[r]
      /\ \A v \in Workers : v # w => wrow'[v] = wrow[v]
      /\ db'[wrun[w]].ctrl = new.ctrl /\ db'[wrun[w]].task = new.task
      /\ new.status = wrow[w].status => db'[wrun[w]].status = db[wrun[w]].status
      /\ new.status # wrow[w].status => db'[wrun[w]].status = new.status
      /\ wrow'[w].ctrl = new.ctrl /\ wrow'[w].task = new.task
  BY <1>1, CommitColumns DEF SoloInv, TypeInv
<1>5. db'[wrun[w]].task /\ wrow'[w].task /\ db'[wrun[w]].ctrl # "kill" /\ wrow'[w].ctrl # "kill"
  BY <1>3, <1>4
<1>6. db'[wrun[w]].status # "killed"
  BY <1>3, <1>4
<1>7. Working(w)' => db'[wrun[w]].status \in {"pending", "running"}
  BY <1>2, <1>3, <1>4 DEF Working
<1>8. QED
  BY <1>1, <1>2, <1>4, <1>5, <1>6, <1>7 DEF WorkerEffect, WorkerOnly, handlerVars, envVars

(* A step that only moves the task's own control point. *)
LEMMA MoveEffect ==
  ASSUME SoloInv, NEW w \in Workers, Working(w), NEW pc, pc # "idle", Goto(w, pc),
         pc \notin Copied,
         UNCHANGED <<db, wrow, wrun, registry, handlerVars, up>>
  PROVE  WorkerEffect(w)
<1>1. wrun[w] \in Runs /\ wpc \in [Workers -> WorkerPc]
  BY DEF SoloInv, TypeInv, TypeOK, Working
<1>2. wpc'[w] = pc /\ \A v \in Workers : v # w => wpc'[v] = wpc[v]
  BY <1>1 DEF Goto
<1>3. /\ db[wrun[w]].status \in {"pending", "running"}
      /\ db[wrun[w]].task /\ db[wrun[w]].ctrl # "kill"
  BY <1>1 DEF SoloInv, SoloTasks, SoloRows
<1>4. QED
  BY <1>1, <1>2, <1>3 DEF WorkerEffect

LEMMA WorkerEffects ==
  ASSUME SoloInv, NEW w \in Workers, WorkerStep(w), ~Return(w)
  PROVE  WorkerEffect(w)
<1>0. /\ wrow[w] \in Row /\ wpc[w] \in WorkerPc
      /\ wpc[w] \in Copied => Working(w) /\ wrow[w].ctrl # "kill"
      /\ Working(w) => wrun[w] \in Runs
  BY DEF SoloInv, SoloTasks, TypeInv, TypeOK, Copied, Working
<1>1. CASE Load(w)
  BY <1>1, LoadEffect DEF Load, Working
<1>2. CASE Reload(w)
  BY <1>2, LoadEffect DEF Reload, Working
<1>3. CASE Refresh(w)
  BY <1>3, LoadEffect DEF Refresh, Working
<1>4. CASE UrlFails(w)
  BY <1>4, LoadEffect DEF UrlFails, Working
<1>5. CASE Finish(w)
  BY <1>5, LoadEffect DEF Finish, Working
<1>6. CASE MarkLoad(w)
  BY <1>6, LoadEffect DEF MarkLoad, Working
<1>7. CASE RunFault(w)
  BY <1>7, MoveEffect DEF RunFault, Working, Copied
<1>8. CASE BeginUrl(w)
  BY <1>0, <1>8, CommitEffect DEF BeginUrl, Goto, Copied
<1>9. CASE EnterStage(w)
  <2>1. wpc' = [wpc EXCEPT ![w] = "url"]
    BY <1>9 DEF EnterStage, SoloInv, TypeInv, TypeOK
  <2>2. QED
    BY <1>0, <1>9, <2>1, CommitEffect DEF EnterStage, Copied
<1>10. CASE UrlDone(w)
  BY <1>0, <1>10, CommitEffect DEF UrlDone, RecordUrl, Goto, Copied
<1>11. CASE UrlFailed(w)
  BY <1>0, <1>11, CommitEffect DEF UrlFailed, RecordUrl, Goto, Copied
<1>12. CASE Open(w)
  <2> DEFINE new == [wrow[w] EXCEPT !.status = IF @ = "pending" THEN "running" ELSE @]
  <2>1. /\ new \in Row /\ new.task = wrow[w].task /\ new.ctrl = wrow[w].ctrl
        /\ new.status \in {wrow[w].status, "running"}
    BY <1>0, StatusNames DEF Row
  <2>2. CommitBeat(w, new) /\ wpc' = [wpc EXCEPT ![w] = "top"] /\ UNCHANGED wrun
        /\ WorkerOnly /\ wpc[w] = "opening"
    BY <1>12 DEF Open, Goto
  <2> HIDE DEF new
  <2>3. QED
    BY <2>1, <2>2, CommitEffect DEF Copied
<1>13. CASE ObeyControl(w)
  <2>1. wrow[w].ctrl = "pause" /\ wpc[w] = "check" /\ UNCHANGED wrun /\ WorkerOnly
    BY <1>0, <1>13 DEF ObeyControl, Row, ControlRequest, Copied
  <2>2. CASE CanTransition(wrow[w].status, "paused")
    <3> DEFINE new == [wrow[w] EXCEPT !.status = "paused", !.ctrl = "none"]
    <3>1. /\ new \in Row
          /\ new.task = wrow[w].task /\ new.ctrl = "none" /\ new.status = "paused"
      <4>1. new \in Row
        BY <1>0, StatusNames, ChangedIsRow
      <4>2. new.task = wrow[w].task /\ new.ctrl = "none" /\ new.status = "paused"
        BY <1>0 DEF Row
      <4>3. QED
        BY <4>1, <4>2
    <3>2. CommitBeat(w, new) /\ wpc' = [wpc EXCEPT ![w] = "ending"]
      BY <1>13, <2>1, <2>2 DEF ObeyControl, Goto
    <3> HIDE DEF new
    <3>3. QED
      BY <2>1, <3>1, <3>2, CommitEffect DEF Copied
  <2>3. CASE ~CanTransition(wrow[w].status, "paused")
    BY <1>13, <2>1, <2>3, MoveEffect DEF ObeyControl, Copied, Working, WorkerOnly, envVars
  <2>4. QED
    BY <2>2, <2>3
<1>14. CASE Complete(w)
  <2>1. CASE CanTransition(wrow[w].status, "completed")
    <3> DEFINE new == [wrow[w] EXCEPT !.status = "completed"]
    <3>1. /\ new \in Row
          /\ new.task = wrow[w].task /\ new.ctrl = wrow[w].ctrl /\ new.status = "completed"
      <4>1. new \in Row
        BY <1>0, StatusNames, ChangedIsRow
      <4>2. new.task = wrow[w].task /\ new.ctrl = wrow[w].ctrl /\ new.status = "completed"
        BY <1>0 DEF Row
      <4>3. QED
        BY <4>1, <4>2
    <3>2. CommitBeat(w, new) /\ wpc' = [wpc EXCEPT ![w] = "ending"]
          /\ UNCHANGED wrun /\ WorkerOnly /\ wpc[w] = "closing"
      BY <1>14, <2>1 DEF Complete, Goto
    <3> HIDE DEF new
    <3>3. QED
      BY <3>1, <3>2, CommitEffect DEF Copied
  <2>2. CASE ~CanTransition(wrow[w].status, "completed")
    BY <1>14, <2>2, MoveEffect DEF Complete, Copied, Working, WorkerOnly, envVars
  <2>3. QED
    BY <2>1, <2>2
<1>15. CASE Mark(w)
  <2> DEFINE new == [wrow[w] EXCEPT !.status = IF @ \in TerminalStatuses THEN @ ELSE "failed"]
  <2>1. /\ new \in Row /\ new.task = wrow[w].task /\ new.ctrl = wrow[w].ctrl
        /\ new.status = wrow[w].status \/ new.status = "failed"
    BY <1>0, StatusNames DEF Row
  <2>2. wpc[w] \in {"marking", "remarking"} /\ UNCHANGED wrun /\ WorkerOnly
    BY <1>15 DEF Mark
  <2>3. CASE /\ CommitRow(w, new)
             /\ \E pc \in {"ending", "raised"} : wpc' = [wpc EXCEPT ![w] = pc]
    <3> HIDE DEF new
    <3>1. QED
      BY <2>1, <2>2, <2>3, CommitEffect DEF Copied
  <2>4. CASE /\ UNCHANGED <<db, wrow>>
             /\ \E pc \in {"refailing", "raised"} : wpc' = [wpc EXCEPT ![w] = pc]
    BY <2>2, <2>4, MoveEffect DEF Copied, Working, WorkerOnly, envVars, Goto
  <2>5. QED
    BY <1>15, <2>3, <2>4 DEF Mark, Goto
<1>16. QED
  BY <1>1, <1>2, <1>3, <1>4, <1>5, <1>6, <1>7, <1>8, <1>9, <1>10, <1>11, <1>12, <1>13, <1>14, <1>15
  DEF WorkerStep

(* A working task's step keeps the invariant: no request is dispatching. *)
LEMMA SoloWorker ==
  ASSUME Solo, SoloInv, NEW w \in Workers, WorkerEffect(w), TypeInv'
  PROVE  SoloInv'
<1> USE DEF handlerVars
<1>1. wrun[w] \in Runs /\ Working(w) /\ \A r \in Runs : r = wrun[w]
  BY DEF SoloInv, TypeInv, WorkerEffect, Working, Solo
<1>2. \A v \in Workers : v # w => ~Working(v) /\ ~Working(v)'
  BY <1>1, OneAtWork DEF WorkerEffect, Working
<1>3. ~AtRest /\ \A h \in Handlers : hpc[h] \notin DispatchPc
  BY <1>1 DEF AtRest, SoloInv, SoloDispatch
<1>4. SoloTasks'
  <2>1. ASSUME NEW v \in Workers, v # w
        PROVE  ~Working(v)' /\ wpc'[v] \notin Copied
    BY <1>2, <2>1 DEF Working, Copied
  <2>2. Working(w)' => /\ registry'[wrun'[w]] = w
                      /\ db'[wrun'[w]].status \in {"pending", "running"}
                      /\ db'[wrun'[w]].task
    BY <1>1 DEF WorkerEffect, SoloInv, SoloTasks
  <2>3. wpc'[w] \in Copied => wrow'[w].task /\ wrow'[w].ctrl # "kill"
    BY DEF WorkerEffect
  <2>4. QED
    BY <2>1, <2>2, <2>3 DEF SoloTasks
<1>5. SoloRows'
  BY <1>1 DEF WorkerEffect, SoloRows
<1>6. SoloControl'
  <2>1. ASSUME NEW h \in Handlers, hpc'[h] = "loaded"
        PROVE  /\ hop'[h] # "resume" /\ hrow'[h].task
               /\ db'[hrun'[h]].status # "killed" /\ hrow'[h].status # "killed"
    <3>1. hpc[h] = "loaded" /\ hop'[h] = hop[h] /\ hrow'[h] = hrow[h] /\ hrun'[h] = hrun[h]
      BY <2>1 DEF WorkerEffect
    <3>2. hrun[h] \in Runs
      BY <3>1 DEF SoloInv, TypeInv
    <3>3. QED
      BY <1>1, <1>3, <3>1, <3>2 DEF SoloInv, SoloControl, WorkerEffect
  <2>2. QED
    BY <2>1 DEF SoloControl
<1>7. SoloCopies'
  BY DEF WorkerEffect, SoloInv, SoloCopies
<1>8. SoloDispatch'
  BY <1>3 DEF WorkerEffect, SoloDispatch, DispatchPc
<1>9. SoloDown'
  BY <1>1 DEF WorkerEffect, SoloInv, SoloDown, Working
<1>10. QED
  BY <1>4, <1>5, <1>6, <1>7, <1>8, <1>9 DEF SoloInv

(* The end of a task: it no longer works, and clears only its own entry. *)
LEMMA SoloReturn ==
  ASSUME SoloInv, NEW w \in Workers, Return(w), TypeInv'
  PROVE  SoloInv'
<1> USE DEF handlerVars, envVars
<1>1. /\ ~Working(w) /\ wpc'[w] = "idle"
      /\ \A v \in Workers : v # w => wpc'[v] = wpc[v] /\ wrun'[v] = wrun[v] /\ wrow'[v] = wrow[v]
      /\ UNCHANGED <<db, handlerVars, envVars>>
  BY DEF Return, IdleWorker, Working, SoloInv, TypeInv, TypeOK
<1>2. \A r \in Runs : registry[r] # w => registry'[r] = registry[r]
  BY DEF Return, SoloInv, TypeInv, TypeOK
<1>3. SoloTasks'
  <2>1. ASSUME NEW v \in Workers, v # w
        PROVE  /\ Working(v)' => /\ registry'[wrun'[v]] = v
                                 /\ db'[wrun'[v]].status \in {"pending", "running"}
                                 /\ db'[wrun'[v]].task
               /\ wpc'[v] \in Copied => wrow'[v].task /\ wrow'[v].ctrl # "kill"
    <3>1. Working(v) => wrun[v] \in Runs
      BY DEF Working, SoloInv, TypeInv
    <3>2. QED
      BY <1>1, <1>2, <2>1, <3>1 DEF SoloInv, SoloTasks, Working
  <2>2. ~Working(w)' /\ wpc'[w] \notin Copied
    BY <1>1 DEF Working, Copied
  <2>3. QED
    BY <2>1, <2>2 DEF SoloTasks
<1>4. AtRest' <=> AtRest
  BY <1>1 DEF AtRest, Working
<1>5. SoloRows' /\ SoloCopies'
  BY <1>1 DEF SoloInv, SoloRows, SoloCopies
<1>6. SoloControl'
  BY <1>1, <1>4 DEF SoloInv, SoloControl
<1>7. SoloDispatch'
  BY <1>1, <1>4 DEF SoloInv, SoloDispatch
<1>8. SoloDown'
  BY <1>1 DEF SoloInv, SoloDown
<1>9. QED
  BY <1>3, <1>5, <1>6, <1>7, <1>8 DEF SoloInv

-----------------------------------------------------------------------------
(* Requests *)

(* A request that is over leaves nothing behind. *)
LEMMA RequestOver ==
  ASSUME Solo, SoloInv, NEW h \in Handlers, hpc[h] # "idle", IdleHandler(h), UNCHANGED up
  PROVE  SoloControl' /\ SoloCopies' /\ SoloDispatch' /\ SoloDown'
<1>1. /\ \A g \in Handlers : hpc'[g] = "idle"
      /\ \A g \in Handlers : hrow'[g] = Absent /\ hvictim'[g] = NoVictim
      /\ up'
  BY DEF Solo, IdleHandler, SoloInv, SoloDown, TypeInv, TypeOK
<1>2. Absent.ctrl = "none" /\ NoVictim.row.ctrl = "none"
  BY DEF Absent, NoVictim
<1>3. QED
  BY <1>1, <1>2 DEF SoloControl, SoloCopies, SoloDispatch, SoloDown, DispatchPc

LEMMA RestTasks ==
  ASSUME AtRest'
  PROVE  SoloTasks'
BY DEF AtRest, SoloTasks, Working, Copied

(* While no task works, only the request's own commit can move a row. *)
LEMMA UnregisteredAtRest ==
  ASSUME Solo, SoloInv, NEW r \in Runs, ~HasTask(r)
  PROVE  AtRest
<1>1. ASSUME NEW w \in Workers, Working(w) PROVE FALSE
  <2>1. wrun[w] = r
    BY <1>1 DEF Solo, SoloInv, TypeInv, Working
  <2>2. QED
    BY <1>1, <2>1, LifecycleAssumption
    DEF SoloInv, SoloTasks, HasTask, Working, LifecycleAssumption
<1>2. QED
  BY <1>1 DEF AtRest

(* The fields of the copies the requests commit. *)
LEMMA ChangedColumns ==
  ASSUME NEW row \in Row, NEW s, NEW c, NEW b
  PROVE  /\ [row EXCEPT !.ctrl = c].ctrl = c
         /\ [row EXCEPT !.ctrl = c].status = row.status
         /\ [row EXCEPT !.ctrl = c].task = row.task
         /\ [row EXCEPT !.status = s, !.task = b].ctrl = row.ctrl
         /\ [row EXCEPT !.status = s, !.task = b].status = s
         /\ [row EXCEPT !.status = s, !.task = b].task = b
         /\ [row EXCEPT !.status = s, !.ctrl = c, !.task = b].ctrl = c
         /\ [row EXCEPT !.status = s, !.ctrl = c, !.task = b].status = s
         /\ [row EXCEPT !.status = s, !.ctrl = c, !.task = b].task = b
         /\ [row EXCEPT !.task = b].ctrl = row.ctrl
         /\ [row EXCEPT !.task = b].status = row.status
         /\ [row EXCEPT !.task = b].task = b
BY DEF Row

LEMMA SoloPauseKill ==
  ASSUME Solo, SoloInv, NEW h \in Handlers, TypeInv',
         PauseLive(h) \/ PauseRevoke(h) \/ KillRevoke(h) \/ RequestFails(h)
  PROVE  SoloInv'
<1> USE DEF workerVars, envVars
<1>1. /\ hrow[h] \in Row /\ hrun[h] \in Runs
      /\ \A r \in Runs : r = hrun[h]
      /\ AtRest \/ hrow[h].task
      /\ hrow[h].status # "killed" /\ hrow[h].ctrl # "kill"
      /\ db[hrun[h]].status # "killed"
  BY DEF PauseLive, PauseRevoke, KillRevoke, RequestFails, SoloInv, SoloControl,
         SoloCopies, TypeInv, TypeOK, Solo
<1>2. SoloControl' /\ SoloCopies' /\ SoloDispatch' /\ SoloDown'
  <2>1. hpc[h] # "idle" /\ IdleHandler(h) /\ UNCHANGED up
    BY DEF PauseLive, PauseRevoke, KillRevoke, RequestFails
  <2>2. QED
    BY <2>1, RequestOver
<1>3. CASE PauseLive(h)
  <2> DEFINE new == [hrow[h] EXCEPT !.ctrl = "pause"]
  <2>1. new \in Row
    BY <1>1, StatusNames, ChangedIsRow
  <2>2. new.ctrl = "pause" /\ new.status = hrow[h].status /\ new.task = hrow[h].task
    BY <1>1, ChangedColumns
  <2>3. HandlerCommit(h, new)
    BY <1>3 DEF PauseLive
  <2> HIDE DEF new
  <2>4. /\ db'[hrun[h]].ctrl = "pause" /\ db'[hrun[h]].task = hrow[h].task
        /\ db'[hrun[h]].status = db[hrun[h]].status
    BY <1>1, <2>1, <2>2, <2>3, HandlerCommitColumns DEF SoloInv, TypeInv
  <2>5. SoloTasks'
    <3>1. ASSUME NEW w \in Workers, Working(w)
          PROVE  wrun[w] = hrun[h] /\ hrow[h].task
      BY <1>1, <3>1 DEF SoloInv, TypeInv, Working, AtRest
    <3>2. UNCHANGED <<wpc, wrun, wrow, registry>>
      BY <1>3 DEF PauseLive
    <3>3. QED
      BY <2>4, <3>1, <3>2 DEF SoloInv, SoloTasks, Working
  <2>6. SoloRows'
    BY <1>1, <2>4 DEF SoloRows
  <2>7. QED
    BY <1>2, <2>5, <2>6 DEF SoloInv
<1>4. CASE PauseRevoke(h)
  <2> DEFINE new == [hrow[h] EXCEPT !.status = "paused", !.task = FALSE]
  <2>1. new \in Row
    BY <1>1, StatusNames, ChangedIsRow
  <2>2. new.ctrl = hrow[h].ctrl
    BY <1>1, ChangedColumns
  <2>3. HandlerCommit(h, new) /\ ~HasTask(hrun[h]) /\ UNCHANGED wpc
    BY <1>4 DEF PauseRevoke
  <2> HIDE DEF new
  <2>4. db'[hrun[h]].ctrl # "kill"
    BY <1>1, <2>1, <2>2, <2>3, HandlerCommitColumns DEF SoloInv, TypeInv
  <2>5. AtRest'
    BY <1>1, <2>3, UnregisteredAtRest DEF AtRest, Working
  <2>6. SoloRows'
    BY <1>1, <2>4 DEF SoloRows
  <2>7. QED
    BY <1>2, <2>5, <2>6, RestTasks DEF SoloInv
<1>6. CASE KillRevoke(h)
  <2> DEFINE new == [hrow[h] EXCEPT !.status = "killed", !.task = FALSE]
  <2>1. new \in Row
    BY <1>1, StatusNames, ChangedIsRow
  <2>2. new.status = "killed"
    BY <1>1, ChangedColumns
  <2>3. HandlerCommit(h, new) /\ ~HasTask(hrun[h]) /\ UNCHANGED wpc
    BY <1>6 DEF KillRevoke
  <2> HIDE DEF new
  <2>4. db'[hrun[h]].status = "killed"
    BY <1>1, <2>1, <2>2, <2>3, HandlerCommitColumns DEF SoloInv, TypeInv
  <2>5. AtRest'
    BY <1>1, <2>3, UnregisteredAtRest DEF AtRest, Working
  <2>6. SoloRows'
    BY <1>1, <2>4 DEF SoloRows
  <2>7. QED
    BY <1>2, <2>5, <2>6, RestTasks DEF SoloInv
<1>7. CASE RequestFails(h)
  <2>1. UNCHANGED <<db, registry, wpc, wrun, wrow>>
    BY <1>7 DEF RequestFails
  <2>2. SoloTasks' /\ SoloRows'
    BY <2>1 DEF SoloInv, SoloTasks, SoloRows, Working
  <2>3. QED
    BY <1>2, <2>2 DEF SoloInv
<1>8. QED
  BY <1>3, <1>4, <1>6, <1>7

(* The one task at work is in a URL, and its cancellation is swallowed there. *)
Swallowed ==
  \E w \in Workers : /\ wpc[w] = "url" /\ survivors' = survivors \cup {w}
                     /\ \A v \in Workers : Working(v) => v = w
                     /\ UNCHANGED <<wpc, wrun>>

(* A kill of the registered task, which unwinds or swallows the cancellation:
   no request is under way any more and the run is KILLED; nothing works, or the
   survivor alone, inside its URL. *)
LEMMA KillEffect ==
  ASSUME Solo, SoloInv, NEW h \in Handlers, KillLive(h)
  PROVE  /\ \A r \in Runs : db'[r].status = "killed"
         /\ SoloControl' /\ SoloCopies' /\ SoloDispatch' /\ SoloDown'
         /\ \A g \in Handlers : hpc'[g] = "idle"
         /\ \/ AtRest' /\ UNCHANGED survivors
            \/ Swallowed
<1> DEFINE new == [hrow[h] EXCEPT !.status = "killed", !.ctrl = "kill", !.task = FALSE]
           w == registry[hrun[h]]
<1>1. /\ hrow[h] \in Row /\ hrun[h] \in Runs /\ \A r \in Runs : r = hrun[h]
      /\ hrow[h].status # "killed" /\ hpc[h] # "idle"
  BY DEF KillLive, SoloInv, SoloControl, TypeInv, TypeOK, Solo
<1>2. new \in Row
  BY <1>1, StatusNames, ChangedIsRow
<1>3. new.status = "killed"
  BY <1>1, ChangedColumns
<1>4. /\ HandlerCommit(h, new) /\ Cancel(w) /\ IdleHandler(h) /\ UNCHANGED <<up, wrun>>
      /\ w # NoWorker
  BY DEF KillLive, envVars, HasTask
<1>5. w \in Workers
  BY <1>1, <1>4 DEF SoloInv, TypeInv, TypeOK
<1> HIDE DEF new, w
<1>6. \A r \in Runs : db'[r].status = "killed"
  BY <1>1, <1>2, <1>3, <1>4, HandlerCommitColumns DEF SoloInv, TypeInv
<1>7. SoloControl' /\ SoloCopies' /\ SoloDispatch' /\ SoloDown'
  BY <1>1, <1>4, RequestOver
<1>8. \A g \in Handlers : hpc'[g] = "idle"
  BY <1>4 DEF IdleHandler, Solo, SoloInv, TypeInv, TypeOK
<1>9. \A v \in Workers : Working(v) => v = w
  BY <1>1 DEF w, SoloInv, SoloTasks, TypeInv, Working
<1>10. CASE Goto(w, "ending") /\ UNCHANGED survivors
  <2>1. AtRest'
    BY <1>5, <1>9, <1>10 DEF Goto, AtRest, Working, SoloInv, TypeInv, TypeOK
  <2>2. QED
    BY <1>6, <1>7, <1>8, <1>10, <2>1
<1>11. CASE wpc[w] = "url" /\ survivors' = survivors \cup {w} /\ UNCHANGED wpc
  <2>1. Swallowed
    BY <1>4, <1>5, <1>9, <1>11 DEF Swallowed
  <2>2. QED
    BY <1>6, <1>7, <1>8, <2>1
<1>12. QED
  BY <1>4, <1>10, <1>11 DEF Cancel

-----------------------------------------------------------------------------
(* Dispatch: sweep, reclaim, stamp, launch *)

LEMMA SoloSweep ==
  ASSUME Solo, SoloInv, NEW h \in Handlers, TypeInv', Sweep(h) \/ PickVictim(h)
  PROVE  SoloInv'
<1> USE DEF workerVars, envVars
<1>1. AtRest /\ AtRest' /\ SoloTasks'
  <2>1. AtRest /\ UNCHANGED wpc
    BY DEF Sweep, PickVictim, SoloInv, SoloDispatch, DispatchPc
  <2>2. AtRest'
    BY <2>1 DEF AtRest, Working
  <2>3. QED
    BY <2>1, <2>2, RestTasks
<1>2. SoloRows'
  BY DEF Sweep, PickVictim, SoloInv, SoloRows
<1>3. SoloControl'
  BY DEF Sweep, PickVictim, SoloInv, SoloControl, TypeInv, TypeOK, Solo
<1>4. SoloDown'
  BY DEF Sweep, PickVictim, SoloInv, SoloDown
<1>5. CASE Sweep(h)
  <2>1. /\ hpc'[h] = "sweeping" /\ hrun'[h] = hrun[h] /\ hvictim'[h] = hvictim[h]
        /\ hrow'[h] = IF hrun[h] = NoRun THEN Absent ELSE db[hrun[h]]
        /\ UNCHANGED db
    BY <1>5 DEF Sweep, SoloInv, TypeInv, TypeOK
  <2>2. hrun[h] \in Runs \cup {NoRun} /\ NoRun \notin Runs
    BY LifecycleAssumption DEF LifecycleAssumption, SoloInv, TypeInv, TypeOK
  <2>3. SoloCopies'
    BY <2>1, <2>2 DEF SoloInv, SoloCopies, SoloRows, Absent, Solo
  <2>4. SoloDispatch'
    BY <1>1, <2>1, <2>2 DEF SoloDispatch, Solo, DispatchPc
  <2>5. QED
    BY <1>1, <1>2, <1>3, <1>4, <2>3, <2>4 DEF SoloInv
<1>6. CASE PickVictim(h)
  <2>1. PICK t \in htodo[h] :
          hvictim' = [hvictim EXCEPT ![h] =
               [run |-> t[1], status |-> t[2],
                row |-> IF t[1] = hrun[h] THEN hrow[h] ELSE db[t[1]]]]
    BY <1>6 DEF PickVictim
  <2>2. t[1] \in Runs
    BY DEF SoloInv, TypeInv, TypeOK
  <2>3. /\ hvictim'[h].run = t[1]
        /\ hvictim'[h].row = IF t[1] = hrun[h] THEN hrow[h] ELSE db[t[1]]
    BY <2>1 DEF SoloInv, TypeInv, TypeOK
  <2>4. /\ hpc[h] = "sweeping" /\ hpc'[h] = "victim" /\ UNCHANGED <<db, hrun, hrow>>
    BY <1>6 DEF PickVictim, SoloInv, TypeInv, TypeOK
  <2>5. hrun[h] \in Runs => hrow[h].status = db[hrun[h]].status
    BY <2>4 DEF SoloInv, SoloDispatch
  <2>6. SoloCopies'
    BY <2>2, <2>3, <2>4 DEF SoloInv, SoloCopies, SoloRows, Solo
  <2>7. SoloDispatch'
    BY <1>1, <2>2, <2>3, <2>4, <2>5 DEF SoloDispatch, Solo, DispatchPc
  <2>8. QED
    BY <1>1, <1>2, <1>3, <1>4, <2>6, <2>7 DEF SoloInv
<1>7. QED
  BY <1>5, <1>6

LEMMA ReclaimedColumns ==
  ASSUME NEW v \in Victim
  PROVE  /\ Reclaimed(v).ctrl = v.row.ctrl
         /\ v.row.status = "killed" => Reclaimed(v).status = "killed"
<1>1. v.row \in Row
  BY DEF Victim
<1>2. CASE v.row.status \in TerminalStatuses
  <2>1. v.row.status # v.status
    BY <1>2 DEF Victim, TerminalStatuses
  <2>2. Reclaimed(v) = [v.row EXCEPT !.task = FALSE]
    BY <1>2, <2>1 DEF Reclaimed
  <2>3. QED
    BY <1>1, <2>2, ChangedColumns
<1>3. CASE v.row.status \notin TerminalStatuses
  <2>1. v.row.status # "killed"
    BY <1>3 DEF TerminalStatuses
  <2>2. CASE v.row.status = v.status
    <3>1. PICK s \in {"killed", "failed"} :
            Reclaimed(v) = [v.row EXCEPT !.status = s, !.task = FALSE]
      BY <1>3, <2>2 DEF Reclaimed
    <3>2. [v.row EXCEPT !.status = s, !.task = FALSE].ctrl = v.row.ctrl
      BY <1>1, ChangedColumns
    <3>3. QED
      BY <2>1, <3>1, <3>2
  <2>3. CASE v.row.status # v.status
    BY <1>3, <2>1, <2>3 DEF Reclaimed
  <2>4. QED
    BY <2>2, <2>3
<1>4. QED
  BY <1>2, <1>3

LEMMA SoloReclaim ==
  ASSUME Solo, SoloInv, NEW h \in Handlers, TypeInv', Reclaim(h)
  PROVE  /\ SoloInv'
         /\ \A r \in Runs : db[r].status = "killed" => db'[r].status = "killed"
<1> DEFINE v == hvictim[h]
           new == Reclaimed(v)
<1>1. AtRest /\ UNCHANGED wpc /\ hpc[h] = "victim" /\ hpc'[h] = "sweeping"
      /\ v \in Victim /\ v.run \in Runs /\ v.row.status = db[v.run].status
      /\ hvictim'[h] = NoVictim /\ UNCHANGED <<hrun, up>>
  BY DEF Reclaim, SoloInv, SoloDispatch, DispatchPc, TypeInv, TypeOK, workerVars, envVars
<1>2. /\ db' = IF new = v.row THEN db ELSE [db EXCEPT ![v.run] = Flush(@, v.row, new)]
      /\ hrow' = IF v.run = hrun[h] THEN [hrow EXCEPT ![h] = new] ELSE hrow
  BY DEF Reclaim
<1>3. v.row \in Row /\ new \in Row /\ db[v.run] \in Row /\ \A r \in Runs : r = v.run
  BY <1>1, ReclaimedIsRow DEF SoloInv, TypeInv, TypeOK, Solo
<1>4. new.ctrl = v.row.ctrl /\ (v.row.status = "killed" => new.status = "killed")
  BY <1>1, ReclaimedColumns
<1>5. v.row.ctrl = "kill" => v.row.status = "killed"
  BY DEF SoloInv, SoloCopies
<1> HIDE DEF new
<1>6. /\ db'[v.run].status = new.status
      /\ db'[v.run].ctrl = "kill" => db'[v.run].status = "killed"
  <2>1. CASE new = v.row
    BY <1>1, <1>2, <1>3, <2>1 DEF SoloInv, SoloRows
  <2>2. CASE new # v.row
    <3>1. db'[v.run] = Flush(db[v.run], v.row, new)
      BY <1>1, <1>2, <2>2 DEF SoloInv, TypeInv, TypeOK
    <3>2. /\ Flush(db[v.run], v.row, new).ctrl = new.ctrl
          /\ new.status = v.row.status => Flush(db[v.run], v.row, new).status = db[v.run].status
          /\ new.status # v.row.status => Flush(db[v.run], v.row, new).status = new.status
      <4>1. \A cur, old, nxt \in Row :
              /\ Flush(cur, old, nxt).ctrl = nxt.ctrl
              /\ nxt.status = old.status => Flush(cur, old, nxt).status = cur.status
              /\ nxt.status # old.status => Flush(cur, old, nxt).status = nxt.status
        BY FlushColumns
      <4>2. QED
        BY <1>3, <4>1
    <3>3. QED
      BY <1>1, <1>4, <1>5, <3>1, <3>2
  <2>3. QED
    BY <2>1, <2>2
<1>7. AtRest'
  BY <1>1 DEF AtRest, Working
<1>8. SoloTasks' /\ SoloRows'
  BY <1>3, <1>6, <1>7, RestTasks DEF SoloRows
<1>9. SoloControl' /\ SoloDown'
  BY <1>1 DEF SoloInv, SoloControl, SoloDown, Solo
<1>10. v.run = hrun[h] => hrow'[h] = new
  BY <1>2 DEF SoloInv, TypeInv, TypeOK
<1>11. v.run # hrun[h] => hrow'[h] = hrow[h] /\ hrun[h] \notin Runs
  BY <1>2, <1>3
<1>12. SoloCopies'
  BY <1>1, <1>4, <1>5, <1>10, <1>11 DEF SoloInv, SoloCopies, NoVictim, Absent, Solo
<1>13. SoloDispatch'
  BY <1>1, <1>6, <1>7, <1>10, <1>11 DEF SoloDispatch, Solo
<1>14. QED
  BY <1>1, <1>3, <1>4, <1>6, <1>8, <1>9, <1>12, <1>13 DEF SoloInv

LEMMA SoloStamp ==
  ASSUME Solo, SoloInv, NEW h \in Handlers, TypeInv', Stamp(h)
  PROVE  /\ SoloInv'
         /\ \A r \in Runs : db[r].status = "killed" => db'[r].status = "killed"
<1> DEFINE new == [hrow[h] EXCEPT !.task = TRUE]
<1>1. /\ hpc[h] = "sweeping" /\ hpc'[h] = "launch" /\ hrow[h].status \in {"pending", "running"}
      /\ hrun[h] \in Runs /\ hrow[h] \in Row /\ HandlerCommit(h, new)
      /\ UNCHANGED <<wpc, hrun, hrow, hvictim, up>>
  BY DEF Stamp, SoloInv, TypeInv, TypeOK, workerVars, envVars
<1>2. /\ AtRest /\ hrow[h].status = db[hrun[h]].status
      /\ hrow[h].ctrl # "kill" /\ \A r \in Runs : r = hrun[h]
  BY <1>1 DEF SoloInv, SoloDispatch, DispatchPc, SoloCopies, Solo
<1>3. new \in Row
  BY <1>1, StatusNames, ChangedIsRow
<1>4. new.ctrl = hrow[h].ctrl /\ new.status = hrow[h].status /\ new.task = TRUE
  BY <1>1, ChangedColumns
<1> HIDE DEF new
<1>5. /\ db'[hrun[h]].status = db[hrun[h]].status /\ db'[hrun[h]].task
      /\ db'[hrun[h]].ctrl # "kill"
  BY <1>1, <1>2, <1>3, <1>4, HandlerCommitColumns DEF SoloInv, TypeInv
<1>6. AtRest'
  BY <1>1, <1>2 DEF AtRest, Working
<1>7. SoloTasks' /\ SoloRows'
  BY <1>2, <1>5, <1>6, RestTasks DEF SoloRows
<1>8. SoloControl' /\ SoloCopies' /\ SoloDown'
  BY <1>1 DEF SoloInv, SoloControl, SoloCopies, SoloDown, Solo
<1>9. SoloDispatch'
  BY <1>1, <1>2, <1>5, <1>6 DEF SoloDispatch, Solo
<1>10. QED
  BY <1>2, <1>5, <1>7, <1>8, <1>9 DEF SoloInv

LEMMA SoloLaunch ==
  ASSUME Solo, SoloInv, NEW h \in Handlers, TypeInv', Launch(h)
  PROVE  SoloInv'
<1>1. PICK w \in Workers :
        /\ wpc[w] = "idle"
        /\ registry' = [registry EXCEPT ![hrun[h]] = w]
        /\ wpc' = [wpc EXCEPT ![w] = "start"]
        /\ wrun' = [wrun EXCEPT ![w] = hrun[h]]
  BY DEF Launch, Goto
<1>2. /\ hpc[h] = "launch" /\ IdleHandler(h) /\ UNCHANGED <<db, wrow, up>>
      /\ hrun[h] \in Runs
  BY DEF Launch, SoloInv, TypeInv, envVars
<1>3. AtRest /\ db[hrun[h]].status \in {"pending", "running"} /\ db[hrun[h]].task
  BY <1>2 DEF SoloInv, SoloDispatch, DispatchPc
<1>4. /\ wpc'[w] = "start" /\ wrun'[w] = hrun[h] /\ registry'[hrun[h]] = w
      /\ \A v \in Workers : v # w => wpc'[v] = wpc[v]
  BY <1>1, <1>2 DEF SoloInv, TypeInv, TypeOK
<1>5. SoloTasks'
  <2>1. ASSUME NEW v \in Workers, v # w
        PROVE  ~Working(v)' /\ wpc'[v] \notin Copied
    BY <1>3, <1>4, <2>1 DEF AtRest, Working, Copied
  <2>2. QED
    BY <1>2, <1>3, <1>4, <2>1 DEF SoloTasks, Copied
<1>6. SoloRows'
  BY <1>2 DEF SoloInv, SoloRows
<1>7. SoloControl' /\ SoloCopies' /\ SoloDispatch' /\ SoloDown'
  BY <1>2, RequestOver
<1>8. QED
  BY <1>5, <1>6, <1>7 DEF SoloInv

LEMMA SoloResume ==
  ASSUME Solo, SoloInv, NEW h \in Handlers, TypeInv', Resume(h)
  PROVE  SoloInv'
<1> DEFINE new == [hrow[h] EXCEPT !.status = "running", !.ctrl = "none", !.task = FALSE]
<1>1. /\ hpc[h] = "loaded" /\ hpc'[h] = "sweep" /\ hop[h] = "resume"
      /\ hrun[h] \in Runs /\ hrow[h] \in Row /\ HandlerCommit(h, new)
      /\ UNCHANGED <<wpc, hrun, hrow, hvictim, up>>
  BY DEF Resume, SoloInv, TypeInv, TypeOK, workerVars, envVars
<1>2. AtRest /\ \A r \in Runs : r = hrun[h]
  BY <1>1 DEF SoloInv, SoloControl, Solo
<1>3. new \in Row
  BY <1>1, StatusNames, ChangedIsRow
<1>4. new.ctrl = "none"
  BY <1>1, ChangedColumns
<1> HIDE DEF new
<1>5. db'[hrun[h]].ctrl = "none"
  BY <1>1, <1>3, <1>4, HandlerCommitColumns DEF SoloInv, TypeInv
<1>6. AtRest'
  BY <1>1, <1>2 DEF AtRest, Working
<1>7. SoloTasks' /\ SoloRows'
  BY <1>2, <1>5, <1>6, RestTasks DEF SoloRows
<1>8. SoloControl' /\ SoloCopies' /\ SoloDown'
  BY <1>1 DEF SoloInv, SoloControl, SoloCopies, SoloDown, Solo
<1>9. SoloDispatch'
  BY <1>1, <1>6 DEF SoloDispatch, Solo
<1>10. QED
  BY <1>7, <1>8, <1>9 DEF SoloInv

LEMMA SoloHandler ==
  ASSUME Solo, SoloInv, NEW h \in Handlers, TypeInv', HandlerStep(h), ~KillLive(h)
  PROVE  SoloInv'
<1>1. CASE SweepOver(h)
  <2>1. hpc[h] # "idle" /\ IdleHandler(h) /\ UNCHANGED <<db, registry, wpc, wrun, wrow, up>>
    BY <1>1 DEF SweepOver, workerVars, envVars
  <2>2. SoloTasks' /\ SoloRows'
    BY <2>1 DEF SoloInv, SoloTasks, SoloRows, Working
  <2>3. QED
    BY <2>1, <2>2, RequestOver DEF SoloInv
<1>2. QED
  BY <1>1, SoloPauseKill, SoloSweep, SoloReclaim, SoloStamp, SoloLaunch, SoloResume DEF HandlerStep

-----------------------------------------------------------------------------
(* The environment *)

LEMMA SoloInit == Init => SoloInv
<1> SUFFICES ASSUME Init PROVE SoloInv
  OBVIOUS
<1>1. TypeInv
  BY TypeInit
<1>2. /\ \A w \in Workers : wpc[w] = "idle"
      /\ \A h \in Handlers : hpc[h] = "idle" /\ hrow[h] = Absent /\ hvictim[h] = NoVictim
      /\ \A r \in Runs : db[r] = Absent
      /\ up
  BY DEF Init
<1>3. Absent.ctrl = "none" /\ NoVictim.row.ctrl = "none"
  BY DEF Absent, NoVictim
<1>4. QED
  BY <1>1, <1>2, <1>3 DEF SoloInv, SoloTasks, SoloRows, SoloControl, SoloCopies, SoloDispatch,
     SoloDown, Working, Copied, DispatchPc

LEMMA SoloBoot ==
  ASSUME Solo, SoloInv, NEW h \in Handlers, TypeInv', Boot(h)
  PROVE  SoloInv'
<1>1. /\ hpc'[h] = "sweep" /\ up' /\ \A w \in Workers : wpc[w] = "idle"
      /\ UNCHANGED <<db, registry, workerVars, hrun, hrow, hvictim>>
  BY DEF Boot, SoloInv, SoloDown, TypeInv, TypeOK
<1>2. AtRest'
  BY <1>1 DEF AtRest, Working, workerVars
<1>3. QED
  BY <1>1, <1>2, RestTasks DEF SoloInv, SoloRows, SoloControl, SoloCopies, SoloDispatch, SoloDown, Solo

LEMMA SoloCreate ==
  ASSUME Solo, SoloInv, NEW h \in Handlers, NEW r \in Runs, TypeInv', Create(h, r)
  PROVE  SoloInv'
<1>1. /\ db[r].status = "absent" /\ db'[r].ctrl = "none" /\ hpc'[h] = "sweep" /\ up /\ up'
      /\ UNCHANGED <<wpc, hrow, hvictim>>
  BY DEF Create, Absent, workerVars, SoloInv, TypeInv, TypeOK
<1>2. ASSUME NEW w \in Workers, Working(w) PROVE FALSE
  <2>1. wrun[w] = r
    BY <1>2 DEF Solo, SoloInv, TypeInv, Working
  <2>2. QED
    BY <1>1, <1>2, <2>1 DEF SoloInv, SoloTasks
<1>3. AtRest'
  BY <1>1, <1>2 DEF AtRest, Working
<1>4. QED
  BY <1>1, <1>3, RestTasks DEF SoloInv, SoloRows, SoloControl, SoloCopies, SoloDispatch, SoloDown, Solo

LEMMA SoloBegin ==
  ASSUME Solo, SoloInv, NEW h \in Handlers, NEW r \in Runs,
         NEW op \in {"pause", "resume", "kill"}, TypeInv', Begin(h, op, r)
  PROVE  SoloInv'
<1>1. /\ hpc'[h] = "loaded" /\ hop'[h] = op /\ hrun'[h] = r /\ hrow'[h] = db[r] /\ up /\ up'
      /\ Accepts(op, db[r])
      /\ UNCHANGED <<db, registry, workerVars, hvictim>>
  BY DEF Begin, SoloInv, TypeInv, TypeOK
<1>2. db[r].status # "killed" /\ db[r].ctrl # "kill"
  BY <1>1 DEF Accepts, ActiveStatuses, SoloInv, SoloRows
<1>3. AtRest \/ db[r].task
  <2>1. ASSUME NEW w \in Workers, Working(w) PROVE db[r].task
    <3>1. wrun[w] = r
      BY <2>1 DEF Solo, SoloInv, TypeInv, Working
    <3>2. QED
      BY <2>1, <3>1 DEF SoloInv, SoloTasks
  <2>2. QED
    BY <2>1 DEF AtRest
<1>4. op = "resume" => AtRest
  <2>1. ASSUME op = "resume", NEW w \in Workers, Working(w) PROVE FALSE
    <3>1. wrun[w] = r /\ db[r].status = "paused"
      BY <1>1, <2>1 DEF Solo, SoloInv, TypeInv, Working, Accepts
    <3>2. QED
      BY <2>1, <3>1 DEF SoloInv, SoloTasks
  <2>2. QED
    BY <2>1 DEF AtRest
<1>5. SoloTasks' /\ (AtRest' <=> AtRest)
  BY <1>1 DEF SoloInv, SoloTasks, AtRest, Working, workerVars
<1>6. QED
  BY <1>1, <1>2, <1>3, <1>4, <1>5
  DEF SoloInv, SoloRows, SoloControl, SoloCopies, SoloDispatch, SoloDown, Solo, DispatchPc

LEMMA SoloAge ==
  ASSUME Solo, SoloInv, NEW r \in Runs, TypeInv', Age(r)
  PROVE  SoloInv'
<1>1. /\ \A s \in Runs : /\ db'[s].status = db[s].status /\ db'[s].ctrl = db[s].ctrl
                         /\ db'[s].task = db[s].task
      /\ UNCHANGED <<registry, workerVars, handlerVars, up>>
      /\ \A h \in Handlers : hpc[h] = "idle"
  <2>1. db[r] \in Row
    BY DEF SoloInv, TypeInv, TypeOK
  <2>2. /\ [db[r] EXCEPT !.beat = "stale"].status = db[r].status
        /\ [db[r] EXCEPT !.beat = "stale"].ctrl = db[r].ctrl
        /\ [db[r] EXCEPT !.beat = "stale"].task = db[r].task
    BY <2>1 DEF Row
  <2>3. /\ db' = [db EXCEPT ![r] = [db[r] EXCEPT !.beat = "stale"]]
        /\ UNCHANGED <<registry, workerVars, handlerVars, up>>
        /\ \A h \in Handlers : hpc[h] = "idle"
    BY DEF Age, envVars
  <2>4. QED
    BY <2>2, <2>3 DEF SoloInv, TypeInv, TypeOK
<1>2. SoloTasks'
  BY <1>1 DEF SoloInv, SoloTasks, TypeInv, Working, Copied, workerVars
<1>3. SoloRows'
  BY <1>1 DEF SoloInv, SoloRows
<1>4. SoloControl' /\ SoloCopies' /\ SoloDispatch' /\ SoloDown'
  BY <1>1 DEF SoloInv, SoloControl, SoloCopies, SoloDispatch, SoloDown, DispatchPc, workerVars, handlerVars
<1>5. QED
  BY <1>2, <1>3, <1>4 DEF SoloInv

LEMMA SoloCrash ==
  ASSUME SoloInv, TypeInv', Crash
  PROVE  SoloInv'
<1>1. /\ \A w \in Workers : wpc'[w] = "idle"
      /\ \A h \in Handlers : hpc'[h] = "idle" /\ hrow'[h] = Absent /\ hvictim'[h] = NoVictim
      /\ UNCHANGED db
  BY DEF Crash
<1>2. Absent.ctrl = "none" /\ NoVictim.row.ctrl = "none"
  BY DEF Absent, NoVictim
<1>3. QED
  BY <1>1, <1>2 DEF SoloInv, SoloTasks, SoloRows, SoloControl, SoloCopies, SoloDispatch,
     SoloDown, Working, Copied, DispatchPc

(* Only a kill leaves a survivor. *)
LEMMA SurvivorsShrink ==
  ASSUME [Next]_vars, \A h \in Handlers : ~KillLive(h)
  PROVE  survivors' \subseteq survivors
<1>1. ASSUME NEW w \in Workers, WorkerStep(w) PROVE survivors' \subseteq survivors
  BY <1>1 DEF WorkerStep, Load, Reload, Open, Refresh, ObeyControl, BeginUrl, EnterStage, UrlDone,
     UrlFails, UrlFailed, RecordUrl, Finish, Complete, RunFault, MarkLoad, Mark, Return, IdleWorker,
     WorkerOnly
<1>2. ASSUME NEW h \in Handlers, HandlerStep(h), ~KillLive(h) PROVE UNCHANGED survivors
  BY <1>2 DEF HandlerStep, PauseLive, PauseRevoke, KillRevoke, RequestFails, Resume, Sweep,
     PickVictim, Reclaim, Stamp, SweepOver, Launch, workerVars
<1>3. ASSUME NEW h \in Handlers, NEW r \in Runs,
             \/ Boot(h) \/ Create(h, r) \/ Age(r)
             \/ \E op \in {"pause", "resume", "kill"} : Begin(h, op, r)
      PROVE  UNCHANGED survivors
  BY <1>3 DEF Boot, Create, Age, Begin, workerVars
<1>4. ASSUME NEW h \in Handlers, Boot(h) PROVE UNCHANGED survivors
  BY <1>4 DEF Boot, workerVars
<1>5. ASSUME NEW r \in Runs, Age(r) PROVE UNCHANGED survivors
  BY <1>5 DEF Age, workerVars
<1>6. CASE Crash
  BY <1>6 DEF Crash
<1>7. CASE UNCHANGED vars
  BY <1>7 DEF vars, workerVars
<1>8. QED
  BY <1>1, <1>2, <1>3, <1>4, <1>5, <1>6, <1>7 DEF Next

LEMMA SoloStep ==
  ASSUME Solo, SoloInv, survivors = {}, [Next]_vars, \A h \in Handlers : ~KillLive(h)
  PROVE  SoloInv' /\ survivors' = {}
<1>1. ASSUME Next PROVE SoloInv'
  <2>1. TypeInv'
    BY <1>1, TypeStep DEF SoloInv
  <2>2. ASSUME NEW w \in Workers, WorkerStep(w) PROVE SoloInv'
    BY <2>1, <2>2, WorkerEffects, SoloWorker, SoloReturn
  <2>3. QED
    BY <1>1, <2>1, <2>2, SoloHandler, SoloBoot, SoloCreate, SoloBegin, SoloAge, SoloCrash DEF Next
<1>2. ASSUME UNCHANGED vars PROVE SoloInv'
  BY <1>2, TypeStep DEF SoloInv, SoloTasks, SoloRows, SoloControl, SoloCopies, SoloDispatch, SoloDown,
     AtRest, Working, Copied, DispatchPc, vars, workerVars, handlerVars, envVars
<1>3. QED
  BY <1>1, <1>2, SurvivorsShrink

-----------------------------------------------------------------------------
(* After a kill whose cancellation was swallowed *)

(* The one run is KILLED, nothing is asked of it any more, and at most the
   survivor works: it loads the KILLED row before it moves the status. *)
Aftermath ==
  /\ TypeInv /\ SoloCopies /\ up
  /\ \A r \in Runs : db[r].status = "killed"
  /\ \A h \in Handlers : hpc[h] = "idle"
  /\ \A w \in Workers : Working(w) =>
       /\ w \in survivors
       /\ \A v \in Workers : Working(v) => v = w
       /\ wpc[w] \in {"url", "record", "top", "check", "failing", "marking"}
       /\ wpc[w] \in {"record", "check", "marking"} => wrow[w].status = "killed"

(* Nothing works any more: the invariant of a run without survivors. *)
LEMMA AftermathEnds ==
  ASSUME Aftermath, survivors = {}
  PROVE  SoloInv /\ AtRest
<1>1. AtRest
  BY DEF Aftermath, AtRest
<1>2. SoloTasks
  BY <1>1 DEF AtRest, SoloTasks, Working, Copied
<1>3. QED
  BY <1>1, <1>2 DEF Aftermath, SoloInv, SoloRows, SoloControl, SoloDispatch, SoloDown, DispatchPc

LEMMA KillLeaves ==
  ASSUME Solo, SoloInv, survivors = {}, NEW h \in Handlers, KillLive(h)
  PROVE  \/ SoloInv' /\ AtRest' /\ survivors' = {}
         \/ /\ Aftermath'
            /\ \E w \in Workers : /\ Working(w) /\ Working(w)' /\ survivors' = {w}
                                  /\ \A v \in Workers : Working(v) \/ Working(v)' => v = w
                                  /\ UNCHANGED wrun
<1>1. TypeInv'
  BY TypeStep DEF SoloInv, Next, HandlerStep
<1>2. /\ \A r \in Runs : db'[r].status = "killed"
      /\ SoloControl' /\ SoloCopies' /\ SoloDispatch' /\ SoloDown'
      /\ \A g \in Handlers : hpc'[g] = "idle"
  BY KillEffect
<1>3. CASE AtRest' /\ UNCHANGED survivors
  BY <1>1, <1>2, <1>3, RestTasks DEF SoloInv, SoloRows
<1>4. ASSUME NEW w \in Workers, wpc[w] = "url", survivors' = survivors \cup {w},
             \A v \in Workers : Working(v) => v = w, UNCHANGED <<wpc, wrun>>
      PROVE  /\ Aftermath' /\ Working(w) /\ Working(w)' /\ survivors' = {w}
             /\ \A v \in Workers : Working(v) \/ Working(v)' => v = w
  <2>1. Working(w) /\ Working(w)' /\ \A v \in Workers : Working(v)' => v = w
    BY <1>4 DEF Working
  <2>2. up'
    BY DEF KillLive, envVars, SoloInv, SoloDown
  <2>3. QED
    BY <1>1, <1>2, <1>4, <2>1, <2>2 DEF Aftermath
<1>5. CASE Swallowed
  <2>1. PICK w \in Workers : /\ wpc[w] = "url" /\ survivors' = survivors \cup {w}
                             /\ \A v \in Workers : Working(v) => v = w
                             /\ UNCHANGED <<wpc, wrun>>
    BY <1>5 DEF Swallowed
  <2>2. /\ Aftermath' /\ Working(w) /\ Working(w)' /\ survivors' = {w}
        /\ \A v \in Workers : Working(v) \/ Working(v)' => v = w
    BY <1>4, <2>1
  <2>3. QED
    BY <2>1, <2>2
<1>6. QED
  BY <1>3, <1>5, KillEffect

AfterTask(w) ==
  /\ \A r \in Runs : db'[r].status = "killed"
  /\ \A v \in Workers : v # w => wpc'[v] = wpc[v] /\ wrow'[v] = wrow[v]
  /\ wpc'[w] \in {"url", "record", "top", "check", "failing", "marking", "ending"}
  /\ wpc'[w] \in {"record", "check", "marking"} => wrow'[w].status = "killed"
  /\ Working(w) /\ UNCHANGED <<wrun, survivors, handlerVars, up>>

LEMMA AfterLoad ==
  ASSUME Aftermath, NEW w \in Workers, Working(w), LoadRow(w), UNCHANGED <<db, wrun>>,
         NEW pc \in {"check", "record", "marking", "ending"}, Goto(w, pc), WorkerOnly
  PROVE  AfterTask(w)
<1>1. wrun[w] \in Runs /\ wpc \in [Workers -> WorkerPc] /\ wrow \in [Workers -> Row]
  BY DEF Aftermath, TypeInv, TypeOK, Working
<1>2. wrow'[w] = db[wrun[w]] /\ \A v \in Workers : v # w => wrow'[v] = wrow[v]
  BY <1>1 DEF LoadRow
<1>3. wpc'[w] = pc /\ \A v \in Workers : v # w => wpc'[v] = wpc[v]
  BY <1>1 DEF Goto
<1>4. QED
  BY <1>1, <1>2, <1>3 DEF Aftermath, AfterTask, WorkerOnly, envVars

LEMMA AfterCommit ==
  ASSUME Solo, Aftermath, NEW w \in Workers, Working(w), NEW new \in Row,
         CommitRow(w, new) \/ CommitBeat(w, new),
         new.status \in {wrow[w].status, "killed"},
         NEW pc \in {"url", "top", "ending"}, wpc' = [wpc EXCEPT ![w] = pc],
         UNCHANGED wrun, WorkerOnly
  PROVE  AfterTask(w)
<1>1. /\ wrun[w] \in Runs /\ TypeOK /\ wpc \in [Workers -> WorkerPc]
      /\ \A r \in Runs : r = wrun[w]
  BY DEF Aftermath, TypeInv, TypeOK, Working, Solo
<1>2. wpc'[w] = pc /\ \A v \in Workers : v # w => wpc'[v] = wpc[v]
  BY <1>1
<1>3. /\ \A v \in Workers : v # w => wrow'[v] = wrow[v]
      /\ new.status = wrow[w].status => db'[wrun[w]].status = db[wrun[w]].status
      /\ new.status # wrow[w].status => db'[wrun[w]].status = new.status
  BY <1>1, CommitColumns
<1>4. \A r \in Runs : db'[r].status = "killed"
  BY <1>1, <1>3 DEF Aftermath
<1>5. QED
  BY <1>2, <1>3, <1>4 DEF AfterTask, WorkerOnly, envVars

LEMMA AfterMove ==
  ASSUME Aftermath, NEW w \in Workers, Working(w), Goto(w, "failing"),
         UNCHANGED <<db, wrow, wrun, survivors, handlerVars, up>>
  PROVE  AfterTask(w)
<1>1. wpc'[w] = "failing" /\ \A v \in Workers : v # w => wpc'[v] = wpc[v]
  BY DEF Goto, Aftermath, TypeInv, TypeOK
<1>2. QED
  BY <1>1 DEF Aftermath, AfterTask

LEMMA AfterTaskStep ==
  ASSUME Solo, Aftermath, NEW w \in Workers, WorkerStep(w), ~Return(w)
  PROVE  AfterTask(w)
<1>0. /\ wrow[w] \in Row /\ wpc \in [Workers -> WorkerPc]
      /\ Working(w) => /\ wpc[w] \in {"url", "record", "top", "check", "failing", "marking"}
                       /\ wpc[w] \in {"record", "check", "marking"} => wrow[w].status = "killed"
                       /\ wrun[w] \in Runs /\ db[wrun[w]].status = "killed"
  BY DEF Aftermath, TypeInv, TypeOK, Working
<1>1. CASE Load(w) \/ Reload(w) \/ Open(w) \/ Complete(w)
  BY <1>0, <1>1 DEF Load, Reload, Open, Complete, Working
<1>2. CASE Refresh(w)
  BY <1>2, AfterLoad DEF Refresh, Working
<1>3. CASE UrlFails(w)
  BY <1>3, AfterLoad DEF UrlFails, Working
<1>4. CASE Finish(w)
  <2>1. Working(w) /\ Goto(w, "ending")
    BY <1>0, <1>4 DEF Finish, Working, TerminalStatuses
  <2>2. QED
    BY <1>4, <2>1, AfterLoad DEF Finish
<1>5. CASE MarkLoad(w)
  <2>1. Working(w) /\ Goto(w, "marking")
    BY <1>0, <1>5 DEF MarkLoad, Working
  <2>2. QED
    BY <1>5, <2>1, AfterLoad DEF MarkLoad
<1>6. CASE RunFault(w)
  BY <1>6, AfterMove DEF RunFault, Working
<1>7. CASE BeginUrl(w)
  BY <1>0, <1>7, AfterCommit DEF BeginUrl, Goto, Working
<1>8. CASE EnterStage(w)
  <2>1. wpc' = [wpc EXCEPT ![w] = "url"]
    BY <1>0, <1>8 DEF EnterStage
  <2>2. QED
    BY <1>0, <1>8, <2>1, AfterCommit DEF EnterStage, Working
<1>9. CASE UrlDone(w)
  BY <1>0, <1>9, AfterCommit DEF UrlDone, RecordUrl, Goto, Working
<1>10. CASE UrlFailed(w)
  BY <1>0, <1>10, AfterCommit DEF UrlFailed, RecordUrl, Goto, Working
<1>11. CASE ObeyControl(w)
  <2>1. wrow[w].status = "killed" /\ wpc[w] = "check" /\ Working(w) /\ UNCHANGED wrun /\ WorkerOnly
    BY <1>0, <1>11 DEF ObeyControl, Working
  <2>2. CASE wrow[w].ctrl = "pause"
    <3>1. ~CanTransition("killed", "paused")
      BY DEF CanTransition, AllowedTransitions, CrawlStatus, TerminalStatuses, ActiveStatuses
    <3>2. QED
      BY <1>11, <2>1, <2>2, <3>1, AfterMove DEF ObeyControl, WorkerOnly, envVars
  <2>3. CASE wrow[w].ctrl # "pause"
    <3> DEFINE new == [wrow[w] EXCEPT !.status = "killed", !.ctrl = "none"]
    <3>1. new \in Row
      BY <1>0, StatusNames, ChangedIsRow
    <3>2. new.status = "killed"
      BY <1>0 DEF Row
    <3>3. CommitBeat(w, new) /\ wpc' = [wpc EXCEPT ![w] = "ending"]
      BY <1>11, <2>1, <2>3 DEF ObeyControl, Goto, CanTransition
    <3> HIDE DEF new
    <3>4. QED
      BY <2>1, <3>1, <3>2, <3>3, AfterCommit
  <2>4. QED
    BY <2>2, <2>3
<1>12. CASE Mark(w)
  <2>1. wpc[w] = "marking" /\ wrow[w].status = "killed" /\ Working(w)
    BY <1>0, <1>12 DEF Mark, Working
  <2> DEFINE new == [wrow[w] EXCEPT !.status = IF @ \in TerminalStatuses THEN @ ELSE "failed"]
  <2>2. CommitRow(w, new) /\ wpc' = [wpc EXCEPT ![w] = "ending"] /\ UNCHANGED wrun /\ WorkerOnly
    BY <1>12, <2>1 DEF Mark, Goto, TerminalStatuses
  <2>3. new \in Row /\ new.status = "killed"
    BY <1>0, <2>1, StatusNames DEF Row, TerminalStatuses
  <2> HIDE DEF new
  <2>4. QED
    BY <2>1, <2>2, <2>3, AfterCommit
<1>13. QED
  BY <1>1, <1>2, <1>3, <1>4, <1>5, <1>6, <1>7, <1>8, <1>9, <1>10, <1>11, <1>12 DEF WorkerStep

(* The survivor's own steps, the returns of tasks and a crash are all that can
   happen, and none of them moves the status or sets a task to work. *)
LEMMA AftermathStep ==
  ASSUME Solo, Aftermath, [Next]_vars
  PROVE  /\ \/ Aftermath'
            \/ SoloInv' /\ AtRest' /\ survivors' = {} /\ \A h \in Handlers : hpc'[h] = "idle"
         /\ \A r \in Runs : db'[r].status = "killed"
         /\ \A w \in Workers : Working(w)' => Working(w) /\ wrun'[w] = wrun[w]
         /\ survivors' \subseteq survivors
<1> USE DEF handlerVars, envVars
<1>0. TypeInv'
  BY TypeStep DEF Aftermath
<1>1. ASSUME NEW h \in Handlers, HandlerStep(h) PROVE FALSE
  BY <1>1 DEF Aftermath, HandlerStep, PauseLive, PauseRevoke, KillLive, KillRevoke, RequestFails,
     Resume, Sweep, PickVictim, Reclaim, Stamp, SweepOver, Launch
<1>2. ASSUME NEW h \in Handlers, NEW r \in Runs, Create(h, r) PROVE FALSE
  BY <1>2 DEF Aftermath, Create
<1>3. ASSUME NEW h \in Handlers, NEW r \in Runs, NEW op \in {"pause", "resume", "kill"},
             Begin(h, op, r)
      PROVE  FALSE
  BY <1>3 DEF Aftermath, Begin, Accepts, ActiveStatuses
<1>4. ASSUME NEW r \in Runs, Age(r) PROVE FALSE
  BY <1>4 DEF Aftermath, Age, ActiveStatuses
<1>5. ASSUME NEW h \in Handlers, Boot(h) PROVE FALSE
  BY <1>5 DEF Aftermath, Boot
<1>6. survivors' \subseteq survivors
  BY <1>1, SurvivorsShrink DEF HandlerStep
<1>7. CASE Crash
  <2>1. /\ UNCHANGED db /\ survivors' = {}
        /\ \A w \in Workers : wpc'[w] = "idle"
        /\ \A h \in Handlers : hpc'[h] = "idle" /\ hrow'[h] = Absent /\ hvictim'[h] = NoVictim
    BY <1>7 DEF Crash
  <2>2. Absent.ctrl = "none" /\ NoVictim.row.ctrl = "none"
    BY DEF Absent, NoVictim
  <2>3. AtRest' /\ \A r \in Runs : db'[r].status = "killed"
    BY <2>1 DEF AtRest, Working, Aftermath
  <2>4. SoloInv'
    BY <1>0, <2>1, <2>2, <2>3, RestTasks DEF SoloInv, SoloRows, SoloControl, SoloCopies,
       SoloDispatch, SoloDown, DispatchPc
  <2>5. QED
    BY <1>6, <2>1, <2>3, <2>4 DEF AtRest
<1>8. ASSUME NEW w \in Workers, Return(w)
      PROVE  /\ Aftermath' /\ \A r \in Runs : db'[r].status = "killed"
             /\ \A v \in Workers : Working(v)' => Working(v) /\ wrun'[v] = wrun[v]
  <2>1. /\ UNCHANGED <<db, handlerVars, up>> /\ wpc'[w] = "idle" /\ survivors' = survivors \ {w}
        /\ \A v \in Workers : v # w => wpc'[v] = wpc[v] /\ wrow'[v] = wrow[v] /\ wrun'[v] = wrun[v]
    BY <1>8 DEF Return, IdleWorker, Aftermath, TypeInv, TypeOK
  <2>2. ~Working(w)' /\ \A v \in Workers : Working(v)' => v # w /\ Working(v)
    BY <2>1 DEF Working
  <2>3. QED
    BY <1>0, <2>1, <2>2 DEF Aftermath, SoloCopies
<1>9. ASSUME NEW w \in Workers, WorkerStep(w), ~Return(w)
      PROVE  /\ Aftermath' /\ \A r \in Runs : db'[r].status = "killed"
             /\ \A v \in Workers : Working(v)' => Working(v) /\ wrun'[v] = wrun[v]
  <2>1. AfterTask(w)
    BY <1>9, AfterTaskStep
  <2>2. \A v \in Workers : Working(v)' => v = w /\ Working(v)
    BY <2>1 DEF AfterTask, Working, Aftermath
  <2>3. Aftermath'
    <3>1. Working(w)' => wpc'[w] # "ending"
      BY DEF Working
    <3>2. QED
      BY <1>0, <2>1, <2>2, <3>1 DEF Aftermath, AfterTask, SoloCopies
  <2>4. QED
    BY <2>1, <2>2, <2>3 DEF AfterTask
<1>10. CASE UNCHANGED vars
  BY <1>0, <1>10 DEF vars, workerVars, Aftermath, SoloCopies, Working
<1>11. QED
  BY <1>1, <1>2, <1>3, <1>4, <1>5, <1>6, <1>7, <1>8, <1>9, <1>10 DEF Next

(* The whole invariant: of a run no kill has been swallowed by, or after one. *)
LifeInv == (SoloInv /\ survivors = {}) \/ Aftermath

LEMMA LifeInit == Init => LifeInv
BY SoloInit DEF Init, LifeInv

LEMMA LifeStep ==
  ASSUME Solo
  PROVE  LifeInv /\ [Next]_vars => LifeInv'
<1>1. ASSUME SoloInv, survivors = {}, [Next]_vars PROVE LifeInv'
  BY <1>1, SoloStep, KillLeaves DEF LifeInv
<1>2. ASSUME Aftermath, [Next]_vars PROVE LifeInv'
  BY <1>2, AftermathStep DEF LifeInv
<1>3. QED
  BY <1>1, <1>2 DEF LifeInv

-----------------------------------------------------------------------------
(* Theorems *)

(* With one run and one request at a time no interleaving of pause, resume,
   kill, crash, restart and recovery ever leaves two tasks on the run, the one
   that survives its kill included. *)
THEOREM SoloOneTask ==
  ASSUME Solo
  PROVE  Spec => []OneTaskPerRun
<1>1. Spec => []LifeInv
  BY LifeInit, LifeStep, PTL DEF Spec
<1>2. LifeInv => OneTaskPerRun
  BY DEF LifeInv, Aftermath, SoloInv, SoloTasks, OneTaskPerRun
<1>3. QED
  BY <1>1, <1>2, PTL

(* The registry names the task at work, so it can always be paused and killed
   (_get_live_local_run_task), until a kill forgets it and is swallowed. *)
THEOREM SoloRegistered ==
  ASSUME Solo
  PROVE  Spec => []WorkingIsRegistered
<1>1. Spec => []LifeInv
  BY LifeInit, LifeStep, PTL DEF Spec
<1>2. LifeInv => WorkingIsRegistered
  BY DEF LifeInv, Aftermath, SoloInv, SoloTasks, WorkingIsRegistered, Serving
<1>3. QED
  BY <1>1, <1>2, PTL

(* A run that is paused or ended is at rest (pause_run, kill_run); the one task
   that may go on is the survivor of a kill, and its run is KILLED for good. *)
THEOREM SoloRestIsRest ==
  ASSUME Solo
  PROVE  Spec => []WorkingIsActive
<1>1. Spec => []LifeInv
  BY LifeInit, LifeStep, PTL DEF Spec
<1>2. ASSUME SoloInv, survivors = {} PROVE WorkingIsActive
  BY <1>2 DEF SoloInv, SoloTasks, WorkingIsActive
<1>3. ASSUME Aftermath PROVE WorkingIsActive
  BY <1>3 DEF Aftermath, TypeInv, WorkingIsActive, Working
<1>4. QED
  BY <1>1, <1>2, <1>3, PTL DEF LifeInv

(* A run at work keeps the task id, without which a pause after a restart is
   refused (CrawlRun.update_summary writes the whole summary), until it is killed. *)
THEOREM SoloTaskIdKept ==
  ASSUME Solo
  PROVE  Spec => []WorkingKeepsTaskId
<1>1. Spec => []LifeInv
  BY LifeInit, LifeStep, PTL DEF Spec
<1>2. LifeInv => WorkingKeepsTaskId
  BY DEF LifeInv, Aftermath, SoloInv, SoloTasks, WorkingKeepsTaskId, Serving
<1>3. QED
  BY <1>1, <1>2, PTL

(* No step of a killed run's task, request or recovery changes its status. *)
LEMMA KilledStays ==
  ASSUME Solo, SoloInv, Next, NEW r \in Runs, db[r].status = "killed"
  PROVE  db'[r].status = "killed"
<1>0. AtRest
  <2>1. ASSUME NEW w \in Workers, Working(w) PROVE FALSE
    <3>1. wrun[w] = r
      BY <2>1 DEF Solo, SoloInv, TypeInv, Working
    <3>2. QED
      BY <2>1, <3>1 DEF SoloInv, SoloTasks
  <2>2. QED
    BY <2>1 DEF AtRest
<1>1. ASSUME NEW w \in Workers, WorkerStep(w) PROVE db'[r].status = "killed"
  <2>1. Return(w)
    BY <1>0, <1>1, WorkerEffects DEF WorkerEffect, AtRest
  <2>2. QED
    BY <2>1 DEF Return
<1>2. ASSUME NEW h \in Handlers, HandlerStep(h) PROVE db'[r].status = "killed"
  <2>1. hpc[h] # "loaded"
    <3>1. hpc[h] = "loaded" => hrun[h] = r
      BY DEF SoloInv, TypeInv, Solo
    <3>2. QED
      BY <3>1 DEF SoloInv, SoloControl
  <2>2. TypeInv'
    BY TypeStep DEF SoloInv
  <2>3. CASE Sweep(h) \/ PickVictim(h) \/ SweepOver(h) \/ Launch(h)
    BY <2>3 DEF Sweep, PickVictim, SweepOver, Launch
  <2>4. CASE Reclaim(h) \/ Stamp(h)
    BY <2>2, <2>4, SoloReclaim, SoloStamp
  <2>5. QED
    BY <1>2, <2>1, <2>3, <2>4 DEF HandlerStep, PauseLive, PauseRevoke, KillLive, KillRevoke,
       RequestFails, Resume
<1>3. ASSUME NEW h \in Handlers, NEW s \in Runs, Create(h, s) PROVE db'[r].status = "killed"
  BY <1>3 DEF Create, Solo
<1>4. ASSUME NEW s \in Runs, Age(s) PROVE db'[r].status = "killed"
  <2>1. s = r /\ db[s].status \in ActiveStatuses
    BY <1>4 DEF Age, Solo
  <2>2. QED
    BY <2>1 DEF ActiveStatuses
<1>5. CASE \/ \E h \in Handlers : Boot(h)
           \/ \E h \in Handlers, s \in Runs, op \in {"pause", "resume", "kill"} : Begin(h, op, s)
           \/ Crash
  BY <1>5 DEF Boot, Begin, Crash
<1>6. QED
  BY <1>1, <1>2, <1>3, <1>4, <1>5 DEF Next

(* A kill is final: no commit of a copy read before it overwrites it, nor does a
   task that goes on after it. *)
THEOREM SoloKilledIsFinal ==
  ASSUME Solo
  PROVE  Spec => KilledIsFinal
<1>1. Spec => []LifeInv
  BY LifeInit, LifeStep, PTL DEF Spec
<1>2. ASSUME LifeInv, [Next]_vars
      PROVE  [\A r \in Runs : db[r].status = "killed" => db'[r].status = "killed"]_vars
  BY <1>2, KilledStays, AftermathStep DEF LifeInv
<1>3. QED
  BY <1>1, <1>2, PTL DEF Spec, KilledIsFinal

-----------------------------------------------------------------------------
(* RunLifecycle implements RunContract, for one run driven by one request  *)
(* at a time and every number of URLs, task slots, crashes and faults.     *)

Statuses == [r \in Runs |-> db[r].status]
Crawled  == {r \in Runs : \E w \in Workers : Serving(w) /\ wrun[w] = r}
Outlived == {r \in Runs : \E w \in Workers : Working(w) /\ w \in survivors /\ wrun[w] = r}

LEMMA CrawledIsWork ==
  ASSUME Solo, TypeInv, survivors = {}, NEW r \in Runs
  PROVE  Crawled = (IF AtRest THEN {} ELSE {r}) /\ Outlived = {}
<1>1. \A w \in Workers : Working(w) => wrun[w] = r
  BY DEF Solo, TypeInv, Working
<1>2. \A w \in Workers : Serving(w) <=> Working(w)
  BY DEF Serving
<1>3. Outlived = {}
  BY DEF Outlived
<1>4. Crawled = IF AtRest THEN {} ELSE {r}
  BY <1>1, <1>2 DEF Crawled, AtRest, Solo
<1>5. QED
  BY <1>3, <1>4

LEMMA CrawledIsWorkNext ==
  ASSUME Solo, TypeInv', survivors' = {}, NEW r \in Runs
  PROVE  Crawled' = (IF AtRest' THEN {} ELSE {r}) /\ Outlived' = {}
<1>1. \A w \in Workers : Working(w)' => wrun'[w] = r
  BY DEF Solo, TypeInv, Working
<1>2. \A w \in Workers : Serving(w)' <=> Working(w)'
  BY DEF Serving
<1>3. Outlived' = {}
  BY DEF Outlived
<1>4. Crawled' = IF AtRest' THEN {} ELSE {r}
  BY <1>1, <1>2 DEF Crawled, AtRest, Solo
<1>5. QED
  BY <1>3, <1>4

(* What a step of RunLifecycle may do to the run r, and the step of RunContract
   that it is then. *)
Keeps(r)    == db'[r].status = db[r].status /\ (AtRest' \/ ~AtRest)
Creates(r)  == db[r].status = "absent" /\ db'[r].status = "pending" /\ (AtRest' <=> AtRest)
TakesUp(r)  == /\ AtRest /\ ~AtRest' /\ db'[r].status = db[r].status
               /\ db[r].status \in {"pending", "running"}
Begins(r)   == ~AtRest /\ ~AtRest' /\ db[r].status = "pending" /\ db'[r].status = "running"
Resumes(r)  == AtRest /\ AtRest' /\ db[r].status = "paused" /\ db'[r].status = "running"
Rests(r)    == /\ AtRest' /\ db[r].status \in ActiveStatuses
               /\ db'[r].status \in AllowedTransitions[db[r].status] \ {"running"}
Overrules(r) == /\ AtRest /\ AtRest' /\ db[r].status \in {"completed", "failed"}
                /\ db'[r].status \in {"paused", "killed"}

AsPromised(r) == \/ Keeps(r) \/ Creates(r) \/ TakesUp(r) \/ Begins(r) \/ Resumes(r)
                 \/ Rests(r) \/ Overrules(r)

LEMMA PromiseIsStep ==
  ASSUME Solo, TypeInv, TypeInv', survivors = {}, survivors' = {}, NEW r \in Runs, AsPromised(r)
  PROVE  [Contract!Next]_(Contract!vars)
<1>1. Runs = {r}
  BY DEF Solo
<1>2. /\ Crawled = (IF AtRest THEN {} ELSE {r}) /\ Outlived = {}
      /\ Crawled' = (IF AtRest' THEN {} ELSE {r}) /\ Outlived' = {}
  BY CrawledIsWork, CrawledIsWorkNext
<1>3. /\ Statuses[r] = db[r].status /\ Statuses' = [Statuses EXCEPT ![r] = db'[r].status]
      /\ DOMAIN Statuses = Runs
  BY <1>1 DEF Statuses
<1>4. /\ Contract!ActiveStatuses = ActiveStatuses
      /\ Contract!AllowedTransitions = AllowedTransitions
  BY DEF Contract!ActiveStatuses, ActiveStatuses, Contract!AllowedTransitions, AllowedTransitions,
         Contract!CrawlStatus, CrawlStatus, Contract!TerminalStatuses, TerminalStatuses
<1>5. CASE Keeps(r)
  BY <1>1, <1>2, <1>3, <1>5 DEF Keeps, Contract!Next, Contract!Abandon, Contract!vars, Statuses, Crawled, Outlived
<1>6. CASE Creates(r)
  BY <1>1, <1>2, <1>3, <1>6 DEF Creates, Contract!Next, Contract!Create, Statuses, Crawled, Outlived
<1>7. CASE TakesUp(r)
  BY <1>1, <1>2, <1>3, <1>7 DEF TakesUp, Contract!Next, Contract!TakeUp, Statuses, Crawled, Outlived
<1>8. CASE Begins(r)
  BY <1>1, <1>2, <1>3, <1>8 DEF Begins, Contract!Next, Contract!Begin, Statuses, Crawled, Outlived
<1>9. CASE Resumes(r)
  BY <1>1, <1>2, <1>3, <1>9 DEF Resumes, Contract!Next, Contract!Resume, Statuses, Crawled, Outlived
<1>10. CASE Rests(r)
  BY <1>1, <1>2, <1>3, <1>4, <1>10 DEF Rests, Contract!Next, Contract!Rest, Statuses, Crawled, Outlived
<1>11. CASE Overrules(r)
  BY <1>1, <1>2, <1>3, <1>11 DEF Overrules, Contract!Next, Contract!Overrule, Statuses, Crawled, Outlived
<1>12. QED
  BY <1>5, <1>6, <1>7, <1>8, <1>9, <1>10, <1>11 DEF AsPromised

-----------------------------------------------------------------------------
(* What the copies of a row tell of the row: no copy is ahead of it.       *)

(* A task has loaded an active run, and a running one if its copy says so. *)
TaskCopies ==
  \A w \in Workers : wpc[w] \in Copied =>
    /\ wrow[w].status \in {"pending", "running"}
    /\ wrow[w].status = "running" => db[wrun[w]].status = "running"

(* A request was accepted for its copy, and the run has not fallen back since. *)
RequestCopies ==
  \A h \in Handlers : hpc[h] = "loaded" =>
    /\ db[hrun[h]].status # "absent"
    /\ hop[h] = "pause"  => hrow[h].status = "running" /\ db[hrun[h]].status # "pending"
    /\ hop[h] = "kill"   => hrow[h].status \in ActiveStatuses
    /\ hop[h] = "resume" => hrow[h].status = "paused" /\ db[hrun[h]].status = "paused"

NoneExhausted == \A r \in Runs : db[r].status # "proxy_exhausted"

CopiesTell == TaskCopies /\ RequestCopies /\ NoneExhausted

ContractInv == SoloInv /\ CopiesTell

-----------------------------------------------------------------------------
(* The steps of a task *)

Moves(w) ==
  LET was == db[wrun[w]].status  is == db'[wrun[w]].status IN
  /\ wpc'[w] \in Copied => /\ wrow'[w].status \in {"pending", "running"}
                           /\ wrow'[w].status = "running" => is = "running"
  /\ \/ is = was
     \/ Working(w)' /\ was = "pending" /\ is = "running"
     \/ ~Working(w)' /\ was = "running" /\ is \in {"paused", "completed", "failed"}

LEMMA LoadMoves ==
  ASSUME ContractInv, NEW w \in Workers, Working(w), LoadRow(w), UNCHANGED db
  PROVE  Moves(w)
<1>1. /\ wrun[w] \in Runs /\ db[wrun[w]].status \in {"pending", "running"}
      /\ wrow'[w] = db[wrun[w]]
  BY DEF LoadRow, ContractInv, SoloInv, SoloTasks, TypeInv, TypeOK, Working
<1>2. QED
  BY <1>1 DEF Moves

LEMMA StepMoves ==
  ASSUME NEW w \in Workers, UNCHANGED db, wpc'[w] \notin Copied
  PROVE  Moves(w)
BY DEF Moves

(* A commit of a copy whose status is kept, or moves on as the task does. *)
LEMMA CommitMoves ==
  ASSUME ContractInv, NEW w \in Workers, wpc[w] \in Copied, NEW new \in Row,
         CommitRow(w, new) \/ CommitBeat(w, new),
         \/ new.status = wrow[w].status
         \/ wpc'[w] = "top" /\ wrow[w].status = "pending" /\ new.status = "running"
         \/ /\ wpc'[w] \in {"ending", "raised"} /\ wrow[w].status = "running"
            /\ new.status \in {"paused", "completed", "failed"}
  PROVE  Moves(w)
<1>1. /\ wrun[w] \in Runs /\ wrow \in [Workers -> Row] /\ TypeOK
      /\ db[wrun[w]].status \in {"pending", "running"}
      /\ wrow[w].status \in {"pending", "running"}
      /\ wrow[w].status = "running" => db[wrun[w]].status = "running"
  BY DEF ContractInv, CopiesTell, TaskCopies, SoloInv, SoloTasks, TypeInv, TypeOK, Working, Copied
<1>2. /\ new.status = wrow[w].status => db'[wrun[w]].status = db[wrun[w]].status
      /\ new.status # wrow[w].status => db'[wrun[w]].status = new.status
  BY <1>1, CommitColumns
<1>3. wrow'[w].status = new.status
  BY <1>1, BeatenColumns DEF CommitRow, CommitBeat
<1>4. CASE new.status = wrow[w].status
  BY <1>1, <1>2, <1>3, <1>4 DEF Moves
<1>5. CASE wpc'[w] = "top" /\ wrow[w].status = "pending" /\ new.status = "running"
  BY <1>1, <1>2, <1>3, <1>5 DEF Moves, Working
<1>6. CASE /\ wpc'[w] \in {"ending", "raised"} /\ wrow[w].status = "running"
           /\ new.status \in {"paused", "completed", "failed"}
  BY <1>1, <1>2, <1>3, <1>6 DEF Moves, Working, Copied
<1>7. QED
  BY <1>4, <1>5, <1>6

LEMMA TaskMoves ==
  ASSUME ContractInv, NEW w \in Workers, WorkerStep(w), ~Return(w)
  PROVE  Moves(w)
<1>0. /\ wrow[w] \in Row /\ wpc \in [Workers -> WorkerPc]
      /\ wpc[w] \in Copied => wrow[w].ctrl # "kill" /\ wrow[w].status \in {"pending", "running"}
  BY DEF ContractInv, CopiesTell, TaskCopies, SoloInv, SoloTasks, TypeInv, TypeOK
<1>ends. \A s \in {"pending", "running"}, t \in {"paused", "completed", "failed"} :
        CanTransition(s, t) => s = "running"
  BY DEF CanTransition, AllowedTransitions, CrawlStatus, TerminalStatuses, ActiveStatuses
<1>1. CASE Load(w) \/ Reload(w) \/ Refresh(w) \/ UrlFails(w) \/ Finish(w) \/ MarkLoad(w)
  BY <1>1, LoadMoves DEF Load, Reload, Refresh, UrlFails, Finish, MarkLoad, Working
<1>2. CASE RunFault(w)
  BY <1>0, <1>2, StepMoves DEF RunFault, Goto, Copied
<1>3. CASE BeginUrl(w) \/ EnterStage(w) \/ UrlDone(w) \/ UrlFailed(w)
  BY <1>0, <1>3, CommitMoves DEF BeginUrl, EnterStage, UrlDone, UrlFailed, RecordUrl, Copied
<1>4. CASE Open(w)
  <2> DEFINE new == [wrow[w] EXCEPT !.status = IF @ = "pending" THEN "running" ELSE @]
  <2>1. /\ new \in Row
        /\ \/ new.status = wrow[w].status
           \/ wrow[w].status = "pending" /\ new.status = "running"
    BY <1>0, StatusNames DEF Row
  <2>2. CommitBeat(w, new) /\ wpc[w] \in Copied /\ wpc'[w] = "top"
    BY <1>0, <1>4 DEF Open, Goto, Copied
  <2> HIDE DEF new
  <2>3. QED
    BY <2>1, <2>2, CommitMoves
<1>5. CASE ObeyControl(w)
  <2>1. wrow[w].ctrl = "pause" /\ wpc[w] \in Copied
    BY <1>0, <1>5 DEF ObeyControl, Row, ControlRequest, Copied
  <2>2. CASE CanTransition(wrow[w].status, "paused")
    <3> DEFINE new == [wrow[w] EXCEPT !.status = "paused", !.ctrl = "none"]
    <3>1. new \in Row /\ new.status = "paused"
      <4>1. new \in Row
        BY <1>0, StatusNames, ChangedIsRow
      <4>2. new.status = "paused"
        BY <1>0 DEF Row
      <4>3. QED
        BY <4>1, <4>2
    <3>2. CommitBeat(w, new) /\ wpc'[w] = "ending"
      BY <1>0, <1>5, <2>1, <2>2 DEF ObeyControl, Goto
    <3>3. wrow[w].status = "running"
      BY <1>0, <1>ends, <2>1, <2>2
    <3> HIDE DEF new
    <3>4. QED
      BY <2>1, <3>1, <3>2, <3>3, CommitMoves
  <2>3. CASE ~CanTransition(wrow[w].status, "paused")
    BY <1>0, <1>5, <2>1, <2>3, StepMoves DEF ObeyControl, Goto, Copied
  <2>4. QED
    BY <2>2, <2>3
<1>6. CASE Complete(w)
  <2>1. CASE CanTransition(wrow[w].status, "completed")
    <3> DEFINE new == [wrow[w] EXCEPT !.status = "completed"]
    <3>1. new \in Row /\ new.status = "completed"
      <4>1. new \in Row
        BY <1>0, StatusNames, ChangedIsRow
      <4>2. new.status = "completed"
        BY <1>0 DEF Row
      <4>3. QED
        BY <4>1, <4>2
    <3>2. CommitBeat(w, new) /\ wpc'[w] = "ending" /\ wpc[w] \in Copied
      BY <1>0, <1>6, <2>1 DEF Complete, Goto, Copied
    <3>3. wrow[w].status = "running"
      BY <1>0, <1>ends, <2>1, <3>2
    <3> HIDE DEF new
    <3>4. QED
      BY <3>1, <3>2, <3>3, CommitMoves
  <2>2. CASE ~CanTransition(wrow[w].status, "completed")
    BY <1>0, <1>6, <2>2, StepMoves DEF Complete, Goto, Copied
  <2>3. QED
    BY <2>1, <2>2
<1>7. CASE Mark(w)
  <2> DEFINE new == [wrow[w] EXCEPT !.status = IF @ \in TerminalStatuses THEN @ ELSE "failed"]
  <2>1. wpc[w] \in Copied /\ wrow[w].status \notin TerminalStatuses
    BY <1>0, <1>7 DEF Mark, Copied, TerminalStatuses
  <2>2. new \in Row /\ new.status = "failed"
    BY <1>0, <2>1, StatusNames DEF Row
  <2>3. CASE CanTransition(wrow[w].status, "failed")
    <3>1. CommitRow(w, new) /\ wpc'[w] \in {"ending", "raised"}
      BY <1>0, <1>7, <2>3 DEF Mark, Goto
    <3>2. wrow[w].status = "running"
      BY <1>0, <1>ends, <2>1, <2>3
    <3> HIDE DEF new
    <3>3. QED
      BY <2>1, <2>2, <3>1, <3>2, CommitMoves
  <2>4. CASE ~CanTransition(wrow[w].status, "failed")
    BY <1>0, <1>7, <2>1, <2>4, StepMoves DEF Mark, Goto, Copied
  <2>5. QED
    BY <2>3, <2>4
<1>8. QED
  BY <1>1, <1>2, <1>3, <1>4, <1>5, <1>6, <1>7 DEF WorkerStep

(* So a task's step is one of the contract's, and the copies still tell. *)
LEMMA TaskKeepsContract ==
  ASSUME Solo, ContractInv, SoloInv', NEW w \in Workers, NEW r \in Runs, WorkerStep(w)
  PROVE  AsPromised(r) /\ CopiesTell'
<1>1. CASE Return(w)
  <2>1. /\ UNCHANGED <<db, handlerVars>> /\ ~Working(w) /\ wpc'[w] = "idle"
        /\ \A v \in Workers : v # w => wpc'[v] = wpc[v] /\ wrow'[v] = wrow[v] /\ wrun'[v] = wrun[v]
    BY <1>1 DEF Return, IdleWorker, Working, ContractInv, SoloInv, TypeInv, TypeOK
  <2>2. AtRest' <=> AtRest
    BY <2>1 DEF AtRest, Working
  <2>3. CopiesTell'
    BY <2>1 DEF handlerVars, ContractInv, CopiesTell, TaskCopies, RequestCopies, NoneExhausted, Copied
  <2>4. QED
    BY <2>1, <2>2, <2>3 DEF AsPromised, Keeps
<1>2. CASE ~Return(w)
  <2>1. WorkerEffect(w) /\ Moves(w)
    BY <1>2, WorkerEffects, TaskMoves DEF ContractInv
  <2>2. wrun[w] = r /\ Working(w) /\ ~AtRest /\ UNCHANGED <<wrun, hpc, hop, hrun, hrow>>
    BY <2>1 DEF WorkerEffect, Solo, ContractInv, SoloInv, TypeInv, Working, AtRest, handlerVars
  <2>3. \A v \in Workers : v # w => ~Working(v) /\ ~Working(v)' /\ wpc'[v] \notin Copied
    <3>1. \A v \in Workers : v # w => ~Working(v) /\ wpc'[v] = wpc[v]
      BY <2>1, <2>2, OneAtWork DEF WorkerEffect, ContractInv
    <3>2. QED
      BY <3>1 DEF Working, Copied
  <2>4. Working(w)' <=> ~AtRest'
    BY <2>3 DEF AtRest
  <2>5. db[r].status \in {"pending", "running"}
    BY <2>2 DEF ContractInv, SoloInv, SoloTasks
  <2>6. AsPromised(r)
    BY <2>1, <2>2, <2>4, <2>5
    DEF Moves, AsPromised, Keeps, Begins, Rests, ActiveStatuses, AllowedTransitions, CrawlStatus,
        TerminalStatuses
  <2>7. TaskCopies'
    BY <2>1, <2>2, <2>3 DEF Moves, TaskCopies
  <2>8. \A s \in Runs : s = r
    BY DEF Solo
  <2>9. RequestCopies' /\ NoneExhausted'
    <3>1. db'[r].status \in {db[r].status, "running", "paused", "completed", "failed"}
      BY <2>1, <2>2 DEF Moves
    <3>2. \A h \in Handlers : hpc[h] = "loaded" => hrun[h] = r /\ hop[h] # "resume"
      BY <2>2, <2>8 DEF ContractInv, SoloInv, SoloControl, TypeInv
    <3>3. QED
      BY <2>2, <2>8, <3>1, <3>2 DEF ContractInv, CopiesTell, RequestCopies, NoneExhausted
  <2>10. QED
    BY <2>6, <2>7, <2>9 DEF CopiesTell
<1>3. QED
  BY <1>1, <1>2

-----------------------------------------------------------------------------
(* The steps of a request *)

(* A step that changes no status and no task, with no request just begun. *)
LEMMA Unmoved ==
  ASSUME Solo, ContractInv, NEW r \in Runs, UNCHANGED <<wpc, wrun, wrow>>,
         \A q \in Runs : db'[q].status = db[q].status,
         \A h \in Handlers : hpc'[h] # "loaded"
  PROVE  AsPromised(r) /\ CopiesTell'
<1>1. AtRest' <=> AtRest
  BY DEF AtRest, Working
<1>2. TaskCopies'
  <2>1. ASSUME NEW w \in Workers, wpc[w] \in Copied PROVE wrun[w] \in Runs
    BY <2>1 DEF ContractInv, SoloInv, TypeInv, Copied
  <2>2. QED
    BY <2>1 DEF ContractInv, CopiesTell, TaskCopies
<1>3. RequestCopies' /\ NoneExhausted'
  BY DEF ContractInv, CopiesTell, RequestCopies, NoneExhausted
<1>4. QED
  BY <1>1, <1>2, <1>3 DEF AsPromised, Keeps, CopiesTell

(* A step after which no task works and no request has just begun. *)
LEMMA RestingTells ==
  ASSUME AtRest', \A h \in Handlers : hpc'[h] # "loaded", NoneExhausted'
  PROVE  CopiesTell'
BY DEF CopiesTell, TaskCopies, RequestCopies, AtRest, Working, Copied

(* A run that was begun, and is neither paused nor killed, may be. *)
LEMMA OverruledOrRested ==
  ASSUME AtRest', NEW r \in Runs, db'[r].status = "killed" \/ db[r].status # "pending",
         db[r].status \in ActiveStatuses \cup {"completed", "failed"},
         db'[r].status \in {"paused", "killed"},
         db[r].status \in {"completed", "failed"} => AtRest
  PROVE  AsPromised(r)
BY DEF AsPromised, Keeps, Rests, Overrules, ActiveStatuses, AllowedTransitions, CrawlStatus,
       TerminalStatuses

LEMMA PauseKillKeepsContract ==
  ASSUME Solo, ContractInv, NEW h \in Handlers, NEW r \in Runs,
         PauseLive(h) \/ PauseRevoke(h) \/ KillLive(h) \/ KillRevoke(h), KillLive(h) => AtRest'
  PROVE  AsPromised(r) /\ CopiesTell'
<1> USE DEF workerVars, envVars
<1>1. /\ hpc[h] = "loaded" /\ hrun[h] = r /\ hrow[h] \in Row /\ TypeOK
      /\ \A q \in Runs : q = r
      /\ \A g \in Handlers : hpc'[g] # "loaded"
  <2>1. hpc[h] = "loaded" /\ IdleHandler(h)
    BY DEF PauseLive, PauseRevoke, KillLive, KillRevoke
  <2>2. QED
    BY <2>1 DEF IdleHandler, Solo, ContractInv, SoloInv, TypeInv, TypeOK
<1>2. /\ db[r].status \in ActiveStatuses \cup {"completed", "failed"}
      /\ hop[h] = "pause" => hrow[h].status = "running" /\ db[r].status # "pending"
      /\ hop[h] = "kill" => hrow[h].status \in ActiveStatuses
  <2>1. db[r].status \notin {"absent", "killed", "proxy_exhausted"}
    BY <1>1 DEF ContractInv, CopiesTell, RequestCopies, NoneExhausted, SoloInv, SoloControl
  <2>2. db[r].status \in CrawlStatus \cup {"absent"}
    BY <1>1 DEF TypeOK, Row
  <2>3. QED
    BY <1>1, <2>1, <2>2 DEF CrawlStatus, TerminalStatuses, ContractInv, CopiesTell, RequestCopies
<1>3. CASE PauseLive(h)
  <2> DEFINE new == [hrow[h] EXCEPT !.ctrl = "pause"]
  <2>1. new \in Row
    BY <1>1, StatusNames, ChangedIsRow
  <2>2. new.status = hrow[h].status
    BY <1>1, ChangedColumns
  <2>3. HandlerCommit(h, new) /\ UNCHANGED <<wpc, wrun, wrow>>
    BY <1>3 DEF PauseLive
  <2> HIDE DEF new
  <2>4. db'[r].status = db[r].status
    BY <1>1, <2>1, <2>2, <2>3, HandlerCommitColumns
  <2>5. QED
    BY <1>1, <2>3, <2>4, Unmoved
<1>4. ASSUME NEW new \in Row, HandlerCommit(h, new), new.status \in {"paused", "killed"},
             new.status # hrow[h].status, new.status = "paused" => db[r].status # "pending",
             AtRest'
      PROVE  AsPromised(r) /\ CopiesTell'
  <2>1. db'[r].status = new.status
    BY <1>1, <1>4, HandlerCommitColumns
  <2>2. db[r].status \in {"completed", "failed"} => AtRest
    BY <1>1 DEF ContractInv, SoloInv, SoloTasks, TypeInv, AtRest, Working
  <2>3. NoneExhausted'
    BY <1>1, <1>4, <2>1 DEF NoneExhausted
  <2>4. QED
    BY <1>1, <1>2, <1>4, <2>1, <2>2, <2>3, OverruledOrRested, RestingTells
<1>5. CASE PauseRevoke(h)
  <2> DEFINE new == [hrow[h] EXCEPT !.status = "paused", !.task = FALSE]
  <2>1. new \in Row
    BY <1>1, StatusNames, ChangedIsRow
  <2>2. new.status = "paused"
    BY <1>1, ChangedColumns
  <2>3. HandlerCommit(h, new) /\ ~HasTask(r) /\ UNCHANGED wpc /\ hop[h] = "pause"
    BY <1>1, <1>5 DEF PauseRevoke
  <2>4. AtRest'
    BY <2>3, UnregisteredAtRest DEF AtRest, Working, ContractInv
  <2> HIDE DEF new
  <2>5. QED
    BY <1>2, <1>4, <2>1, <2>2, <2>3, <2>4
<1>6. CASE KillLive(h)
  <2> DEFINE new == [hrow[h] EXCEPT !.status = "killed", !.ctrl = "kill", !.task = FALSE]
  <2>1. new \in Row
    BY <1>1, StatusNames, ChangedIsRow
  <2>2. new.status = "killed"
    BY <1>1, ChangedColumns
  <2>3. HandlerCommit(h, new) /\ hop[h] = "kill" /\ AtRest'
    BY <1>1, <1>6 DEF KillLive
  <2>4. "killed" \notin ActiveStatuses
    BY DEF ActiveStatuses
  <2> HIDE DEF new
  <2>5. QED
    BY <1>2, <1>4, <2>1, <2>2, <2>3, <2>4
<1>7. CASE KillRevoke(h)
  <2> DEFINE new == [hrow[h] EXCEPT !.status = "killed", !.task = FALSE]
  <2>1. new \in Row
    BY <1>1, StatusNames, ChangedIsRow
  <2>2. new.status = "killed"
    BY <1>1, ChangedColumns
  <2>3. HandlerCommit(h, new) /\ ~HasTask(r) /\ UNCHANGED wpc /\ hop[h] = "kill"
    BY <1>1, <1>7 DEF KillRevoke
  <2>4. AtRest'
    BY <2>3, UnregisteredAtRest DEF AtRest, Working, ContractInv
  <2>5. "killed" \notin ActiveStatuses
    BY DEF ActiveStatuses
  <2> HIDE DEF new
  <2>6. QED
    BY <1>2, <1>4, <2>1, <2>2, <2>3, <2>4, <2>5
<1>8. QED
  BY <1>3, <1>5, <1>6, <1>7

LEMMA ResumeKeepsContract ==
  ASSUME Solo, ContractInv, NEW h \in Handlers, NEW r \in Runs, Resume(h)
  PROVE  AsPromised(r) /\ CopiesTell'
<1> DEFINE new == [hrow[h] EXCEPT !.status = "running", !.ctrl = "none", !.task = FALSE]
<1>1. /\ hpc[h] = "loaded" /\ hop[h] = "resume" /\ hrun[h] = r /\ hrow[h] \in Row /\ TypeOK
      /\ HandlerCommit(h, new) /\ UNCHANGED <<wpc, wrun, wrow>>
      /\ \A q \in Runs : q = r
      /\ \A g \in Handlers : hpc'[g] # "loaded"
  BY DEF Resume, workerVars, Solo, ContractInv, SoloInv, TypeInv, TypeOK
<1>2. AtRest /\ hrow[h].status = "paused" /\ db[r].status = "paused"
  BY <1>1 DEF ContractInv, CopiesTell, RequestCopies, SoloInv, SoloControl
<1>3. new \in Row
  BY <1>1, StatusNames, ChangedIsRow
<1>4. new.status = "running"
  BY <1>1, ChangedColumns
<1> HIDE DEF new
<1>5. db'[r].status = "running"
  BY <1>1, <1>2, <1>3, <1>4, HandlerCommitColumns
<1>6. AtRest'
  BY <1>1, <1>2 DEF AtRest, Working
<1>7. NoneExhausted'
  BY <1>1, <1>5 DEF NoneExhausted
<1>8. QED
  BY <1>1, <1>2, <1>5, <1>6, <1>7, RestingTells DEF AsPromised, Resumes

LEMMA ReclaimKeepsContract ==
  ASSUME Solo, ContractInv, NEW h \in Handlers, NEW r \in Runs, Reclaim(h)
  PROVE  AsPromised(r) /\ CopiesTell'
<1> DEFINE v == hvictim[h]
           new == Reclaimed(v)
<1>1. /\ AtRest /\ UNCHANGED wpc /\ v \in Victim /\ v.run = r /\ v.row.status = db[r].status
      /\ TypeOK /\ \A q \in Runs : q = r
      /\ \A g \in Handlers : hpc'[g] # "loaded"
  BY DEF Reclaim, ContractInv, SoloInv, SoloDispatch, DispatchPc, TypeInv, TypeOK, workerVars, Solo
<1>2. db' = IF new = v.row THEN db ELSE [db EXCEPT ![r] = Flush(@, v.row, new)]
  BY <1>1 DEF Reclaim
<1>3. v.row \in Row /\ new \in Row /\ db[r] \in Row
  BY <1>1, ReclaimedIsRow DEF TypeOK
<1>4. \/ new.status = v.row.status
      \/ v.row.status = "pending" /\ new.status = "killed"
      \/ v.row.status = "running" /\ new.status = "failed"
  <2>1. CASE v.row.status \in TerminalStatuses
    <3>1. v.row.status # v.status
      BY <1>1, <2>1 DEF Victim, TerminalStatuses
    <3>2. Reclaimed(v) = [v.row EXCEPT !.task = FALSE]
      BY <2>1, <3>1 DEF Reclaimed
    <3>3. QED
      BY <1>3, <3>2, ChangedColumns
  <2>2. CASE v.row.status \notin TerminalStatuses /\ v.row.status = v.status
    <3>1. v.status \in {"pending", "running"}
      BY <1>1, <1>3, <2>2 DEF Victim, Row, CrawlStatus, ActiveStatuses, TerminalStatuses
    <3>2. Reclaimed(v) = [v.row EXCEPT !.status = IF v.status = "pending" THEN "killed" ELSE "failed",
                                       !.task = FALSE]
      BY <2>2 DEF Reclaimed
    <3>3. new.status = IF v.status = "pending" THEN "killed" ELSE "failed"
      BY <1>3, <3>2, ChangedColumns
    <3>4. QED
      BY <2>2, <3>1, <3>3
  <2>3. CASE v.row.status \notin TerminalStatuses /\ v.row.status # v.status
    BY <2>3 DEF Reclaimed
  <2>4. QED
    BY <2>1, <2>2, <2>3
<1> HIDE DEF new
<1>5. db'[r].status = new.status
  <2>1. CASE new = v.row
    BY <1>1, <1>2, <2>1
  <2>2. CASE new # v.row
    <3>1. db'[r] = Flush(db[r], v.row, new)
      BY <1>2, <2>2, <1>1 DEF TypeOK
    <3>2. \A cur, old, nxt \in Row :
            /\ nxt.status = old.status => Flush(cur, old, nxt).status = cur.status
            /\ nxt.status # old.status => Flush(cur, old, nxt).status = nxt.status
      BY FlushColumns
    <3>3. QED
      BY <1>1, <1>3, <3>1, <3>2
  <2>3. QED
    BY <2>1, <2>2
<1>6. AtRest'
  BY <1>1 DEF AtRest, Working
<1>7. NoneExhausted'
  BY <1>1, <1>4, <1>5 DEF NoneExhausted, ContractInv, CopiesTell
<1>8. AsPromised(r)
  BY <1>1, <1>4, <1>5, <1>6
  DEF AsPromised, Keeps, Rests, ActiveStatuses, AllowedTransitions, CrawlStatus, TerminalStatuses
<1>9. QED
  BY <1>1, <1>6, <1>7, <1>8, RestingTells

LEMMA LaunchKeepsContract ==
  ASSUME Solo, ContractInv, SoloInv', NEW h \in Handlers, NEW r \in Runs, Launch(h)
  PROVE  AsPromised(r) /\ CopiesTell'
<1>1. PICK w \in Workers : wpc[w] = "idle" /\ wpc' = [wpc EXCEPT ![w] = "start"]
  BY DEF Launch, Goto
<1>2. /\ hpc[h] = "launch" /\ UNCHANGED <<db, wrow>> /\ hrun[h] = r
      /\ \A g \in Handlers : hpc'[g] # "loaded"
  BY DEF Launch, IdleHandler, Solo, ContractInv, SoloInv, TypeInv, TypeOK
<1>3. AtRest /\ db[r].status \in {"pending", "running"}
  BY <1>2 DEF ContractInv, SoloInv, SoloDispatch, DispatchPc
<1>4. wpc'[w] = "start" /\ \A u \in Workers : u # w => wpc'[u] = wpc[u]
  BY <1>1 DEF ContractInv, SoloInv, TypeInv, TypeOK
<1>5. ~AtRest' /\ \A u \in Workers : wpc'[u] \notin Copied
  BY <1>3, <1>4 DEF AtRest, Working, Copied
<1>6. QED
  BY <1>2, <1>3, <1>5
  DEF AsPromised, TakesUp, CopiesTell, TaskCopies, RequestCopies, NoneExhausted, ContractInv

LEMMA RequestKeepsContract ==
  ASSUME Solo, ContractInv, SoloInv', NEW h \in Handlers, NEW r \in Runs, HandlerStep(h),
         KillLive(h) => AtRest'
  PROVE  AsPromised(r) /\ CopiesTell'
<1>1. CASE RequestFails(h) \/ Sweep(h) \/ PickVictim(h) \/ SweepOver(h)
  <2>1. UNCHANGED <<db, wpc, wrun, wrow>>
    BY <1>1 DEF RequestFails, Sweep, PickVictim, SweepOver, workerVars
  <2>2. \A g \in Handlers : hpc'[g] # "loaded"
    BY <1>1 DEF RequestFails, Sweep, PickVictim, SweepOver, IdleHandler, Solo, ContractInv, SoloInv,
                TypeInv, TypeOK
  <2>3. QED
    BY <2>1, <2>2, Unmoved
<1>2. CASE Stamp(h)
  <2> DEFINE new == [hrow[h] EXCEPT !.task = TRUE]
  <2>1. /\ hrun[h] = r /\ hrow[h] \in Row /\ TypeOK /\ HandlerCommit(h, new)
        /\ UNCHANGED <<wpc, wrun, wrow>> /\ \A q \in Runs : q = r
        /\ \A g \in Handlers : hpc'[g] # "loaded"
    BY <1>2 DEF Stamp, workerVars, Solo, ContractInv, SoloInv, TypeInv, TypeOK
  <2>2. new \in Row
    BY <2>1, StatusNames, ChangedIsRow
  <2>3. new.status = hrow[h].status
    BY <2>1, ChangedColumns
  <2> HIDE DEF new
  <2>4. db'[r].status = db[r].status
    BY <2>1, <2>2, <2>3, HandlerCommitColumns
  <2>5. QED
    BY <2>1, <2>4, Unmoved
<1>3. QED
  BY <1>1, <1>2, PauseKillKeepsContract, ResumeKeepsContract, ReclaimKeepsContract,
     LaunchKeepsContract DEF HandlerStep

-----------------------------------------------------------------------------
(* The environment, and the theorem *)

LEMMA EnvironmentKeepsContract ==
  ASSUME Solo, ContractInv, SoloInv', NEW r \in Runs,
         \/ \E h \in Handlers : Boot(h)
         \/ \E h \in Handlers, q \in Runs :
               Create(h, q) \/ \E op \in {"pause", "resume", "kill"} : Begin(h, op, q)
         \/ \E q \in Runs : Age(q)
         \/ Crash
  PROVE  AsPromised(r) /\ CopiesTell'
<1>0. \A q \in Runs : q = r
  BY DEF Solo
<1>1. CASE \E h \in Handlers : Boot(h)
  <2>1. /\ UNCHANGED <<db, wpc, wrun, wrow>>
        /\ \A g \in Handlers : hpc'[g] # "loaded"
    BY <1>1 DEF Boot, workerVars, Solo, ContractInv, SoloInv, TypeInv, TypeOK
  <2>2. QED
    BY <2>1, Unmoved
<1>2. ASSUME NEW h \in Handlers, Create(h, r)
      PROVE  AsPromised(r) /\ CopiesTell'
  <2>1. /\ db[r].status = "absent" /\ db'[r].status = "pending" /\ UNCHANGED wpc
        /\ \A g \in Handlers : hpc'[g] # "loaded"
    BY <1>2 DEF Create, Absent, workerVars, Solo, ContractInv, SoloInv, TypeInv, TypeOK
  <2>2. AtRest
    BY <1>0, <2>1 DEF AtRest, Working, ContractInv, SoloInv, SoloTasks, TypeInv
  <2>3. AtRest' /\ NoneExhausted'
    BY <1>0, <2>1, <2>2 DEF AtRest, Working, NoneExhausted
  <2>4. QED
    BY <2>1, <2>2, <2>3, RestingTells DEF AsPromised, Creates
<1>3. ASSUME NEW h \in Handlers, NEW op \in {"pause", "resume", "kill"}, Begin(h, op, r)
      PROVE  AsPromised(r) /\ CopiesTell'
  <2>1. /\ hpc'[h] = "loaded" /\ hop'[h] = op /\ hrun'[h] = r /\ hrow'[h] = db[r]
        /\ Accepts(op, db[r]) /\ UNCHANGED <<db, wpc, wrun, wrow>>
    BY <1>3 DEF Begin, workerVars, ContractInv, SoloInv, TypeInv, TypeOK
  <2>2. TaskCopies' /\ NoneExhausted' /\ (AtRest' <=> AtRest)
    BY <2>1 DEF ContractInv, CopiesTell, TaskCopies, NoneExhausted, AtRest, Working
  <2>3. RequestCopies'
    BY <2>1 DEF RequestCopies, Accepts, ActiveStatuses, Solo
  <2>4. QED
    BY <2>1, <2>2, <2>3 DEF CopiesTell, AsPromised, Keeps
<1>4. CASE Age(r)
  <2>1. db[r] \in Row /\ [db[r] EXCEPT !.beat = "stale"].status = db[r].status
    BY DEF ContractInv, SoloInv, TypeInv, TypeOK, Row
  <2>2. /\ db' = [db EXCEPT ![r] = [db[r] EXCEPT !.beat = "stale"]]
        /\ UNCHANGED <<wpc, wrun, wrow>> /\ \A g \in Handlers : hpc'[g] # "loaded"
    BY <1>4 DEF Age, workerVars, handlerVars
  <2>3. \A q \in Runs : db'[q].status = db[q].status
    BY <2>1, <2>2 DEF ContractInv, SoloInv, TypeInv, TypeOK
  <2>4. QED
    BY <2>2, <2>3, Unmoved
<1>5. CASE Crash
  <2>1. /\ UNCHANGED db /\ \A w \in Workers : wpc'[w] = "idle"
        /\ \A g \in Handlers : hpc'[g] # "loaded"
    BY <1>5 DEF Crash
  <2>2. AtRest' /\ NoneExhausted'
    BY <2>1 DEF AtRest, Working, ContractInv, CopiesTell, NoneExhausted
  <2>3. QED
    BY <2>1, <2>2, RestingTells DEF AsPromised, Keeps
<1>6. QED
  BY <1>0, <1>1, <1>2, <1>3, <1>4, <1>5

(* The invariant of the refinement, with what a swallowed kill leaves. *)
ContractLife == (ContractInv /\ survivors = {}) \/ Aftermath

LEMMA ContractInit == Init => ContractLife /\ Contract!Init
<1> SUFFICES ASSUME Init PROVE ContractLife /\ Contract!Init
  OBVIOUS
<1>1. SoloInv /\ survivors = {}
  BY SoloInit DEF Init
<1>2. /\ \A w \in Workers : wpc[w] = "idle"
      /\ \A h \in Handlers : hpc[h] = "idle"
      /\ \A r \in Runs : db[r].status = "absent"
  BY DEF Init, Absent
<1>3. CopiesTell
  BY <1>2 DEF CopiesTell, TaskCopies, RequestCopies, NoneExhausted, Copied
<1>4. Contract!Init
  BY <1>2 DEF Contract!Init, Working, Serving
<1>5. QED
  BY <1>1, <1>3, <1>4 DEF ContractInv, ContractLife

(* A kill the task does not learn of. *)
LEMMA SwallowedIsOutlive ==
  ASSUME Solo, ContractInv, survivors = {}, NEW r \in Runs, NEW h \in Handlers, KillLive(h), Aftermath',
         NEW w \in Workers, Working(w), Working(w)', survivors' = {w}, UNCHANGED wrun
  PROVE  Contract!Outlive(r)
<1>1. Runs = {r} /\ wrun[w] = r /\ wrun'[w] = r
  BY DEF Solo, ContractInv, SoloInv, TypeInv, Working
<1>2. Crawled = {r} /\ Outlived = {}
  BY <1>1, CrawledIsWork DEF AtRest, ContractInv, SoloInv
<1>3. Crawled' = {} /\ Outlived' = {r}
  <2>1. \A v \in Workers : ~Serving(v)'
    BY DEF Serving, Aftermath
  <2>2. Crawled' = {}
    BY <2>1 DEF Crawled
  <2>3. Outlived' = {r}
    BY <1>1 DEF Outlived
  <2>4. QED
    BY <2>2, <2>3
<1>4. /\ Statuses[r] = db[r].status /\ Statuses' = [Statuses EXCEPT ![r] = "killed"]
  BY <1>1 DEF Statuses, Aftermath
<1>5. db[r].status \in {"pending", "running"}
  BY <1>1 DEF ContractInv, SoloInv, SoloTasks
<1>6. "killed" \in Contract!AllowedTransitions[db[r].status]
  BY <1>5 DEF Contract!AllowedTransitions, Contract!CrawlStatus, Contract!TerminalStatuses,
     Contract!ActiveStatuses
<1>7. QED
  BY <1>2, <1>3, <1>4, <1>6 DEF Contract!Outlive, Statuses, Crawled, Outlived

LEMMA SoundStep ==
  ASSUME Solo, ContractInv, survivors = {}, Next, NEW r \in Runs,
         SoloInv', survivors' = {}, \A h \in Handlers : KillLive(h) => AtRest'
  PROVE  ContractLife' /\ [Contract!Next]_(Contract!vars)
<1>1. AsPromised(r) /\ CopiesTell'
  BY TaskKeepsContract, RequestKeepsContract, EnvironmentKeepsContract DEF Next
<1>2. QED
  BY <1>1, PromiseIsStep DEF ContractInv, ContractLife, SoloInv

LEMMA AftermathKeepsContract ==
  ASSUME Solo, Aftermath, [Next]_vars
  PROVE  ContractLife' /\ [Contract!Next]_(Contract!vars)
<1>1. /\ \/ Aftermath'
         \/ SoloInv' /\ AtRest' /\ survivors' = {} /\ \A h \in Handlers : hpc'[h] = "idle"
      /\ \A r \in Runs : db'[r].status = "killed"
      /\ \A w \in Workers : Working(w)' => Working(w) /\ wrun'[w] = wrun[w]
      /\ survivors' \subseteq survivors
  BY AftermathStep
<1>2. ContractLife'
  <2>1. ASSUME SoloInv', AtRest', survivors' = {}, \A h \in Handlers : hpc'[h] = "idle"
        PROVE  ContractLife'
    <3>1. NoneExhausted'
      BY <1>1 DEF NoneExhausted
    <3>2. CopiesTell'
      BY <2>1, <3>1, RestingTells
    <3>3. QED
      BY <2>1, <3>2 DEF ContractLife, ContractInv
  <2>2. QED
    BY <1>1, <2>1 DEF ContractLife
<1>3. Statuses' = Statuses
  BY <1>1 DEF Statuses, Aftermath
<1>4. Crawled' = {}
  <2>1. \A w \in Workers : ~Serving(w)'
    BY <1>1 DEF Serving, Aftermath, AtRest
  <2>2. QED
    BY <2>1 DEF Crawled
<1>5. Outlived' \subseteq Outlived
  BY <1>1 DEF Outlived
<1>6. Contract!Abandon
  BY <1>3, <1>4, <1>5 DEF Contract!Abandon, Statuses, Crawled, Outlived
<1>7. QED
  BY <1>2, <1>6 DEF Contract!Next

LEMMA ContractStep ==
  ASSUME Solo, ContractLife, [Next]_vars
  PROVE  ContractLife' /\ [Contract!Next]_(Contract!vars)
<1>1. CASE Aftermath
  BY <1>1, AftermathKeepsContract
<1>2. CASE UNCHANGED vars /\ ContractInv /\ survivors = {}
  <2>1. SoloInv' /\ survivors' = {}
    <3>1. TypeInv'
      BY <1>2, TypeStep DEF ContractInv, SoloInv
    <3>2. QED
      BY <1>2, <3>1 DEF ContractInv, SoloInv, SoloTasks, SoloRows, SoloControl, SoloCopies,
         SoloDispatch, SoloDown, AtRest, Working, Copied, DispatchPc, vars, workerVars, handlerVars,
         envVars
  <2>2. CopiesTell'
    BY <1>2 DEF vars, workerVars, handlerVars, ContractInv, CopiesTell, TaskCopies, RequestCopies,
                NoneExhausted, Copied
  <2>3. UNCHANGED Contract!vars
    BY <1>2 DEF vars, workerVars, Contract!vars, Working, Serving
  <2>4. QED
    BY <2>1, <2>2, <2>3 DEF ContractInv, ContractLife
<1>3. ASSUME Next, ContractInv, survivors = {}, NEW h \in Handlers, KillLive(h)
      PROVE  ContractLife' /\ [Contract!Next]_(Contract!vars)
  <2>1. PICK r \in Runs : r = hrun[h]
    BY <1>3 DEF KillLive, ContractInv, SoloInv, TypeInv
  <2>2. CASE SoloInv' /\ AtRest' /\ survivors' = {}
    <3>1. \A g \in Handlers : KillLive(g) => AtRest'
      BY <2>2
    <3>2. QED
      BY <1>3, <2>2, <3>1, SoundStep
  <2>3. ASSUME Aftermath', NEW w \in Workers, Working(w), Working(w)', survivors' = {w}, UNCHANGED wrun
        PROVE  ContractLife' /\ [Contract!Next]_(Contract!vars)
    <3>1. Contract!Outlive(r)
      BY <1>3, <2>3, SwallowedIsOutlive
    <3>2. QED
      BY <2>3, <3>1 DEF ContractLife, Contract!Next
  <2>4. QED
    BY <1>3, <2>2, <2>3, KillLeaves DEF ContractInv
<1>4. ASSUME Next, ContractInv, survivors = {}, \A h \in Handlers : ~KillLive(h)
      PROVE  ContractLife' /\ [Contract!Next]_(Contract!vars)
  <2>1. SoloInv' /\ survivors' = {}
    BY <1>4, SoloStep DEF ContractInv
  <2>2. ASSUME NEW r \in Runs PROVE ContractLife' /\ [Contract!Next]_(Contract!vars)
    BY <1>4, <2>1, <2>2, SoundStep
  <2>3. CASE Runs = {}
    <3>1. UNCHANGED Contract!vars
      BY <2>3 DEF Contract!vars
    <3>2. (\A w \in Workers : ~Working(w)') /\ \A h \in Handlers : hpc'[h] # "loaded"
      BY <2>1, <2>3 DEF SoloInv, TypeInv, Working
    <3>3. CopiesTell'
      BY <2>3, <3>2 DEF CopiesTell, TaskCopies, RequestCopies, NoneExhausted, Working, Copied
    <3>4. QED
      BY <2>1, <3>1, <3>3 DEF ContractInv, ContractLife
  <2>4. QED
    BY <2>2, <2>3
<1>5. QED
  BY <1>1, <1>2, <1>3, <1>4 DEF ContractLife

(* One run driven by one request at a time keeps RunContract: whatever crashes,
   faults, sweeps and stale copies do, its status moves by the transition table,
   it is taken up only while active, and rest and the end of work are one step,
   unless a kill is swallowed: then the crawl goes on, of a run that stays KILLED. *)
THEOREM SoloKeepsContract ==
  ASSUME Solo
  PROVE  Spec => KeepsContract
<1>1. ContractLife /\ [Next]_vars => ContractLife' /\ [Contract!Next]_(Contract!vars)
  BY ContractStep
<1>2. QED
  BY <1>1, ContractInit, PTL DEF Spec, KeepsContract, Contract!Spec
=============================================================================
