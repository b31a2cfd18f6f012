--------------------------- MODULE UrlCrawl_proofs ---------------------------
(***************************************************************************)
(* The five claims about a run's URLs, for any number of URLs, any pages   *)
(* and any records.  Each rests on an invariant of its own: SessionInv on  *)
(* what the task's session holds and is not committed, PassInv on the      *)
(* verdicts of a pass over the list, GuardInv on pages that show a         *)
(* challenge, SeenInv on the rows the upsert has seen, CountInv on the     *)
(* rows that are not counted yet.                                          *)
(***************************************************************************)
EXTENDS UrlCrawl, SequenceTheorems, FiniteSetTheorems, TLAPS

Shape == flushed = [rows |-> flushed.rows, contract |-> flushed.contract]

Committed == flushed.rows = rows /\ flushed.contract = contract

Uncommitted ==
  \/ pc \in {"learn", "result"} /\ result.verdict # "error"
  \/ pc \in {"upsert", "duplicate", "failed"}

Learnable == pc = "learn" => result.verdict # "error"

SessionInv == Shape /\ Learnable /\ (Committed \/ Uncommitted)

(* A verdict that compute_verdict returns is never "error", which only
   _recover_url_failure assigns. *)
LEMMA VerdictNotError == \A p, n : ComputeVerdict(p, n) # "error"
  BY DEF ComputeVerdict

(* What a commit of the session leaves: nothing outstanding. *)
LEMMA CommitClean ==
  ASSUME NEW s, Commit(s)
  PROVE  Shape' /\ Committed'
  BY DEF Commit, Clean, Shape, Committed

(* Whatever changes neither the session, nor what is committed, nor step and
   result keeps the invariant. *)
LEMMA SessionKept ==
  ASSUME SessionInv, UNCHANGED <<flushed, rows, contract>>,
         pc' # "learn", Committed \/ Uncommitted'
  PROVE  SessionInv'
  BY DEF SessionInv, Shape, Learnable, Committed, Uncommitted

LEMMA InitSession == Init => SessionInv
  BY DEF Init, SessionInv, Shape, Learnable, Committed

(* Every step of the task keeps the invariant. *)
LEMMA TaskSession ==
  ASSUME SessionInv, Task
  PROVE  SessionInv'
<1>1. CASE Open
  BY <1>1, CommitClean DEF Open, SessionInv, Learnable, Goto
<1>2. CASE ObeyPause
  BY <1>2, CommitClean DEF ObeyPause, SessionInv, Learnable, Goto
<1>3. CASE BeginUrl
  BY <1>3, CommitClean DEF BeginUrl, SessionInv, Learnable, Goto
<1>4. CASE RobotsBlocked
  <2>1. Committed  BY <1>4 DEF RobotsBlocked, SessionInv, Uncommitted
  <2>2. UNCHANGED <<flushed, rows, contract>>  BY <1>4 DEF RobotsBlocked, dbVars
  <2>3. pc' # "learn"  BY <1>4 DEF RobotsBlocked, Goto
  <2>. QED  BY <2>1, <2>2, <2>3, SessionKept
<1>5. CASE Acquire
  BY <1>5, CommitClean DEF Acquire, SessionInv, Learnable, Goto
<1>6. CASE RetryEmpty \/ RetryLowQuality \/ NoBrowserRetry \/ RetryShell
  <2>1. Committed
    BY <1>6 DEF RetryEmpty, RetryLowQuality, NoBrowserRetry, RetryShell, SessionInv, Uncommitted
  <2>2. UNCHANGED <<flushed, rows, contract>>
    BY <1>6 DEF RetryEmpty, RetryLowQuality, NoBrowserRetry, RetryShell, dbVars
  <2>3. pc' # "learn"
    BY <1>6 DEF RetryEmpty, RetryLowQuality, NoBrowserRetry, RetryShell, Goto
  <2>. QED  BY <2>1, <2>2, <2>3, SessionKept
<1>7. CASE Guard
  BY <1>7, CommitClean DEF Guard, SessionInv, Learnable, Goto
<1>8. CASE Persist
  <2>1. CASE LookUp
    BY <2>1, SessionKept DEF LookUp, dbVars, Goto, Uncommitted
  <2>2. CASE Rewrite \/ SkipRecord \/ Insert
    <3>1. /\ UNCHANGED <<rows, contract>> /\ pc = "upsert" /\ pc' = "upsert"
          /\ flushed' = flushed \/ \E k, c : flushed' = [flushed EXCEPT !.rows[k] = c]
      BY <2>2 DEF Rewrite, SkipRecord, Insert, Storing, Stays, dbVars
    <3>2. Shape'
      BY <3>1 DEF SessionInv, Shape
    <3>. QED  BY <3>1, <3>2 DEF SessionInv, Learnable, Uncommitted
  <2>3. CASE InsertRefused
    BY <2>3, SessionKept DEF InsertRefused, Stays, dbVars, Goto, Uncommitted
  <2>4. CASE Persisted
    <3>1. UNCHANGED <<flushed, rows, contract>> /\ pc' = "learn" /\ result'.verdict # "error"
      BY <2>4, VerdictNotError DEF Persisted, dbVars, Goto
    <3>. QED  BY <3>1 DEF SessionInv, Shape, Learnable, Uncommitted
  <2>. QED  BY <1>8, <2>1, <2>2, <2>3, <2>4 DEF Persist
<1>9. CASE Learn
  <2>1. flushed' = [flushed EXCEPT !.contract = ContractOutcome(@, page, result)]
    BY <1>9 DEF Learn
  <2>2. /\ UNCHANGED <<rows, contract, result>>
        /\ pc = "learn" /\ pc' = "result"
    BY <1>9 DEF Learn, dbVars, Goto
  <2>3. Shape'  BY <2>1 DEF SessionInv, Shape
  <2>. QED  BY <2>2, <2>3 DEF SessionInv, Learnable, Uncommitted
<1>10. CASE UrlFails
  <2>1. UNCHANGED <<flushed, rows, contract>> /\ Uncommitted' /\ pc' # "learn"
    BY <1>10 DEF UrlFails, dbVars, Goto, Uncommitted
  <2>. QED  BY <2>1, SessionKept
<1>11. CASE Recover
  BY <1>11 DEF Recover, SessionInv, Shape, Learnable, Committed, dbVars, Goto
<1>12. CASE Record
  BY <1>12, CommitClean DEF Record, SessionInv, Learnable, Goto
<1>13. CASE Complete
  BY <1>13, CommitClean DEF Complete, SessionInv, Learnable, Goto
<1>14. CASE RunFails
  BY <1>14 DEF RunFails, SessionInv, Shape, Learnable, Committed, Goto
<1>. QED
  BY <1>1, <1>2, <1>3, <1>4, <1>5, <1>6, <1>7, <1>8, <1>9, <1>10, <1>11, <1>12, <1>13, <1>14
  DEF Task

(* Requests write the summary and the status only; Resume finds the task idle. *)
LEMMA RequestSession ==
  ASSUME SessionInv, PauseLoads \/ PauseCommits \/ Resume
  PROVE  SessionInv'
<1>1. CASE PauseLoads \/ PauseCommits
  BY <1>1 DEF PauseLoads, PauseCommits, dbVars, taskVars, SessionInv, Shape, Learnable,
              Committed, Uncommitted
<1>2. CASE Resume
  <2>1. UNCHANGED <<flushed, rows, contract>> /\ pc = "idle" /\ pc' = "start"
    BY <1>2 DEF Resume, Goto
  <2>2. Committed  BY <2>1 DEF SessionInv, Uncommitted
  <2>. QED  BY <2>1, <2>2, SessionKept
<1>. QED  BY <1>1, <1>2

LEMMA NextSession == SessionInv /\ [Next]_vars => SessionInv'
<1>. SUFFICES ASSUME SessionInv, [Next]_vars PROVE SessionInv'
  OBVIOUS
<1>1. CASE UNCHANGED vars
  BY <1>1 DEF vars, dbVars, taskVars, SessionInv, Shape, Learnable, Committed, Uncommitted
<1>2. CASE Next
  BY <1>2, TaskSession, RequestSession DEF Next
<1>. QED  BY <1>1, <1>2

(* A commit that changes something is one of a session that is not Committed, so
   of a step that finds a result that is not an error. *)
LEMMA StepLeavesNothing ==
  ASSUME SessionInv, [Next]_vars, <<rows, contract>>' # <<rows, contract>>
  PROVE  pc = "result" /\ result.verdict # "error"
<1>1. flushed.rows # rows \/ flushed.contract # contract => Uncommitted
  BY DEF SessionInv, Committed
<1>2. \A s : Commit(s) => rows' = flushed.rows /\ contract' = flushed.contract
  BY DEF Commit
<1>3. CASE UNCHANGED vars
  BY <1>3 DEF vars, dbVars
<1>4. CASE Open \/ ObeyPause \/ BeginUrl \/ Acquire \/ Guard \/ Record \/ Complete
  BY <1>1, <1>2, <1>4
  DEF Open, ObeyPause, BeginUrl, Acquire, Guard, Record, Complete, Uncommitted
<1>5. CASE RobotsBlocked \/ RetryEmpty \/ RetryLowQuality \/ NoBrowserRetry \/ RetryShell
  BY <1>5 DEF RobotsBlocked, RetryEmpty, RetryLowQuality, NoBrowserRetry, RetryShell, dbVars
<1>6. CASE Persist \/ Learn \/ UrlFails \/ Recover \/ RunFails
  BY <1>6 DEF Persist, LookUp, Rewrite, SkipRecord, Insert, InsertRefused, Persisted, Stays,
              Learn, UrlFails, Recover, RunFails, dbVars
<1>7. CASE PauseLoads \/ PauseCommits \/ Resume
  BY <1>7 DEF PauseLoads, PauseCommits, Resume, dbVars
<1>. QED  BY <1>3, <1>4, <1>5, <1>6, <1>7 DEF Next, Task

(* A URL that timed out or failed leaves neither rows nor a contract outcome
   behind: both change only in the commit of a result that is no error, for any
   NumUrls, Yields and pauses (_recover_url_failure, process_run). *)
THEOREM ErrorsLeaveNothing == Spec => ErrorLeavesNothing
<1>1. SessionInv /\ [Next]_vars =>
        [<<rows, contract>>' # <<rows, contract>> =>
            pc = "result" /\ result.verdict # "error"]_vars
  BY StepLeavesNothing
<1>. QED  BY InitSession, NextSession, <1>1, PTL DEF Spec, ErrorLeavesNothing
-----------------------------------------------------------------------------
(* The types that the other claims need.                                     *)

Result   == [verdict: Verdict, count: Nat]
Records  == Seq([url: RecordUrls, content: Contents])
WebPage  == [via: {"http", "patchright", "real_chrome"},
             evidence: {"clear", "suspect", "blocked"}, yield: Records]
Rows     == [RecordUrls -> Contents \cup {NoRow}]
Contract == [learned: BOOLEAN, failures: Nat, stale: BOOLEAN]
Session  == [rows: Rows, contract: Contract]
Loop     == [next: Nat \ {0}, existing: SUBSET RecordUrls, seen: SUBSET RecordUrls, count: Nat]

Types ==
  /\ summary \in Summary /\ copy \in Summary /\ request.copy \in Summary
  /\ state \in Progress /\ idx \in Nat
  /\ page \in WebPage /\ result \in Result /\ loop \in Loop
  /\ rows \in Rows /\ contract \in Contract /\ flushed \in Session

(* A pass over the list: a verdict for every URL before the one in hand, unless
   max_records ended it early. *)
OnPass == pc \notin {"idle", "start"}

PassInv ==
  /\ OnPass => /\ idx \in 1 .. NumUrls + 1 /\ (pc # "top" => idx <= NumUrls)
               /\ Len(state.verdicts) <= NumUrls
               /\ \/ Len(state.verdicts) >= idx - 1
                  \/ idx = NumUrls + 1 /\ state.count >= MaxRecords
  /\ status = "completed" => pc = "idle"

(* From the guard on a detail page is clear or blocked, and the session holds
   another contract than the committed one only until its result is recorded,
   and only after a clear page. *)
GuardInv ==
  /\ pc \in {"persist", "upsert", "learn"} /\ Detail => page.evidence # "suspect"
  /\ flushed.contract # contract => pc = "result" /\ (Detail => page.evidence = "clear")

(* The rows of the page's URLs that are there have been seen. *)
SeenInv ==
  /\ pc = "upsert" => \A i \in DOMAIN page.yield :
         flushed.rows[page.yield[i].url] # NoRow => page.yield[i].url \in loop.seen
  /\ DuplicateOnlyByCanonicalUrl

(* The rows of the session exceed the committed ones by no more than the count
   it has still to record; the task's counters are the committed ones until a
   request writes an outdated summary back. *)
StoredIn(r) == {u \in RecordUrls : r[u] # NoRow}

Owed == IF pc = "upsert" THEN loop.count
        ELSE IF pc \in {"learn", "result"} THEN result.count ELSE 0

CountInv ==
  /\ IsFiniteSet(StoredIn(rows)) /\ IsFiniteSet(StoredIn(flushed.rows))
  /\ pc \notin {"failed", "duplicate"} =>
       Cardinality(StoredIn(flushed.rows)) <= Cardinality(StoredIn(rows)) + Owed
  /\ ~lost => /\ OnPass => summary.progress = state /\ copy.progress = state
              /\ Cardinality(StoredIn(rows)) <= summary.progress.count

LEMMA FromSummaryKeeps ==
  ASSUME NEW p \in Progress
  PROVE  /\ FromSummary(p) \in Progress /\ FromSummary(p).count = p.count
         /\ Len(FromSummary(p).verdicts) <= NumUrls
<1>. DEFINE n == IF Len(p.verdicts) < NumUrls THEN Len(p.verdicts) ELSE NumUrls
            kept == SubSeq(p.verdicts, 1, n)
            done == IF p.completed < NumUrls THEN p.completed ELSE NumUrls
            c == IF kept = <<>> THEN done ELSE Len(kept)
<1>1. p.verdicts \in Seq(Verdict) /\ p.completed \in Nat /\ NumUrls \in Nat
  BY CrawlAssumption DEF Progress
<1>2. n \in 0 .. Len(p.verdicts) /\ n <= NumUrls
  BY <1>1
<1>3. kept \in Seq(Verdict) /\ Len(kept) = n
  BY <1>1, <1>2
<1>4. c \in Nat
  BY <1>1, <1>2, <1>3
<1>5. FromSummary(p) = [p EXCEPT !.verdicts = kept, !.completed = c]
  BY DEF FromSummary
<1>. HIDE DEF n, kept, c
<1>6. [p EXCEPT !.verdicts = kept, !.completed = c] \in Progress
  BY <1>3, <1>4 DEF Progress
<1>7. /\ [p EXCEPT !.verdicts = kept, !.completed = c].count = p.count
      /\ [p EXCEPT !.verdicts = kept, !.completed = c].verdicts = kept
  BY DEF Progress
<1>. QED  BY <1>2, <1>3, <1>5, <1>6, <1>7

(* record_url_result: a verdict for URL i, in its place or after the others. *)
LEMMA RecordResultKeeps ==
  ASSUME NEW p \in Progress, NEW i \in Nat \ {0}, NEW r \in Result
  PROVE  /\ RecordResult(p, i, r) \in Progress
         /\ RecordResult(p, i, r).count = p.count + r.count
         /\ Len(RecordResult(p, i, r).verdicts) =
              IF i <= Len(p.verdicts) THEN Len(p.verdicts) ELSE Len(p.verdicts) + 1
<1>. DEFINE new == IF i <= Len(p.verdicts) THEN [p.verdicts EXCEPT ![i] = r.verdict]
                   ELSE Append(p.verdicts, r.verdict)
<1>1. p.verdicts \in Seq(Verdict) /\ r.verdict \in Verdict /\ r.count \in Nat /\ p.count \in Nat
      /\ p.completed \in Nat
  BY DEF Progress, Result
<1>2. new \in Seq(Verdict)
      /\ Len(new) = IF i <= Len(p.verdicts) THEN Len(p.verdicts) ELSE Len(p.verdicts) + 1
  <2>1. CASE i <= Len(p.verdicts)
    <3>1. i \in 1 .. Len(p.verdicts)
      BY <1>1, <2>1
    <3>. QED  BY <1>1, <2>1, <3>1, ExceptSeq
  <2>2. CASE i > Len(p.verdicts)
    BY <1>1, <2>2
  <2>. QED  BY <1>1, <2>1, <2>2
<1>3. RecordResult(p, i, r) =
        [count |-> p.count + r.count, completed |-> p.completed + 1, verdicts |-> new]
  BY DEF RecordResult
<1>. HIDE DEF new
<1>. QED  BY <1>1, <1>2, <1>3 DEF Progress

LEMMA PagesTyped == Page \subseteq WebPage /\ NoPage \in WebPage /\ NoResult \in Result
<1>1. Yields \subseteq Records /\ <<>> \in Records
  <2>1. <<>> \in Records
    BY DEF Records
  <2>2. Yields \subseteq Records
    BY CrawlAssumption, Zenon DEF Records
  <2>. QED  BY <2>1, <2>2
<1>2. Page \subseteq WebPage /\ NoPage \in WebPage
  BY <1>1 DEF Page, WebPage, NoPage
<1>. QED  BY <1>2 DEF NoResult, Result, Verdict

(* What the guard lets through: on a detail page a challenge counts as a block. *)
LEMMA GuardedTyped ==
  ASSUME NEW p \in WebPage, NEW q \in GuardedPages(p)
  PROVE  q \in WebPage /\ (Detail => q.evidence # "suspect")
<1>1. <<>> \in Records
  BY DEF Records
<1>2. CASE q = p /\ (Detail => ~ChallengeShell(p))
  BY <1>2 DEF ChallengeShell
<1>3. CASE q = Rejected(p)
  <2>1. PICK e \in {"clear", "blocked"} : q = [p EXCEPT !.yield = <<>>, !.evidence = e]
    BY <1>3 DEF Rejected, ChallengeShell, WebPage
  <2>. QED  BY <1>1, <2>1 DEF WebPage
<1>. QED  BY <1>2, <1>3 DEF GuardedPages

LEMMA CommitTyped ==
  ASSUME Types, NEW new \in Summary, Commit(new)
  PROVE  /\ summary' = new /\ copy' = new /\ rows' = flushed.rows /\ contract' = flushed.contract
         /\ rows' \in Rows /\ contract' \in Contract /\ flushed' \in Session
         /\ flushed'.rows = rows' /\ flushed'.contract = contract'
BY DEF Types, Commit, Clean, Session

LEMMA OutcomeTyped ==
  ASSUME NEW c \in Contract, NEW p, NEW r
  PROVE  ContractOutcome(c, p, r) \in Contract
<1>1. [learned |-> TRUE, failures |-> 0, stale |-> FALSE] \in Contract
  BY DEF Contract
<1>2. \A b \in BOOLEAN : [c EXCEPT !.failures = @ + 1, !.stale = b] \in Contract
  <2>1. c.failures + 1 \in Nat
    BY DEF Contract
  <2>2. \A n \in Nat, b \in BOOLEAN : [c EXCEPT !.failures = n, !.stale = b] \in Contract
    BY DEF Contract
  <2>. QED  BY <2>1, <2>2
<1>3. (c.failures + 1 >= Threshold) \in BOOLEAN
  OBVIOUS
<1>. QED  BY <1>1, <1>2, <1>3 DEF ContractOutcome

LEMMA KeyTyped ==
  ASSUME Types, Storing
  PROVE  /\ Key \in RecordUrls /\ Content \in Contents /\ loop.next \in DOMAIN page.yield
         /\ Key = Identity(page.yield[loop.next])
<1>1. page.yield \in Records /\ loop.next \in Nat \ {0}
  BY DEF Types, WebPage, Loop
<1>2. loop.next \in 1 .. Len(page.yield)
  BY <1>1 DEF Storing, Records
<1>3. page.yield[loop.next] \in [url: RecordUrls, content: Contents]
  BY <1>1, <1>2, ElementOfSeq DEF Records
<1>4. \A u \in RecordUrls : Canonical(u) \in RecordUrls
  BY CrawlAssumption
<1>5. Key \in RecordUrls /\ Content \in Contents
  BY <1>3, <1>4 DEF Key, Content, Identity
<1>. QED  BY <1>1, <1>2, <1>5 DEF Key, Records

LEMMA InitTyped == Init => Types
<1>. SUFFICES ASSUME Init PROVE Types
  OBVIOUS
<1>1. NoProgress \in Progress
  BY DEF NoProgress, Progress
<1>2. summary \in Summary /\ NoRequest.copy \in Summary
  BY <1>1 DEF Init, Summary, NoRequest
<1>3. contract \in Contract
  <2>1. Unlearned \in Contract /\ [Unlearned EXCEPT !.learned = TRUE] \in Contract
    BY DEF Unlearned, Contract
  <2>. QED  BY <2>1 DEF Init
<1>4. rows \in Rows /\ flushed \in Session
  BY <1>3 DEF Init, Rows, Session
<1>5. loop \in Loop
  BY DEF Init, NoLoop, Loop
<1>. QED  BY <1>1, <1>2, <1>3, <1>4, <1>5, PagesTyped DEF Init, Types

(* Steps that commit. *)
LEMMA CommittingTyped ==
  ASSUME Types, Open \/ ObeyPause \/ BeginUrl \/ Acquire \/ Guard \/ Record \/ Complete,
         idx \in Nat \ {0} \/ Open
  PROVE  Types'
<1>. USE DEF Quiet
<1>1. CASE Open
  <2>1. /\ state' = FromSummary(summary.progress) /\ idx' = 1
        /\ Commit([summary EXCEPT !.progress = state'])
        /\ UNCHANGED <<page, result, loop, request>>
    BY <1>1 DEF Open
  <2>2. summary.progress \in Progress
    BY DEF Types, Summary
  <2>3. state' \in Progress /\ [summary EXCEPT !.progress = state'] \in Summary
    BY <2>1, <2>2, FromSummaryKeeps DEF Types, Summary
  <2>. QED  BY <2>1, <2>3, CommitTyped DEF Types
<1>2. CASE ObeyPause
  <2>1. /\ Commit([summary EXCEPT !.ctrl = "none"])
        /\ UNCHANGED <<idx, page, result, state, loop, request>>
    BY <1>2 DEF ObeyPause
  <2>2. [summary EXCEPT !.ctrl = "none"] \in Summary
    BY DEF Types, Summary
  <2>. QED  BY <2>1, <2>2, CommitTyped DEF Types
<1>3. CASE BeginUrl
  BY <1>3, CommitTyped DEF BeginUrl, Types
<1>4. CASE Acquire
  <2>1. page' \in WebPage
    BY <1>4, PagesTyped DEF Acquire
  <2>. QED  BY <1>4, <2>1, CommitTyped DEF Acquire, Types
<1>5. CASE Guard
  <2>1. page' \in WebPage
    BY <1>5, GuardedTyped DEF Guard, Types
  <2>. QED  BY <1>5, <2>1, CommitTyped DEF Guard, Types
<1>6. CASE Record
  <2>1. /\ state' = RecordResult(state, idx, result) /\ page' = NoPage /\ result' = NoResult
        /\ Commit([copy EXCEPT !.progress = state'])
        /\ idx' \in {NumUrls + 1, idx + 1} /\ UNCHANGED <<loop, request>>
    BY <1>6 DEF Record
  <2>2. state' \in Progress /\ idx' \in Nat
    BY <1>6, <2>1, RecordResultKeeps, CrawlAssumption DEF Types, Open, Record
  <2>3. [copy EXCEPT !.progress = state'] \in Summary
    BY <2>2 DEF Types, Summary
  <2>. QED  BY <2>1, <2>2, <2>3, CommitTyped, PagesTyped DEF Types
<1>7. CASE Complete
  <2>1. [summary EXCEPT !.progress = state] \in Summary
    BY DEF Types, Summary
  <2>. QED  BY <1>7, <2>1, CommitTyped DEF Complete, Types
<1>. QED  BY <1>1, <1>2, <1>3, <1>4, <1>5, <1>6, <1>7

(* Steps that store records. *)
LEMMA PersistTyped ==
  ASSUME Types, Persist
  PROVE  Types'
<1>1. NoLoop \in Loop
  BY DEF NoLoop, Loop
<1>2. CASE LookUp
  <2>1. Preloaded(flushed.rows, page.yield) \subseteq RecordUrls
    BY DEF Preloaded
  <2>2. \A s \in SUBSET RecordUrls : [NoLoop EXCEPT !.existing = s, !.seen = s] \in Loop
    <3>1. \A l \in Loop, s \in SUBSET RecordUrls : [l EXCEPT !.existing = s, !.seen = s] \in Loop
      BY DEF Loop
    <3>. QED  BY <1>1, <3>1
  <2>3. loop' \in Loop
    BY <1>2, <2>1, <2>2 DEF LookUp
  <2>. QED  BY <1>2, <2>3 DEF LookUp, dbVars, Types
<1>3. CASE Rewrite \/ SkipRecord \/ Insert
  <2>1. /\ UNCHANGED <<summary, copy, request, state, idx, page, result, rows, contract>>
        /\ Storing
        /\ flushed' \in {flushed, [flushed EXCEPT !.rows[Key] = Content]}
        /\ loop' \in {[loop EXCEPT !.next = @ + 1, !.count = @ + 1],
                      [loop EXCEPT !.next = @ + 1],
                      [loop EXCEPT !.next = @ + 1, !.count = @ + 1, !.seen = @ \cup {Key}]}
    BY <1>3 DEF Rewrite, SkipRecord, Insert, Stays, dbVars
  <2>2. Key \in RecordUrls /\ Content \in Contents
    BY <2>1, KeyTyped
  <2>3. flushed' \in Session
    <3>1. flushed.rows \in Rows /\ flushed \in Session
      BY DEF Types, Session
    <3>2. [flushed.rows EXCEPT ![Key] = Content] \in Rows
      BY <2>2, <3>1 DEF Rows
    <3>3. \A r \in Rows : [flushed EXCEPT !.rows = r] \in Session
      BY <3>1 DEF Session
    <3>. QED  BY <2>1, <3>1, <3>2, <3>3
  <2>4. loop' \in Loop
    <3>1. /\ loop \in Loop /\ loop.next + 1 \in Nat \ {0} /\ loop.count + 1 \in Nat
          /\ loop.seen \cup {Key} \in SUBSET RecordUrls
      BY <2>2 DEF Types, Loop
    <3>. DEFINE n == loop.next + 1  c == loop.count + 1  s == loop.seen \cup {Key}
    <3>3. loop' \in {[loop EXCEPT !.next = n, !.count = c], [loop EXCEPT !.next = n],
                     [loop EXCEPT !.next = n, !.count = c, !.seen = s]}
      BY <2>1, Zenon
    <3>4. n \in Nat \ {0} /\ c \in Nat /\ s \in SUBSET RecordUrls
      BY <3>1
    <3>. HIDE DEF n, c, s
    <3>5. [loop EXCEPT !.next = n] \in Loop
      BY <3>1, <3>4 DEF Loop
    <3>6. [loop EXCEPT !.next = n, !.count = c] \in Loop
      BY <3>1, <3>4 DEF Loop
    <3>7. [loop EXCEPT !.next = n, !.count = c, !.seen = s] \in Loop
      BY <3>1, <3>4 DEF Loop
    <3>. QED  BY <3>3, <3>5, <3>6, <3>7, Zenon
  <2>. QED  BY <2>1, <2>3, <2>4 DEF Types
<1>4. CASE InsertRefused
  BY <1>1, <1>4 DEF InsertRefused, Stays, dbVars, Types
<1>5. CASE Persisted
  <2>1. loop.count \in Nat
    BY DEF Types, Loop
  <2>2. ComputeVerdict(page, loop.count) \in Verdict
    BY DEF ComputeVerdict, Verdict
  <2>3. result' \in Result
    BY <1>5, <2>1, <2>2 DEF Persisted, Result
  <2>. QED  BY <1>1, <1>5, <2>3 DEF Persisted, dbVars, Types
<1>. QED  BY <1>2, <1>3, <1>4, <1>5 DEF Persist

(* The other steps of the task, and the requests. *)
LEMMA OtherTyped ==
  ASSUME Types,
         \/ RobotsBlocked \/ RetryEmpty \/ RetryLowQuality \/ NoBrowserRetry \/ RetryShell
         \/ Learn \/ UrlFails \/ Recover \/ RunFails \/ PauseLoads \/ PauseCommits \/ Resume
  PROVE  Types'
<1>. USE DEF Quiet
<1>1. NoLoop \in Loop
  BY DEF NoLoop, Loop
<1>2. CASE RobotsBlocked
  BY <1>2 DEF RobotsBlocked, dbVars, Types, Result, Verdict
<1>3. CASE RetryEmpty \/ RetryLowQuality \/ NoBrowserRetry \/ RetryShell
  <2>1. page' \in WebPage
    BY <1>3, PagesTyped DEF RetryEmpty, RetryLowQuality, NoBrowserRetry, RetryShell, Types
  <2>. QED  BY <1>3, <2>1 DEF RetryEmpty, RetryLowQuality, NoBrowserRetry, RetryShell, dbVars, Types
<1>4. CASE Learn
  <2>1. flushed \in Session /\ ContractOutcome(flushed.contract, page, result) \in Contract
    BY OutcomeTyped DEF Types, Session
  <2>2. flushed' \in Session
    BY <1>4, <2>1 DEF Learn, Session
  <2>. QED  BY <1>4, <2>2 DEF Learn, dbVars, Types
<1>5. CASE UrlFails
  BY <1>1, <1>5 DEF UrlFails, dbVars, Types
<1>6. CASE Recover
  BY <1>6 DEF Recover, dbVars, Types, Session, Result, Verdict
<1>7. CASE RunFails
  BY <1>7 DEF RunFails, Types, Session
<1>8. CASE PauseLoads
  BY <1>8 DEF PauseLoads, dbVars, taskVars, Types
<1>9. CASE PauseCommits
  <2>1. NoRequest.copy \in Summary
    BY DEF NoRequest, NoProgress, Summary, Progress
  <2>2. \E c \in {request.copy.ctrl, "pause"} : summary' = [request.copy EXCEPT !.ctrl = c]
    BY <1>9 DEF PauseCommits
  <2>3. summary' \in Summary
    BY <2>2 DEF Types, Summary
  <2>. QED  BY <1>9, <2>1, <2>3 DEF PauseCommits, taskVars, Types
<1>10. CASE Resume
  BY <1>10, PagesTyped DEF Resume, Types, Summary
<1>. QED  BY <1>2, <1>3, <1>4, <1>5, <1>6, <1>7, <1>8, <1>9, <1>10

LEMMA TypesStep ==
  ASSUME Types, PassInv, [Next]_vars
  PROVE  Types'
<1>1. Record => idx \in Nat \ {0}
  BY CrawlAssumption DEF PassInv, Record, OnPass
<1>2. ObeyPause \/ BeginUrl \/ Acquire \/ Guard \/ Complete => idx \in Nat \ {0}
  BY CrawlAssumption DEF PassInv, OnPass, ObeyPause, BeginUrl, Acquire, Guard, Complete
<1>3. CASE UNCHANGED vars
  BY <1>3 DEF vars, dbVars, taskVars, Types
<1>. QED  BY <1>1, <1>2, <1>3, CommittingTyped, PersistTyped, OtherTyped DEF Next, Task

-----------------------------------------------------------------------------
(* Verdicts.                                                                 *)

LEMMA PassStep ==
  ASSUME Types, PassInv, [Next]_vars
  PROVE  PassInv'
<1>. USE DEF Quiet, Goto
<1>1. NumUrls \in Nat \ {0} /\ state \in Progress /\ idx \in Nat /\ result \in Result
      /\ Len(state.verdicts) \in Nat /\ state.count \in Nat
  BY CrawlAssumption DEF Types, Progress
<1>2. CASE Open
  <2>1. state' = FromSummary(summary.progress) /\ idx' = 1 /\ pc' = "top" /\ status' = "running"
    BY <1>2 DEF Open
  <2>2. summary.progress \in Progress
    BY DEF Types, Summary
  <2>3. Len(state'.verdicts) <= NumUrls /\ Len(state'.verdicts) \in Nat
    BY <2>1, <2>2, FromSummaryKeeps DEF Progress
  <2>. QED  BY <1>1, <2>1, <2>3 DEF PassInv, OnPass
<1>3. CASE Record
  <2>1. /\ pc = "result" /\ pc' = "top" /\ state' = RecordResult(state, idx, result)
        /\ idx' = IF state'.count >= MaxRecords THEN NumUrls + 1 ELSE idx + 1
        /\ status' = status
    BY <1>3 DEF Record
  <2>2. /\ idx \in 1 .. NumUrls /\ Len(state.verdicts) <= NumUrls
        /\ Len(state.verdicts) >= idx - 1
    BY <1>1, <2>1 DEF PassInv, OnPass
  <2>3. /\ state' \in Progress
        /\ Len(state'.verdicts) =
             IF idx <= Len(state.verdicts) THEN Len(state.verdicts) ELSE Len(state.verdicts) + 1
    BY <1>1, <2>1, <2>2, RecordResultKeeps
  <2>4. Len(state'.verdicts) \in Nat /\ Len(state'.verdicts) <= NumUrls
        /\ Len(state'.verdicts) >= idx
    BY <1>1, <2>2, <2>3
  <2>. QED  BY <1>1, <2>1, <2>2, <2>4 DEF PassInv, OnPass
<1>4. CASE BeginUrl
  BY <1>1, <1>4 DEF BeginUrl, PassInv, OnPass
<1>5. CASE ObeyPause \/ Complete \/ RunFails
  BY <1>5 DEF ObeyPause, Complete, RunFails, PassInv, OnPass
<1>6. CASE Resume
  BY <1>6 DEF Resume, PassInv, OnPass
<1>7. CASE PauseLoads \/ PauseCommits \/ UNCHANGED vars
  BY <1>7 DEF PauseLoads, PauseCommits, vars, dbVars, taskVars, PassInv, OnPass
<1>8. ASSUME UNCHANGED <<status, idx, state>>, pc \notin {"idle", "start", "top"},
             pc' \notin {"idle", "start", "top"}
      PROVE  PassInv'
  BY <1>8 DEF PassInv, OnPass
<1>9. CASE RobotsBlocked \/ Acquire \/ Guard \/ Learn \/ UrlFails \/ Recover
  BY <1>8, <1>9 DEF RobotsBlocked, Acquire, Guard, Learn, UrlFails, Recover, dbVars
<1>10. CASE RetryEmpty \/ RetryLowQuality \/ NoBrowserRetry \/ RetryShell
  BY <1>8, <1>10 DEF RetryEmpty, RetryLowQuality, NoBrowserRetry, RetryShell, dbVars
<1>11. CASE Persist
  BY <1>8, <1>11
  DEF Persist, LookUp, Rewrite, SkipRecord, Insert, InsertRefused, Persisted, Storing, Stays, dbVars
<1>. QED
  BY <1>2, <1>3, <1>4, <1>5, <1>6, <1>7, <1>9, <1>10, <1>11 DEF Next, Task

(* A run completes with one verdict for each of its URLs, although a resume crawls
   the list again and a verdict may come a second time, or with max_records
   reached (record_url_result, process_run's loop). *)
THEOREM CompletionHasVerdicts == Spec => CompletesWithVerdicts
<1>1. Init => Types /\ PassInv
  BY InitTyped DEF Init, PassInv, OnPass
<1>2. Types /\ PassInv /\ [Next]_vars => (Types /\ PassInv)'
  BY TypesStep, PassStep
<1>3. ASSUME Types, PassInv, Next, status' = "completed", pc # "idle"
      PROVE  \/ summary'.progress.count >= MaxRecords
             \/ Len(summary'.progress.verdicts) = NumUrls
  <2>1. PassInv' /\ pc' = "idle"
    BY <1>3, PassStep DEF PassInv
  <2>2. Complete
    BY <1>3, <2>1
    DEF Next, Task, Open, ObeyPause, BeginUrl, RobotsBlocked, Acquire, RetryEmpty, RetryLowQuality,
        NoBrowserRetry, RetryShell, Guard, Persist, LookUp, Rewrite, SkipRecord, Insert,
        InsertRefused, Persisted, Learn, UrlFails, Recover, Record, RunFails, PauseLoads,
        PauseCommits, Resume, Goto, PassInv, Stays, dbVars, taskVars
  <2>3. /\ summary' = [summary EXCEPT !.progress = state] /\ idx > NumUrls /\ pc = "top"
        /\ summary \in Summary
    BY <1>3, <2>2 DEF Complete, Commit, Types
  <2>4. summary'.progress = state
    BY <2>3 DEF Summary
  <2>5. NumUrls \in Nat /\ idx \in Nat /\ Len(state.verdicts) \in Nat
    BY <1>3, CrawlAssumption DEF Types, Progress
  <2>. QED  BY <1>3, <2>3, <2>4, <2>5 DEF PassInv, OnPass
<1>4. Types /\ PassInv /\ [Next]_vars =>
        [status' = "completed" /\ pc # "idle" =>
           \/ summary'.progress.count >= MaxRecords
           \/ Len(summary'.progress.verdicts) = NumUrls]_vars
  BY <1>3
<1>. QED  BY <1>1, <1>2, <1>4, PTL DEF Spec, CompletesWithVerdicts
-----------------------------------------------------------------------------
(* The contract.                                                             *)

LEMMA GuardStep ==
  ASSUME Types, GuardInv, [Next]_vars
  PROVE  GuardInv'
<1>. USE DEF Quiet, Goto
<1>1. \A s : Commit(s) => flushed'.contract = contract'
  BY DEF Commit, Clean
<1>2. CASE Open \/ ObeyPause \/ BeginUrl \/ Acquire \/ Record \/ Complete
  BY <1>1, <1>2 DEF Open, ObeyPause, BeginUrl, Acquire, Record, Complete, GuardInv
<1>3. CASE Guard
  <2>1. page' \in GuardedPages(page) /\ pc' = "persist" /\ surface' = surface
        /\ flushed'.contract = contract'
    BY <1>1, <1>3 DEF Guard
  <2>2. Detail => page'.evidence # "suspect"
    BY <2>1, GuardedTyped DEF Types
  <2>. QED  BY <2>1, <2>2 DEF GuardInv, Detail
<1>4. CASE Learn
  <2>1. /\ pc = "learn" /\ pc' = "result" /\ UNCHANGED <<surface, page, contract>>
        /\ flushed' = [flushed EXCEPT !.contract = ContractOutcome(@, page, result)]
    BY <1>4 DEF Learn, dbVars
  <2>2. flushed.contract = contract /\ (Detail => page.evidence # "suspect")
    BY <2>1 DEF GuardInv
  <2>3. flushed'.contract = ContractOutcome(contract, page, result)
    BY <2>1, <2>2 DEF Types, Session
  <2>4. flushed'.contract # contract' => ~EffectivelyBlocked(page)
    BY <2>1, <2>3 DEF ContractOutcome
  <2>5. page.evidence \in {"clear", "suspect", "blocked"}
    BY DEF Types, WebPage
  <2>. QED  BY <2>1, <2>2, <2>4, <2>5 DEF GuardInv, Detail, EffectivelyBlocked
<1>5. CASE RobotsBlocked \/ RetryEmpty \/ RetryLowQuality \/ NoBrowserRetry \/ RetryShell \/ UrlFails
  BY <1>5 DEF RobotsBlocked, RetryEmpty, RetryLowQuality, NoBrowserRetry, RetryShell, UrlFails,
              dbVars, GuardInv
<1>6. CASE Recover \/ RunFails
  BY <1>6 DEF Recover, RunFails, dbVars, GuardInv
<1>7. CASE Persist
  <2>1. /\ pc \in {"persist", "upsert"} /\ pc' \in {"upsert", "learn", "duplicate"}
        /\ UNCHANGED <<surface, contract, page>>
        /\ flushed' = flushed \/ flushed' = [flushed EXCEPT !.rows[Key] = Content]
    BY <1>7 DEF Persist, LookUp, Rewrite, SkipRecord, Insert, InsertRefused, Persisted, Storing,
                Stays, dbVars
  <2>2. flushed'.contract = flushed.contract
    BY <2>1 DEF Types, Session
  <2>. QED  BY <2>1, <2>2 DEF GuardInv, Detail
<1>8. CASE PauseLoads \/ PauseCommits \/ Resume \/ UNCHANGED vars
  BY <1>8 DEF PauseLoads, PauseCommits, Resume, vars, dbVars, taskVars, GuardInv, Detail
<1>. QED  BY <1>2, <1>3, <1>4, <1>5, <1>6, <1>7, <1>8 DEF Next, Task

(* A detail page that shows a challenge is neither a success nor a failure of the
   contract, whichever browser it was retried in (_apply_detail_rejection_guard,
   record_acquisition_contract_outcome). *)
THEOREM ChallengesSpareContract == Spec => ChallengeSparesContract
<1>1. Init => Types /\ PassInv /\ GuardInv
  BY InitTyped DEF Init, PassInv, OnPass, GuardInv
<1>2. Types /\ PassInv /\ GuardInv /\ [Next]_vars => (Types /\ PassInv /\ GuardInv)'
  BY TypesStep, PassStep, GuardStep
<1>3. ASSUME Types, GuardInv, Next, contract' # contract, Detail
      PROVE  ~ChallengeShell(page)
  <2>1. \A s : Commit(s) => contract' = flushed.contract
    BY DEF Commit
  <2>2. flushed.contract # contract
    BY <1>3, <2>1
    DEF Next, Task, Open, ObeyPause, BeginUrl, RobotsBlocked, Acquire, RetryEmpty, RetryLowQuality,
        NoBrowserRetry, RetryShell, Guard, Persist, LookUp, Rewrite, SkipRecord, Insert,
        InsertRefused, Persisted, Learn, UrlFails, Recover, Record, Complete, RunFails, PauseLoads,
        PauseCommits, Resume, Stays, dbVars
  <2>. QED  BY <1>3, <2>2 DEF GuardInv, ChallengeShell
<1>4. Types /\ GuardInv /\ [Next]_vars =>
        [contract' # contract /\ Detail => ~ChallengeShell(page)]_vars
  BY <1>3
<1>. QED  BY <1>1, <1>2, <1>4, PTL DEF Spec, ChallengeSparesContract

-----------------------------------------------------------------------------
(* The rows there are.                                                       *)

LEMMA StoreWrites ==
  ASSUME Types, Storing, flushed' = [flushed EXCEPT !.rows[Key] = Content]
  PROVE  /\ Key \in RecordUrls /\ flushed'.rows[Key] # NoRow
         /\ \A u \in RecordUrls \ {Key} : flushed'.rows[u] = flushed.rows[u]
<1>1. Key \in RecordUrls /\ Content \in Contents /\ flushed \in Session
  BY KeyTyped DEF Types
<1>2. flushed.rows \in Rows
  BY <1>1 DEF Session
<1>3. flushed'.rows = [flushed.rows EXCEPT ![Key] = Content]
  BY <1>1 DEF Session
<1>. QED  BY <1>1, <1>2, <1>3, CrawlAssumption DEF Rows

LEMMA SeenStep ==
  ASSUME Types, SeenInv, [Next]_vars
  PROVE  SeenInv'
<1>. USE DEF Quiet, Goto
<1>1. CASE pc' \notin {"upsert", "duplicate"}
  BY <1>1 DEF SeenInv, DuplicateOnlyByCanonicalUrl
<1>2. \A i \in DOMAIN page.yield : page.yield[i].url \in RecordUrls
  <2>1. page.yield \in Records
    BY DEF Types, WebPage
  <2>2. DOMAIN page.yield = 1 .. Len(page.yield)
    BY <2>1 DEF Records
  <2>3. \A i \in DOMAIN page.yield : page.yield[i] \in [url: RecordUrls, content: Contents]
    BY <2>1, <2>2, ElementOfSeq DEF Records
  <2>. QED  BY <2>3
<1>3. CASE LookUp
  <2>1. /\ loop' = [NoLoop EXCEPT !.existing = Preloaded(flushed.rows, page.yield),
                                  !.seen = Preloaded(flushed.rows, page.yield)]
        /\ pc' = "upsert" /\ UNCHANGED <<flushed, page>>
    BY <1>3 DEF LookUp
  <2>2. loop'.seen = Preloaded(flushed.rows, page.yield)
    BY <2>1 DEF NoLoop
  <2>3. \A i \in DOMAIN page.yield :
            flushed.rows[page.yield[i].url] # NoRow => page.yield[i].url \in loop'.seen
    BY <1>2, <2>2 DEF Preloaded
  <2>. QED  BY <2>1, <2>3 DEF SeenInv, DuplicateOnlyByCanonicalUrl
<1>4. CASE Rewrite \/ SkipRecord \/ Insert
  <2>1. /\ pc = "upsert" /\ pc' = "upsert" /\ Storing /\ page' = page
        /\ \/ flushed' = flushed /\ loop'.seen = loop.seen
           \/ /\ flushed' = [flushed EXCEPT !.rows[Key] = Content]
              /\ loop.seen \subseteq loop'.seen /\ Key \in loop'.seen
    BY <1>4 DEF Rewrite, SkipRecord, Insert, Storing, Stays, Types, Loop
  <2>2. \A u \in RecordUrls : flushed'.rows[u] # NoRow =>
            u \in loop'.seen \/ (flushed.rows[u] # NoRow /\ loop.seen \subseteq loop'.seen)
    BY <2>1, StoreWrites
  <2>3. \A i \in DOMAIN page.yield :
            flushed'.rows[page.yield[i].url] # NoRow => page.yield[i].url \in loop'.seen
    BY <1>2, <2>1, <2>2 DEF SeenInv
  <2>. QED  BY <2>1, <2>3 DEF SeenInv, DuplicateOnlyByCanonicalUrl
<1>5. CASE InsertRefused
  <2>1. /\ pc = "upsert" /\ pc' = "duplicate" /\ Storing /\ UNCHANGED <<page, surface>>
        /\ Key \notin loop.seen /\ flushed.rows[Key] # NoRow
    BY <1>5 DEF InsertRefused, Storing, Stays, dbVars
  <2>2. loop.next \in DOMAIN page.yield /\ Key = Identity(page.yield[loop.next])
    BY <2>1, KeyTyped
  <2>3. Identity(page.yield[loop.next]) # page.yield[loop.next].url
    BY <2>1, <2>2 DEF SeenInv
  <2>4. (\E i \in DOMAIN page.yield : Identity(page.yield[i]) # page.yield[i].url)'
    BY <2>1, <2>2, <2>3 DEF Identity, Detail
  <2>. QED  BY <2>1, <2>4 DEF SeenInv, DuplicateOnlyByCanonicalUrl
<1>6. CASE PauseLoads \/ PauseCommits \/ UNCHANGED vars
  BY <1>6 DEF PauseLoads, PauseCommits, vars, dbVars, taskVars, SeenInv,
              DuplicateOnlyByCanonicalUrl, Identity, Detail
<1>7. CASE Persisted \/ Resume
  BY <1>1, <1>7 DEF Persisted, Resume
<1>8. ASSUME Task, ~Persist PROVE pc' \notin {"upsert", "duplicate"}
  BY <1>8 DEF Task, Open, ObeyPause, BeginUrl, RobotsBlocked, Acquire, RetryEmpty, RetryLowQuality,
              NoBrowserRetry, RetryShell, Guard, Learn, UrlFails, Recover, Record, Complete, RunFails
<1>. QED  BY <1>1, <1>3, <1>4, <1>5, <1>6, <1>7, <1>8 DEF Next, Task, Persist

(* Crawling a URL again, or a page that lists a record twice, never runs into the
   unique index, unless a record carries its URL in another than its public form
   (persist_extracted_records). *)
THEOREM DuplicatesAreNotCanonical == Spec => []DuplicateOnlyByCanonicalUrl
<1>1. Init => Types /\ PassInv /\ SeenInv
  BY InitTyped DEF Init, PassInv, OnPass, SeenInv, DuplicateOnlyByCanonicalUrl
<1>2. Types /\ PassInv /\ SeenInv /\ [Next]_vars => (Types /\ PassInv /\ SeenInv)'
  BY TypesStep, PassStep, SeenStep
<1>3. SeenInv => DuplicateOnlyByCanonicalUrl
  BY DEF SeenInv
<1>. QED  BY <1>1, <1>2, <1>3, PTL DEF Spec
-----------------------------------------------------------------------------
(* The count of the rows.                                                    *)

LEMMA OwedIsNat == Types => Owed \in Nat
  BY DEF Types, Result, Loop, Owed

(* What a commit before a URL's result makes of the rows. *)
LEMMA CommitCounts ==
  ASSUME Types, CountInv, pc \notin {"failed", "duplicate"},
         NEW new \in Summary, Commit(new), pc' \notin {"failed", "duplicate"},
         Owed' \in Nat, lost' = lost,
         ~lost => new.progress.count >= summary.progress.count + Owed,
         ~lost => (OnPass' => new.progress = state')
  PROVE  CountInv'
<1>1. summary' = new /\ copy' = new /\ rows' = flushed.rows /\ flushed'.rows = flushed.rows
  BY CommitTyped
<1>2. /\ IsFiniteSet(StoredIn(rows)) /\ IsFiniteSet(StoredIn(flushed.rows))
      /\ Cardinality(StoredIn(flushed.rows)) <= Cardinality(StoredIn(rows)) + Owed
      /\ ~lost => Cardinality(StoredIn(rows)) <= summary.progress.count
  BY DEF CountInv
<1>. DEFINE n == Cardinality(StoredIn(rows))  m == Cardinality(StoredIn(flushed.rows))
<1>3. /\ n \in Nat /\ m \in Nat /\ Owed \in Nat
      /\ new.progress.count \in Nat /\ summary.progress.count \in Nat
  BY <1>2, FS_CardinalityType, OwedIsNat DEF Types, Summary, Progress
<1>4. m <= m + Owed' /\ (~lost => m <= new.progress.count)
  BY <1>2, <1>3
<1>. QED  BY <1>1, <1>2, <1>4 DEF CountInv

(* One record more is one row more at most. *)
LEMMA StoreCounts ==
  ASSUME Types, CountInv, Storing, flushed' = [flushed EXCEPT !.rows[Key] = Content]
  PROVE  /\ IsFiniteSet(StoredIn(flushed'.rows))
         /\ Cardinality(StoredIn(flushed'.rows)) <= Cardinality(StoredIn(flushed.rows)) + 1
<1>1. StoredIn(flushed'.rows) = StoredIn(flushed.rows) \cup {Key}
  BY StoreWrites DEF StoredIn
<1>2. IsFiniteSet(StoredIn(flushed.rows))
  BY DEF CountInv
<1>3. Cardinality(StoredIn(flushed.rows)) \in Nat
  BY <1>2, FS_CardinalityType
<1>. QED  BY <1>1, <1>2, <1>3, FS_AddElement

LEMMA CountStep ==
  ASSUME Types, PassInv, CountInv, [Next]_vars
  PROVE  CountInv'
<1>. USE DEF Quiet, Goto
<1>1. Types' /\ Owed' \in Nat
  <2>1. Types'
    BY TypesStep
  <2>2. result'.count \in Nat /\ loop'.count \in Nat
    BY <2>1 DEF Types, Result, Loop
  <2>. QED  BY <2>1, <2>2 DEF Owed
<1>2. /\ summary \in Summary /\ copy \in Summary /\ state \in Progress /\ result \in Result
      /\ summary.progress \in Progress /\ summary.progress.count \in Nat
  BY DEF Types, Summary, Progress
<1>3. \A s \in Summary, p \in Progress : /\ [s EXCEPT !.progress = p] \in Summary
                                         /\ [s EXCEPT !.progress = p].progress = p
  BY DEF Summary
<1>4. CASE Open
  <2>1. /\ pc = "start" /\ pc' = "top" /\ lost' = lost /\ state' = FromSummary(summary.progress)
        /\ Commit([summary EXCEPT !.progress = state'])
    BY <1>4 DEF Open
  <2>2. state' \in Progress /\ state'.count = summary.progress.count
    BY <1>2, <2>1, FromSummaryKeeps
  <2>3. Owed = 0
    BY <2>1 DEF Owed
  <2>. DEFINE new == [summary EXCEPT !.progress = state']
  <2>4. new \in Summary /\ new.progress = state' /\ Commit(new)
    BY <1>2, <1>3, <2>1, <2>2
  <2>. HIDE DEF new
  <2>5. new.progress.count >= summary.progress.count + Owed
    BY <1>2, <2>2, <2>3, <2>4
  <2>. QED  BY <1>1, <2>1, <2>4, <2>5, CommitCounts
<1>5. CASE ObeyPause
  <2>1. /\ pc = "top" /\ pc' = "idle" /\ lost' = lost
        /\ Commit([summary EXCEPT !.ctrl = "none"])
    BY <1>5 DEF ObeyPause
  <2>2. /\ [summary EXCEPT !.ctrl = "none"] \in Summary
        /\ [summary EXCEPT !.ctrl = "none"].progress = summary.progress
    BY <1>2 DEF Summary
  <2>3. Owed = 0 /\ ~OnPass'
    BY <2>1 DEF Owed, OnPass
  <2>. DEFINE new == [summary EXCEPT !.ctrl = "none"]
  <2>4. new \in Summary /\ new.progress = summary.progress /\ Commit(new)
    BY <2>1, <2>2
  <2>. HIDE DEF new
  <2>5. new.progress.count >= summary.progress.count + Owed
    BY <1>2, <2>3, <2>4
  <2>. QED  BY <1>1, <2>1, <2>3, <2>4, <2>5, CommitCounts
<1>6. CASE BeginUrl \/ Acquire \/ Guard
  <2>1. /\ pc \in {"top", "acquire", "guard", "reguard"} /\ pc' \in {"acquire", "extract", "persist"}
        /\ UNCHANGED <<lost, state>>
    BY <1>6 DEF BeginUrl, Acquire, Guard
  <2>2. PICK s \in {summary, copy} : Commit(s)
    BY <1>6 DEF BeginUrl, Acquire, Guard
  <2>3. Owed = 0 /\ OnPass
    BY <2>1 DEF Owed, OnPass
  <2>4. ~lost => s.progress = state /\ summary.progress = state
    BY <2>3 DEF CountInv
  <2>5. ~lost => s.progress.count >= summary.progress.count + Owed
    BY <1>2, <2>3, <2>4
  <2>. QED  BY <1>1, <1>2, <2>1, <2>2, <2>4, <2>5, CommitCounts
<1>7. CASE Record
  <2>1. /\ pc = "result" /\ pc' = "top" /\ lost' = lost /\ state' = RecordResult(state, idx, result)
        /\ Commit([copy EXCEPT !.progress = state'])
    BY <1>7 DEF Record
  <2>2. idx \in Nat \ {0}
    BY <2>1, CrawlAssumption DEF PassInv, OnPass
  <2>3. state' \in Progress /\ state'.count = state.count + result.count
    BY <1>2, <2>1, <2>2, RecordResultKeeps
  <2>4. Owed = result.count /\ (~lost => summary.progress = state)
    BY <2>1 DEF Owed, CountInv, OnPass
  <2>5. [copy EXCEPT !.progress = state'].progress = state'
        /\ [copy EXCEPT !.progress = state'] \in Summary
    BY <1>2, <1>3, <2>3
  <2>6. ~lost => [copy EXCEPT !.progress = state'].progress.count >= summary.progress.count + Owed
    BY <1>2, <2>3, <2>4, <2>5 DEF Result
  <2>. QED  BY <1>1, <2>1, <2>5, <2>6, CommitCounts
<1>8. CASE Complete
  <2>1. /\ pc = "top" /\ pc' = "idle" /\ lost' = lost /\ state' = state
        /\ Commit([summary EXCEPT !.progress = state])
    BY <1>8 DEF Complete
  <2>2. Owed = 0 /\ (~lost => summary.progress = state)
    BY <2>1 DEF Owed, CountInv, OnPass
  <2>. DEFINE new == [summary EXCEPT !.progress = state]
  <2>3. new \in Summary /\ new.progress = state /\ Commit(new)
    BY <1>2, <1>3, <2>1
  <2>. HIDE DEF new
  <2>4. ~lost => new.progress.count >= summary.progress.count + Owed
    BY <1>2, <2>2, <2>3
  <2>. QED  BY <1>1, <2>1, <2>3, <2>4, CommitCounts
<1>9. ASSUME UNCHANGED <<summary, rows, state, lost>>, OnPass, flushed'.rows = flushed.rows,
             pc \notin {"failed", "duplicate"}, Owed' = Owed \/ pc' \in {"failed", "duplicate"},
             copy' = copy
      PROVE  CountInv'
  BY <1>9 DEF CountInv
<1>10. CASE RobotsBlocked \/ RetryEmpty \/ RetryLowQuality \/ NoBrowserRetry \/ RetryShell \/ LookUp
  <2>1. /\ UNCHANGED <<summary, rows, state, lost, flushed, copy>>
        /\ pc \in {"acquire", "extract", "quality", "guard", "persist"}
    BY <1>10 DEF RobotsBlocked, RetryEmpty, RetryLowQuality, NoBrowserRetry, RetryShell, LookUp, dbVars
  <2>2. Owed = 0 /\ OnPass
    BY <2>1 DEF Owed, OnPass
  <2>3. RobotsBlocked => Owed' = 0
    BY DEF RobotsBlocked, Owed
  <2>4. RetryEmpty \/ RetryLowQuality \/ NoBrowserRetry \/ RetryShell => Owed' = 0
    BY DEF RetryEmpty, RetryLowQuality, NoBrowserRetry, RetryShell, Owed
  <2>5. LookUp => Owed' = 0
    BY DEF LookUp, NoLoop, Owed
  <2>6. Owed' = 0
    BY <1>10, <2>3, <2>4, <2>5
  <2>. QED  BY <1>9, <2>1, <2>2, <2>6
<1>11. CASE Learn
  <2>1. flushed'.rows = flushed.rows
    BY <1>11 DEF Learn, Types, Session
  <2>. QED  BY <1>9, <1>11, <2>1 DEF Learn, dbVars, OnPass, Owed
<1>12. CASE UrlFails \/ InsertRefused \/ Persisted
  BY <1>9, <1>12 DEF UrlFails, InsertRefused, Persisted, Storing, Stays, dbVars, OnPass, Owed
<1>13. CASE SkipRecord
  <2>1. /\ Owed' = Owed /\ pc = "upsert" /\ UNCHANGED <<summary, rows, state, lost, flushed, copy>>
    BY <1>13 DEF SkipRecord, Storing, Stays, dbVars, Owed, Types, Loop
  <2>. QED  BY <1>9, <2>1 DEF OnPass
<1>14. CASE Rewrite \/ Insert
  <2>1. /\ pc = "upsert" /\ pc' = "upsert" /\ Storing
        /\ flushed' = [flushed EXCEPT !.rows[Key] = Content]
        /\ UNCHANGED <<summary, rows, state, lost, copy>>
        /\ loop'.count = loop.count + 1
    BY <1>14 DEF Rewrite, Insert, Storing, Stays, dbVars, Types, Loop
  <2>2. Owed' = Owed + 1 /\ Owed \in Nat
    BY <2>1, OwedIsNat DEF Owed
  <2>3. /\ IsFiniteSet(StoredIn(flushed'.rows)) /\ IsFiniteSet(StoredIn(flushed.rows))
        /\ IsFiniteSet(StoredIn(rows))
        /\ Cardinality(StoredIn(flushed'.rows)) <= Cardinality(StoredIn(flushed.rows)) + 1
        /\ Cardinality(StoredIn(flushed.rows)) <= Cardinality(StoredIn(rows)) + Owed
    BY <2>1, StoreCounts DEF CountInv
  <2>4. /\ Cardinality(StoredIn(flushed'.rows)) \in Nat /\ Cardinality(StoredIn(flushed.rows)) \in Nat
        /\ Cardinality(StoredIn(rows)) \in Nat
    BY <2>3, FS_CardinalityType
  <2>5. Cardinality(StoredIn(flushed'.rows)) <= Cardinality(StoredIn(rows)) + Owed'
    BY <2>2, <2>3, <2>4
  <2>. QED  BY <2>1, <2>3, <2>5 DEF CountInv, OnPass
<1>15. ASSUME UNCHANGED <<summary, rows, lost>>, flushed'.rows = rows,
              ~lost /\ OnPass' => OnPass /\ state' = state /\ copy' = summary
       PROVE  CountInv'
  <2>1. Cardinality(StoredIn(rows)) \in Nat
    BY FS_CardinalityType DEF CountInv
  <2>2. Cardinality(StoredIn(rows)) <= Cardinality(StoredIn(rows)) + Owed'
    BY <1>1, <2>1
  <2>. QED  BY <1>15, <2>2 DEF CountInv
<1>16. CASE Recover \/ RunFails
  BY <1>15, <1>16 DEF Recover, RunFails, dbVars, OnPass
<1>17. CASE PauseLoads \/ UNCHANGED vars
  BY <1>17 DEF PauseLoads, vars, dbVars, taskVars, CountInv, OnPass, Owed
<1>18. CASE PauseCommits
  <2>1. /\ \E c : summary' = [request.copy EXCEPT !.ctrl = c]
        /\ lost' = (lost \/ request.copy.progress # summary.progress)
        /\ UNCHANGED <<rows, flushed, state, copy, pc, result, loop>>
    BY <1>18 DEF PauseCommits, taskVars
  <2>2. summary'.progress = request.copy.progress
    BY <2>1 DEF Types, Summary
  <2>. QED  BY <2>1, <2>2 DEF CountInv, OnPass, Owed
<1>19. CASE Resume
  <2>1. /\ pc = "idle" /\ pc' = "start" /\ UNCHANGED <<rows, flushed, state, copy, lost>>
        /\ summary' = [summary EXCEPT !.ctrl = "none"]
    BY <1>19 DEF Resume
  <2>2. summary'.progress = summary.progress
    BY <1>2, <2>1 DEF Summary
  <2>. QED  BY <2>1, <2>2 DEF CountInv, OnPass, Owed
<1>. QED
  BY <1>4, <1>5, <1>6, <1>7, <1>8, <1>10, <1>11, <1>12, <1>13, <1>14, <1>16, <1>17, <1>18, <1>19
  DEF Next, Task, Persist

(* Unless a request wrote an outdated summary back, every row the run has stored
   is in its record_count, for any number of URLs and any records: the count of
   a URL is at least the number of rows its session added, and both are
   committed together (persist_extracted_records, process_run). *)
THEOREM RowsAreCounted == Spec => []RowsCounted
<1>1. ASSUME Init PROVE Types /\ PassInv /\ CountInv
  <2>1. StoredIn(rows) = {} /\ flushed.rows = rows /\ pc = "start" /\ copy = summary
        /\ summary.progress.count = 0
    BY <1>1 DEF Init, StoredIn, NoProgress
  <2>2. Cardinality(StoredIn(rows)) = 0 /\ IsFiniteSet(StoredIn(rows))
    BY <2>1, FS_EmptySet
  <2>. QED  BY <1>1, <2>1, <2>2, InitTyped DEF Init, PassInv, CountInv, OnPass, Owed
<1>2. Types /\ PassInv /\ CountInv /\ [Next]_vars => (Types /\ PassInv /\ CountInv)'
  BY TypesStep, PassStep, CountStep
<1>3. CountInv => RowsCounted
  BY DEF CountInv, RowsCounted, StoredIn, Stored
<1>. QED  BY <1>1, <1>2, <1>3, PTL DEF Spec
=============================================================================
