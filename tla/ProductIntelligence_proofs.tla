---------------------- MODULE ProductIntelligence_proofs ----------------------
(***************************************************************************)
(* What a product intelligence job commits, for any candidates, whatever   *)
(* their runs do, whatever is deleted and whenever the task fails or dies. *)
(***************************************************************************)
EXTENDS ProductIntelligence, TLAPS

(* Where the task has a candidate in hand; where it has not scored it, nor has
   anyone; where it may hold statuses it has not committed. *)
InHand   == {"creating", "linking", "polling", "scoring", "settling", "looking", "late"}
Unscored == {"creating", "linking", "polling", "scoring", "late"}
InPass   == {"lastpass", "looking", "late"}
Drafting == {"creating", "settling"} \cup InPass

Types ==
    /\ matches \in [Candidates -> Nat]
    /\ DOMAIN cand = Candidates
    /\ DOMAIN draft \subseteq Candidates /\ left \subseteq Candidates
    /\ linked \subseteq Candidates
    /\ at \in InHand => cur \in Candidates
    /\ cur \in Candidates \cup {NoOne}
    /\ job = "none" => at = "none"
    /\ at \notin Drafting => DOMAIN draft = {}

(* What the session holds and has not committed: a status per candidate, each
   for a candidate without a match, and a match where the status says so. *)
DraftTells ==
    /\ scored \subseteq DOMAIN draft
    /\ \A c \in DOMAIN draft : matches[c] = 0 /\ (draft[c] = "crawl_complete" <=> c \in scored)

(* The candidate in hand: nobody has scored it, and it has at most one status. *)
HandTells ==
    /\ at \in Unscored => matches[cur] = 0
    /\ at \in {"creating", "settling"} => DOMAIN draft = {cur}
    /\ at = "creating" => scored = {}
    /\ at \in InPass => left \cap DOMAIN draft = {}
    /\ at \in {"looking", "late"} => cur \notin left /\ cur \notin DOMAIN draft

MatchInv == Types /\ OneMatch /\ StatusTellsMatch /\ DraftTells /\ HandTells

Outcomes == {"crawl_complete", "no_records", "failed"}

(* Only the candidate being polled is queued, and it gets another status. *)
QueuedIsPolled ==
    /\ \A c \in DOMAIN draft : draft[c] # "crawl_queued"
    /\ at \notin {"discovered", "ended", "dead"} =>
         \A c \in Candidates : cand[c] = "crawl_queued" =>
             c = cur /\ at \in {"polling", "scoring", "settling"}

(* A candidate at rest since the last pass began is still to be looked at, in
   hand, or judged. *)
Judged(c) == IF c \in DOMAIN draft THEN draft[c] \in Outcomes ELSE cand[c] \in Outcomes

RestedIsJudged ==
    at \in InPass =>
        \A c \in rested : /\ c \in Candidates /\ status[c] \in Final
                          /\ c \in left \/ (at # "lastpass" /\ c = cur) \/ Judged(c)

JudgeInv == QueuedIsPolled /\ RestedIsJudged /\ DOMAIN status = Candidates

-----------------------------------------------------------------------------
(* The pieces of a step.                                                     *)

LEMMA DraftWrites ==
    ASSUME NEW c, NEW s, Draft(c, s)
    PROVE  /\ DOMAIN draft' = DOMAIN draft \cup {c} /\ draft'[c] = s
           /\ \A d \in DOMAIN draft \ {c} : draft'[d] = draft[d]
BY DEF Draft

\* A commit writes each held match with the status that tells of it.
LEMMA CommitWrites ==
    ASSUME MatchInv, Commit, at # "discovered"
    PROVE  /\ matches' \in [Candidates -> Nat] /\ DOMAIN cand' = Candidates
           /\ OneMatch' /\ DraftTells' /\ DOMAIN draft' = {}
           /\ \A c \in Candidates : cand'[c] = "crawl_complete" <=> matches'[c] > 0
           /\ \A c \in Candidates \ scored : matches'[c] = matches[c]
           /\ \A c \in Candidates : cand'[c] = IF c \in DOMAIN draft THEN draft[c] ELSE cand[c]
<1>1. /\ \A c \in Candidates : matches'[c] = IF c \in scored THEN matches[c] + 1 ELSE matches[c]
      /\ \A c \in Candidates : cand'[c] = IF c \in DOMAIN draft THEN draft[c] ELSE cand[c]
      /\ DOMAIN cand' = Candidates /\ DOMAIN draft' = {} /\ scored' = {}
    BY DEF Commit, Nothing
<1>2. \A c \in Candidates : matches[c] \in Nat
    BY DEF MatchInv, Types
<1>3. matches' \in [Candidates -> Nat]
    BY <1>2 DEF Commit
<1>4. OneMatch'
    BY <1>1, <1>2 DEF MatchInv, OneMatch, DraftTells
<1>5. \A c \in Candidates : cand'[c] = "crawl_complete" <=> matches'[c] > 0
    BY <1>1, <1>2 DEF MatchInv, StatusTellsMatch, DraftTells
<1> QED BY <1>1, <1>3, <1>4, <1>5 DEF DraftTells

-----------------------------------------------------------------------------
(* Matches and statuses, one lemma for each kind of step.                    *)

\* A step outside the task, or of the task with nothing to write.
LEMMA QuietKeeps ==
    ASSUME MatchInv, UNCHANGED <<job, cand, matches, task>>, linked' \subseteq Candidates
    PROVE  MatchInv'
BY DEF MatchInv, Types, OneMatch, StatusTellsMatch, DraftTells, HandTells, task

LEMMA RequestKeeps ==
    ASSUME MatchInv, CreateJob \/ Start \/ \E S \in SUBSET Candidates : Discover(S)
    PROVE  MatchInv'
<1>1. CASE CreateJob \/ Start
    BY <1>1 DEF CreateJob, Start, MatchInv, Types, OneMatch, StatusTellsMatch, DraftTells,
                HandTells, task, InHand, Drafting, Unscored, InPass
<1>2. ASSUME NEW S \in SUBSET Candidates, Discover(S) PROVE MatchInv'
    <2>1. at = "none" /\ DOMAIN draft = {} /\ scored = {} /\ at' = "discovered"
        BY <1>2 DEF MatchInv, Types, DraftTells, Discover, Drafting, InPass
    <2>2. /\ matches' = [c \in Candidates |-> IF c \in S THEN 1 ELSE 0]
          /\ DOMAIN cand' = Candidates
          /\ UNCHANGED <<linked, cur, left, draft, scored>> /\ job' = "complete"
        BY <1>2 DEF Discover
    <2>3. matches' \in [Candidates -> Nat] /\ OneMatch'
        BY <2>2 DEF OneMatch
    <2>4. Types'
        BY <2>1, <2>2, <2>3 DEF MatchInv, Types, InHand, Drafting, InPass
    <2>5. StatusTellsMatch' /\ DraftTells' /\ HandTells'
        BY <2>1, <2>2 DEF StatusTellsMatch, DraftTells, HandTells, Unscored, InPass
    <2> QED BY <2>3, <2>4, <2>5 DEF MatchInv
<1> QED BY <1>1, <1>2

LEMMA FindKeeps ==
    ASSUME MatchInv, NEW c \in Candidates, Find(c)
    PROVE  MatchInv'
<1>1. /\ at = "searching" /\ cand[c] = "none" /\ at' = "creating" /\ cur' = c
      /\ UNCHANGED <<job, cand, linked, matches, left, scored>>
    BY DEF Find, saved
<1>2. DOMAIN draft = {} /\ scored = {} /\ matches[c] = 0
    BY <1>1 DEF MatchInv, Types, DraftTells, StatusTellsMatch, Drafting, InPass
<1>3. DOMAIN draft' = {c} /\ draft'[c] = "discovered"
    BY <1>2, DraftWrites DEF Find
<1>4. Types' /\ OneMatch' /\ StatusTellsMatch'
    BY <1>1, <1>3 DEF MatchInv, Types, OneMatch, StatusTellsMatch, Drafting
<1>5. DraftTells' /\ HandTells'
    BY <1>1, <1>2, <1>3 DEF DraftTells, HandTells, InPass
<1> QED BY <1>4, <1>5 DEF MatchInv

\* Steps that commit what the session holds.
LEMMA CommitKeeps ==
    ASSUME MatchInv, CreateRun \/ Settle \/ Complete \/ Fail
    PROVE  MatchInv'
<1>1. /\ Commit /\ at \notin {"none", "discovered", "ended", "dead"}
      /\ at' \in {"linking", "searching", "ended"} /\ (at' = "linking" => at = "creating")
      /\ UNCHANGED <<linked, cur, left>> /\ job' \in {job, "complete", "failed"}
    BY DEF CreateRun, Settle, Complete, Fail
<1>2. /\ matches' \in [Candidates -> Nat] /\ DOMAIN cand' = Candidates
      /\ OneMatch' /\ DraftTells' /\ DOMAIN draft' = {} /\ StatusTellsMatch'
      /\ \A c \in Candidates \ scored : matches'[c] = matches[c]
    BY <1>1, CommitWrites DEF StatusTellsMatch
<1>3. ASSUME at' = "linking" PROVE matches'[cur'] = 0
    <2>1. at = "creating" /\ cur \in Candidates /\ matches[cur] = 0 /\ cur' = cur
        BY <1>1, <1>3 DEF MatchInv, HandTells, Types, Unscored, InHand
    <2>2. cur \notin scored
        BY <2>1 DEF MatchInv, HandTells
    <2> QED BY <1>2, <2>1, <2>2
<1>4. Types'
    BY <1>1, <1>2 DEF MatchInv, Types, InHand
<1>5. HandTells'
    BY <1>1, <1>2, <1>3 DEF HandTells, Unscored, InPass
<1> QED BY <1>2, <1>4, <1>5 DEF MatchInv

LEMMA LinkKeeps ==
    ASSUME MatchInv, Link
    PROVE  MatchInv'
<1>1. /\ at = "linking" /\ at' = "polling" /\ linked' = linked \cup {cur}
      /\ cand' = [cand EXCEPT ![cur] = "crawl_queued"]
      /\ UNCHANGED <<job, matches, cur, left, draft, scored>>
    BY DEF Link
<1>2. cur \in Candidates /\ matches[cur] = 0 /\ DOMAIN draft = {}
    BY <1>1 DEF MatchInv, Types, HandTells, InHand, Unscored, Drafting, InPass
<1>3. /\ DOMAIN cand' = Candidates /\ cand'[cur] = "crawl_queued"
      /\ \A c \in Candidates \ {cur} : cand'[c] = cand[c]
    BY <1>1, <1>2 DEF MatchInv, Types
<1>4. StatusTellsMatch'
    BY <1>1, <1>2, <1>3 DEF MatchInv, StatusTellsMatch
<1> QED BY <1>1, <1>2, <1>3, <1>4
        DEF MatchInv, Types, OneMatch, DraftTells, HandTells, InHand, Drafting, InPass, Unscored

\* The candidate in hand gets a status that is not about a match.
LEMMA JudgesUnmatched ==
    ASSUME MatchInv, NEW s, s # "crawl_complete", Draft(cur, s),
           cur \in Candidates, matches[cur] = 0, cur \notin scored,
           UNCHANGED <<job, cand, linked, matches, cur, left, scored>>,
           \/ at \in {"polling", "scoring"} /\ at' = "settling"
           \/ at \in {"looking", "late"} /\ at' = "lastpass"
    PROVE  MatchInv'
<1>1. /\ DOMAIN draft' = DOMAIN draft \cup {cur} /\ draft'[cur] = s
      /\ \A d \in DOMAIN draft \ {cur} : draft'[d] = draft[d]
    BY DraftWrites
<1>2. Types' /\ OneMatch' /\ StatusTellsMatch'
    BY <1>1 DEF MatchInv, Types, OneMatch, StatusTellsMatch, Drafting, InPass, InHand
<1>3. DraftTells'
    BY <1>1 DEF MatchInv, DraftTells
<1>4. HandTells'
    BY <1>1 DEF MatchInv, Types, HandTells, Drafting, InPass, Unscored
<1> QED BY <1>2, <1>3, <1>4 DEF MatchInv

\* ... or a match, with the status that tells of it.
LEMMA ScoresOnce ==
    ASSUME MatchInv, Draft(cur, "crawl_complete"), scored' = scored \cup {cur},
           cur \in Candidates, matches[cur] = 0,
           UNCHANGED <<job, cand, linked, matches, cur, left>>,
           \/ at = "scoring" /\ at' = "settling"
           \/ at = "late" /\ at' = "lastpass"
    PROVE  MatchInv'
<1>1. /\ DOMAIN draft' = DOMAIN draft \cup {cur} /\ draft'[cur] = "crawl_complete"
      /\ \A d \in DOMAIN draft \ {cur} : draft'[d] = draft[d]
    BY DraftWrites
<1>2. Types' /\ OneMatch' /\ StatusTellsMatch'
    BY <1>1 DEF MatchInv, Types, OneMatch, StatusTellsMatch, Drafting, InPass, InHand
<1>3. DraftTells'
    BY <1>1 DEF MatchInv, DraftTells
<1>4. HandTells'
    BY <1>1 DEF MatchInv, Types, HandTells, Drafting, InPass, Unscored
<1> QED BY <1>2, <1>3, <1>4 DEF MatchInv

\* At these places the candidate in hand has neither status nor match.
LEMMA HandIsOpen ==
    ASSUME MatchInv, at \in {"polling", "scoring", "looking", "late"}
    PROVE  /\ cur \in Candidates /\ cur \notin scored /\ cur \notin DOMAIN draft
           /\ at # "looking" => matches[cur] = 0
BY DEF MatchInv, Types, DraftTells, HandTells, InHand, Drafting, InPass, Unscored

\* The task moves on with nothing to write.
LEMMA MovesOn ==
    ASSUME MatchInv, UNCHANGED <<job, cand, linked, matches, cur, left, draft, scored>>,
           \/ at = "polling" /\ at' = "scoring"
           \/ at = "looking" /\ at' \in {"late", "lastpass"} /\ (at' = "late" => matches[cur] = 0)
    PROVE  MatchInv'
BY DEF MatchInv, Types, OneMatch, StatusTellsMatch, DraftTells, HandTells, InHand, Drafting,
       InPass, Unscored

LEMMA LooksKeeps ==
    ASSUME MatchInv, Poll \/ Score \/ Timeout \/ LastLook \/ ScoreLate
    PROVE  MatchInv'
<1>1. /\ at \in {"polling", "scoring", "looking", "late"}
      /\ UNCHANGED <<job, cand, linked, matches, cur, left>>
    BY DEF Poll, Score, Timeout, LastLook, ScoreLate, saved
<1>2. /\ cur \in Candidates /\ cur \notin scored /\ cur \notin DOMAIN draft
      /\ at # "looking" => matches[cur] = 0
    BY <1>1, HandIsOpen
<1>3. CASE Poll
    <2>1. /\ at = "polling" /\ UNCHANGED scored
          /\ \/ Draft(cur, "failed") /\ at' = "settling"
             \/ at' = "scoring" /\ UNCHANGED draft
        BY <1>2, <1>3 DEF Poll, Looks
    <2> QED BY <1>1, <1>2, <2>1, JudgesUnmatched, MovesOn
<1>4. CASE Timeout
    BY <1>1, <1>2, <1>4, JudgesUnmatched DEF Timeout
<1>5. CASE LastLook
    <2>1. /\ at = "looking" /\ UNCHANGED scored
          /\ \/ matches[cur] = 0 /\ Draft(cur, "failed") /\ at' = "lastpass"
             \/ matches[cur] = 0 /\ at' = "late" /\ UNCHANGED draft
             \/ at' = "lastpass" /\ UNCHANGED draft
        BY <1>5 DEF LastLook, Looks
    <2> QED BY <1>1, <1>2, <2>1, JudgesUnmatched, MovesOn
<1>6. CASE Score \/ ScoreLate
    <2>1. \/ at = "scoring" /\ at' = "settling"
          \/ at = "late" /\ at' = "lastpass"
        BY <1>6 DEF Score, ScoreLate, Scores
    <2>2. CASE cur \in rows
        <3>1. Draft(cur, "crawl_complete") /\ scored' = scored \cup {cur}
            BY <1>6, <2>2 DEF Score, ScoreLate, Scores
        <3> QED BY <1>1, <1>2, <2>1, <3>1, ScoresOnce
    <2>3. CASE cur \notin rows
        <3>1. Draft(cur, "no_records") /\ UNCHANGED scored
            BY <1>6, <2>3 DEF Score, ScoreLate, Scores
        <3> QED BY <1>1, <1>2, <2>1, <3>1, JudgesUnmatched
    <2> QED BY <2>2, <2>3
<1> QED BY <1>3, <1>4, <1>5, <1>6

LEMMA PassKeeps ==
    ASSUME MatchInv, BeginLastPass \/ \E c \in Candidates : LookAgain(c)
    PROVE  MatchInv'
<1>1. CASE BeginLastPass
    BY <1>1 DEF BeginLastPass, LastPass, saved, MatchInv, Types, OneMatch, StatusTellsMatch,
                DraftTells, HandTells, InHand, Drafting, InPass, Unscored
<1>2. ASSUME NEW c \in Candidates, LookAgain(c) PROVE MatchInv'
    BY <1>2 DEF LookAgain, saved, MatchInv, Types, OneMatch, StatusTellsMatch,
                DraftTells, HandTells, InHand, Drafting, InPass, Unscored
<1> QED BY <1>1, <1>2

\* The session is rolled back or gone.
LEMMA FailureKeeps ==
    ASSUME MatchInv, FailScoring \/ Die
    PROVE  MatchInv'
BY DEF FailScoring, Die, saved, MatchInv, Types, OneMatch, StatusTellsMatch,
       DraftTells, HandTells, InHand, Drafting, InPass, Unscored, Nothing

LEMMA MatchInit == Init => MatchInv
BY DEF Init, MatchInv, Types, OneMatch, StatusTellsMatch, DraftTells, HandTells, InHand, Drafting,
       InPass, Unscored, Nothing

LEMMA MatchStep == MatchInv /\ [Next]_vars => MatchInv'
<1> SUFFICES ASSUME MatchInv, [Next]_vars PROVE MatchInv'
    OBVIOUS
<1>1. CASE TaskStep
    BY <1>1, RequestKeeps, FindKeeps, CommitKeeps, LinkKeeps, LooksKeeps, PassKeeps, FailureKeeps
    DEF TaskStep
<1>2. CASE RunStep \/ (\E c \in Candidates : StoreRecord(c) \/ Delete(c)) \/ UNCHANGED vars
    <2>1. UNCHANGED <<job, cand, matches, task>> /\ linked' \subseteq linked
        BY <1>2 DEF RunStep, StoreRecord, Delete, vars, saved
    <2> QED BY <2>1, QuietKeeps DEF MatchInv, Types
<1> QED BY <1>1, <1>2, RequestKeeps, LooksKeeps DEF Next

\* service.py: a candidate is scored once, whether its poll or the last pass
\* finds its run at rest, and whatever fails between the two.
THEOREM MatchedOnce == Spec => []OneMatch
<1>1. MatchInv => OneMatch
    BY DEF MatchInv
<1> QED BY MatchInit, MatchStep, <1>1, PTL DEF Spec

\* service.py: no commit, of the task or of its error handler, writes a match
\* without "crawl_complete" or "crawl_complete" without a match.
THEOREM StatusTells == Spec => []StatusTellsMatch
<1>1. MatchInv => StatusTellsMatch
    BY DEF MatchInv
<1> QED BY MatchInit, MatchStep, <1>1, PTL DEF Spec

-----------------------------------------------------------------------------
(* What a job leaves when it completes.                                      *)

\* The statuses of the runs stay a table of the candidates.
LEMMA RunsStay ==
    ASSUME DOMAIN status = Candidates, RunStep
    PROVE  DOMAIN status' = Candidates /\ rested' = {c \in rested : status'[c] \in Final}
BY DEF RunStep, Run!TakeUp, Run!Begin, Run!Rest, Run!Resume, Run!Overrule,
       Run!Outlive, Run!Abandon

\* Steps of others than the task.
LEMMA OthersKeepJudged ==
    ASSUME MatchInv, JudgeInv, RunStep \/ \E c \in Candidates : StoreRecord(c) \/ Delete(c)
    PROVE  JudgeInv'
<1>1. UNCHANGED <<job, cand, matches, task>>
    BY DEF RunStep, StoreRecord, Delete, saved
<1>2. QueuedIsPolled'
    BY <1>1 DEF JudgeInv, QueuedIsPolled, task
<1>3. /\ DOMAIN status' = Candidates
      /\ \A c \in rested' : c \in rested /\ (c \in Candidates /\ status[c] \in Final => status'[c] \in Final)
    <2>1. CASE RunStep
        BY <2>1, RunsStay DEF JudgeInv
    <2>2. ASSUME NEW d \in Candidates, StoreRecord(d) \/ Delete(d)
          PROVE  /\ DOMAIN status' = Candidates
                 /\ \A c \in rested' : /\ c \in rested
                                       /\ c \in Candidates /\ status[c] \in Final => status'[c] \in Final
        BY <2>2 DEF StoreRecord, Delete, JudgeInv
    <2> QED BY <2>1, <2>2
<1>4. RestedIsJudged'
    BY <1>1, <1>3 DEF JudgeInv, RestedIsJudged, Judged, task
<1> QED BY <1>2, <1>3, <1>4 DEF JudgeInv

\* Steps of the task before the last pass and at its end.
LEMMA BeforePass ==
    ASSUME MatchInv, JudgeInv, at' \notin InPass, DOMAIN status' = Candidates, QueuedIsPolled'
    PROVE  JudgeInv'
BY DEF JudgeInv, RestedIsJudged

LEMMA CreationKeepsStatus ==
    ASSUME JudgeInv, CreateRun
    PROVE  DOMAIN status' = Candidates
BY DEF JudgeInv, CreateRun, Run!Create

LEMMA CommitKeepsJudged ==
    ASSUME MatchInv, JudgeInv, CreateRun \/ Settle \/ Complete \/ Fail
    PROVE  JudgeInv'
<1>1. /\ Commit /\ at \notin {"none", "discovered", "ended", "dead"}
      /\ at' \in {"linking", "searching", "ended"}
      /\ at' # "ended" => at \in {"searching", "creating", "settling"}
      /\ at = "settling" => DOMAIN draft = {cur}
    BY DEF CreateRun, Settle, Complete, Fail, MatchInv, HandTells
<1>2. /\ DOMAIN draft' = {}
      /\ \A c \in Candidates : cand'[c] = IF c \in DOMAIN draft THEN draft[c] ELSE cand[c]
    BY <1>1, CommitWrites
<1>3. DOMAIN status' = Candidates
    BY CreationKeepsStatus DEF JudgeInv, Settle, Complete, Fail, runs
<1>4. QueuedIsPolled'
    BY <1>1, <1>2 DEF JudgeInv, QueuedIsPolled, InPass
<1> QED BY <1>1, <1>3, <1>4, BeforePass DEF InPass

LEMMA PollKeepsJudged ==
    ASSUME MatchInv, JudgeInv, Start \/ Link \/ Poll \/ Score \/ Timeout \/ \E c \in Candidates : Find(c)
    PROVE  JudgeInv'
<1>1. DOMAIN status' = Candidates
    BY DEF JudgeInv, Start, Link, Poll, Score, Timeout, Find, runs
<1>2. ASSUME NEW s, s # "crawl_queued", NEW c, Draft(c, s)
      PROVE  \A d \in DOMAIN draft' : draft'[d] # "crawl_queued"
    BY <1>2, DraftWrites DEF JudgeInv, QueuedIsPolled
<1>3. CASE Poll \/ Score \/ Timeout
    <2>1. /\ at \in {"polling", "scoring"} /\ at' \in {"scoring", "settling"} /\ UNCHANGED <<cand, cur>>
          /\ UNCHANGED draft \/ \E s \in Outcomes \cup {"crawl_timeout"} : Draft(cur, s)
        BY <1>3 DEF Poll, Score, Timeout, Looks, Scores, saved, Outcomes
    <2>2. QueuedIsPolled'
        BY <1>2, <2>1 DEF JudgeInv, QueuedIsPolled, Outcomes, InPass
    <2> QED BY <1>1, <2>1, <2>2, BeforePass DEF InPass
<1>4. CASE Start
    BY <1>1, <1>4, BeforePass DEF Start, JudgeInv, QueuedIsPolled, InPass
<1>5. CASE Link
    BY <1>1, <1>5, BeforePass DEF Link, JudgeInv, QueuedIsPolled, InPass, MatchInv, Types
<1>6. ASSUME NEW c \in Candidates, Find(c) PROVE JudgeInv'
    <2>1. at = "searching" /\ at' = "creating" /\ UNCHANGED cand /\ Draft(c, "discovered")
        BY <1>6 DEF Find, saved
    <2> QED BY <1>1, <1>2, <2>1, BeforePass DEF JudgeInv, QueuedIsPolled, InPass
<1> QED BY <1>3, <1>4, <1>5, <1>6

LEMMA PassKeepsJudged ==
    ASSUME MatchInv, JudgeInv,
           BeginLastPass \/ LastLook \/ ScoreLate \/ \E c \in Candidates : LookAgain(c)
    PROVE  JudgeInv'
<1>1. DOMAIN status' = Candidates /\ UNCHANGED <<status, cand>>
    BY DEF JudgeInv, BeginLastPass, LastLook, ScoreLate, LookAgain, runs, saved
<1>2. CASE BeginLastPass
    BY <1>1, <1>2 DEF BeginLastPass, LastPass, saved, JudgeInv, QueuedIsPolled, RestedIsJudged,
                      InPass, MatchInv, Types
<1>3. ASSUME NEW c \in Candidates, LookAgain(c) PROVE JudgeInv'
    BY <1>1, <1>3 DEF LookAgain, saved, JudgeInv, QueuedIsPolled, RestedIsJudged, InPass, Judged
<1>4. ASSUME NEW s \in Outcomes, Draft(cur, s), at \in {"looking", "late"}, at' = "lastpass",
             UNCHANGED <<cur, left, rested>>
      PROVE  JudgeInv'
    <2>1. /\ DOMAIN draft' = DOMAIN draft \cup {cur} /\ draft'[cur] = s
          /\ \A d \in DOMAIN draft \ {cur} : draft'[d] = draft[d]
        BY <1>4, DraftWrites
    <2>2. QueuedIsPolled'
        BY <1>1, <1>4, <2>1 DEF JudgeInv, QueuedIsPolled, Outcomes
    <2>3. RestedIsJudged'
        BY <1>1, <1>4, <2>1 DEF JudgeInv, RestedIsJudged, InPass, Judged
    <2> QED BY <1>1, <2>2, <2>3 DEF JudgeInv
\* Nothing to write: the candidate has its match, is to be scored, or is still
\* being crawled.
<1>5. ASSUME at = "looking", UNCHANGED <<draft, cur, left, rested>>,
             \/ at' = "lastpass" /\ matches[cur] > 0
             \/ at' = "late"
             \/ at' = "lastpass" /\ status[cur] \in ActiveStatuses
      PROVE  JudgeInv'
    <2>1. cur \in Candidates /\ cur \notin DOMAIN draft
        BY <1>5, HandIsOpen
    <2>2. QueuedIsPolled'
        BY <1>1, <1>5 DEF JudgeInv, QueuedIsPolled
    <2>3. ASSUME at' = "lastpass", cur \in rested PROVE Judged(cur)
        <3>1. status[cur] \notin ActiveStatuses
            BY <1>5, <2>3 DEF JudgeInv, RestedIsJudged, InPass, Final, TerminalStatuses, ActiveStatuses
        <3>2. matches[cur] > 0
            BY <1>5, <2>3, <3>1
        <3>3. cand[cur] = "crawl_complete"
            BY <1>5, <2>1, <3>2 DEF MatchInv, StatusTellsMatch
        <3> QED BY <2>1, <3>3 DEF Judged, Outcomes
    <2>4. RestedIsJudged'
        BY <1>1, <1>5, <2>3 DEF JudgeInv, RestedIsJudged, InPass, Judged
    <2> QED BY <1>1, <2>2, <2>4 DEF JudgeInv
<1>6. CASE LastLook
    <2>1. at = "looking" /\ UNCHANGED <<cur, left, rested>>
        BY <1>6 DEF LastLook
    <2>2. \/ Draft(cur, "failed") /\ at' = "lastpass"
          \/ UNCHANGED draft /\ at' = "lastpass" /\ matches[cur] > 0
          \/ UNCHANGED draft /\ at' = "late"
          \/ UNCHANGED draft /\ at' = "lastpass" /\ status[cur] \in ActiveStatuses
        BY <1>6 DEF LastLook, Looks
    <2> QED BY <1>4, <1>5, <2>1, <2>2 DEF Outcomes
<1>7. CASE ScoreLate
    <2>1. at = "late" /\ at' = "lastpass" /\ UNCHANGED <<cur, left, rested>>
        BY <1>7 DEF ScoreLate, Scores
    <2>2. Draft(cur, "crawl_complete") \/ Draft(cur, "no_records")
        BY <1>7 DEF ScoreLate, Scores
    <2> QED BY <1>4, <2>1, <2>2 DEF Outcomes
<1> QED BY <1>2, <1>3, <1>6, <1>7

LEMMA EndingsKeepJudged ==
    ASSUME MatchInv, JudgeInv,
           CreateJob \/ FailScoring \/ Die \/ \E S \in SUBSET Candidates : Discover(S)
    PROVE  JudgeInv'
<1>1. CASE CreateJob
    BY <1>1 DEF CreateJob, runs, task, JudgeInv, QueuedIsPolled, RestedIsJudged, Judged
<1>2. CASE FailScoring \/ Die
    BY <1>2 DEF FailScoring, Die, runs, Nothing, JudgeInv, QueuedIsPolled, RestedIsJudged, InPass
<1>3. ASSUME NEW S \in SUBSET Candidates, Discover(S) PROVE JudgeInv'
    BY <1>3 DEF Discover, runs, JudgeInv, QueuedIsPolled, RestedIsJudged, InPass
<1> QED BY <1>1, <1>2, <1>3

LEMMA JudgeInit == Init => JudgeInv
BY DEF Init, Run!Init, Nothing, JudgeInv, QueuedIsPolled, RestedIsJudged, InPass

LEMMA JudgeStep == MatchInv /\ JudgeInv /\ [Next]_vars => JudgeInv'
<1> SUFFICES ASSUME MatchInv, JudgeInv, [Next]_vars PROVE JudgeInv'
    OBVIOUS
<1>1. CASE TaskStep
    BY <1>1, CommitKeepsJudged, PollKeepsJudged, PassKeepsJudged, EndingsKeepJudged DEF TaskStep
<1>2. CASE UNCHANGED vars
    BY <1>2 DEF vars, runs, saved, task, JudgeInv, QueuedIsPolled, RestedIsJudged, Judged
<1> QED BY <1>1, <1>2, PollKeepsJudged, EndingsKeepJudged, OthersKeepJudged DEF Next

\* The one step that completes a running job.
LEMMA CompletionJudges ==
    ASSUME MatchInv, JudgeInv, Complete
    PROVE  /\ \A c \in linked : cand'[c] # "crawl_queued"
           /\ \A c \in rested : cand'[c] \in {"crawl_complete", "no_records", "failed"}
<1>1. at = "lastpass" /\ left = {} /\ Commit
    BY DEF Complete
<1>2. \A c \in Candidates : cand'[c] = IF c \in DOMAIN draft THEN draft[c] ELSE cand[c]
    BY <1>1, CommitWrites
<1>3. \A c \in Candidates : cand'[c] # "crawl_queued"
    BY <1>1, <1>2 DEF JudgeInv, QueuedIsPolled
<1>4. \A c \in rested : c \in Candidates /\ Judged(c)
    BY <1>1 DEF JudgeInv, RestedIsJudged, InPass
<1> QED BY <1>2, <1>3, <1>4 DEF Judged, Outcomes, MatchInv, Types

\* service.py: a job that completes leaves no candidate "crawl_queued", and one
\* whose run was at rest all through the last pass has its outcome.
THEOREM JobLeavesNothingBehind == Spec => NothingLeftBehind
<1>1. MatchInv /\ JudgeInv /\ [Next]_vars =>
        [job = "running" /\ job' = "complete" =>
          /\ \A c \in linked : cand'[c] # "crawl_queued"
          /\ \A c \in rested : cand'[c] \in {"crawl_complete", "no_records", "failed"}]_vars
    <2> SUFFICES ASSUME MatchInv, JudgeInv, Next, job = "running", job' = "complete"
                 PROVE  Complete
        BY CompletionJudges
    <2> QED BY DEF Next, TaskStep, CreateJob, Start, CreateRun, Link, Poll, Score, Settle,
                   BeginLastPass, LastLook, ScoreLate, Fail, FailScoring, Die, Find, LookAgain,
                   Timeout, Discover, RunStep, StoreRecord, Delete, saved
<1> QED BY MatchInit, MatchStep, JudgeInit, JudgeStep, <1>1, PTL DEF Spec, NothingLeftBehind
===============================================================================
