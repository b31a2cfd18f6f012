------------------------ MODULE DataEnrichment_proofs ------------------------
(***************************************************************************)
(* Which records enrichment jobs leave waiting and what they commit, for   *)
(* any records and jobs, however they overlap and whenever one of them     *)
(* meets a database error or dies.                                         *)
(***************************************************************************)
EXTENDS DataEnrichment, TLAPS

Product == [job : Jobs \cup {NoJob}, status : RecordStatus \cup {"none"}]
Places  == {"none", "refused", "accepted", "created", "running", "finished", "dead"}

Types ==
    /\ rec \in [Records -> RecordStatus] /\ prod \in [Records -> Product]
    /\ at \in [Jobs -> Places]
    /\ todo \in [Jobs -> SUBSET Records] /\ good \in [Jobs -> SUBSET Records]
    /\ cur \in [Jobs -> Records \cup {NoRecord}]
    /\ DOMAIN accepted = Jobs /\ DOMAIN draft = Jobs
    /\ seen \in [Jobs -> [Records -> RecordStatus \cup {"none"}]]
    /\ read \in [Jobs -> [Records -> RecordStatus \cup {"none"}]]
    /\ \A j \in Jobs : /\ DOMAIN accepted[j] \subseteq Records
                       /\ DOMAIN draft[j] \subseteq Records
                       /\ \A r \in DOMAIN accepted[j] : accepted[j][r].prod \in Product

(* A job's own account: it holds work only where its place says so, takes up
   every product once, and has drafted what it counted, unless it lost it. *)
Account(j) ==
    /\ at[j] # "accepted" => DOMAIN accepted[j] = {}
    /\ at[j] # "running" => /\ todo[j] = {} /\ cur[j] = NoRecord
                            /\ DOMAIN draft[j] = {} /\ good[j] = {}
    /\ cur[j] \notin todo[j] /\ cur[j] \notin DOMAIN draft[j]
    /\ todo[j] \cap DOMAIN draft[j] = {}
    /\ \A r \in DOMAIN draft[j] : draft[j][r] \in {"enriched", "failed"}
    /\ \A r \in good[j] : r \in stranded \/ (r \in DOMAIN draft[j] /\ draft[j][r] = "enriched")

Accounts == \A j \in Jobs : Account(j)

(* A record that waits is with the job that took its product last, which, if
   it has read the record, has read that it waits. *)
With(j, r) ==
    \/ at[j] = "created"
    \/ at[j] = "running" /\ r \in todo[j]
    \/ /\ at[j] = "running" /\ r \in {cur[j]} \cup DOMAIN draft[j]
       /\ read[j][r] = "pending"

PendingIsOwned ==
    \A r \in Records \ stranded : rec[r] = "pending" =>
        prod[r].job \in Jobs /\ With(prod[r].job, r)

PendingInv == Types /\ Accounts /\ PendingIsOwned

(* Only one job at a time holds a record that was never contested ... *)
Alone ==
    \A r \in Records \ contested : \A j, k \in Jobs : Holds(j, r) /\ Holds(k, r) => j = k

(* ... so what it read of it is what is committed: before its creation the
   record neither waits nor is enriched, afterwards it waits. *)
Current(j, r) ==
    /\ at[j] = "accepted" => /\ accepted[j][r].rec = rec[r] /\ accepted[j][r].prod = prod[r]
                             /\ rec[r] # "pending"
    /\ at[j] # "accepted" => rec[r] = "pending" /\ prod[r].status = "pending"
    /\ at[j] = "running" => seen[j][r] = "pending"
    /\ r \in {cur[j]} \cup DOMAIN draft[j] => read[j][r] = "pending"

HeldIsCurrent ==
    \A r \in Records \ (contested \cup stranded) : \A j \in Jobs :
        Holds(j, r) => Current(j, r)

(* No product is a job's before the job is created. *)
OwnersExist ==
    \A r \in Records, j \in Jobs : prod[r].job = j => at[j] \notin {"none", "refused", "accepted"}

AloneInv == PendingInv /\ Alone /\ HeldIsCurrent /\ OwnersExist
-----------------------------------------------------------------------------
(* A step is one job's.                                                      *)

Others(j) ==
    \A k \in Jobs \ {j} :
        /\ at'[k] = at[k] /\ accepted'[k] = accepted[k] /\ todo'[k] = todo[k]
        /\ cur'[k] = cur[k] /\ seen'[k] = seen[k] /\ read'[k] = read[k]
        /\ draft'[k] = draft[k] /\ good'[k] = good[k]

\* A step leaves the other jobs alone.
LEMMA StepIsOneJobs ==
    ASSUME Types, NEW j \in Jobs,
           Create(j) \/ TaskStep(j) \/ Die(j) \/ \E S \in SUBSET Records : Select(j, S)
    PROVE  Others(j)
<1>1. CASE Create(j)
    BY <1>1 DEF Types, Create, Others
<1>2. CASE Start(j) \/ RollBack(j)
    BY <1>2 DEF Types, Start, RollBack, Others
<1>3. CASE Enrich(j) \/ Fail(j)
    BY <1>3 DEF Types, Enrich, Fail, Settle, Others
<1>4. CASE Finish(j) \/ Die(j)
    BY <1>4 DEF Types, Finish, Die, Close, Others
<1>5. CASE \E r \in Records : Take(j, r)
    BY <1>5 DEF Types, Take, Others
<1>6. CASE \E S \in SUBSET Records : Select(j, S)
    BY <1>6 DEF Types, Select, Others
<1> QED BY <1>1, <1>2, <1>3, <1>4, <1>5, <1>6 DEF TaskStep

\* The accounts of the others stay right.
LEMMA OthersAccounts ==
    ASSUME Accounts, NEW j \in Jobs, Others(j), stranded \subseteq stranded', Account(j)'
    PROVE  Accounts'
<1> SUFFICES ASSUME NEW k \in Jobs, k # j PROVE Account(k)'
    BY DEF Accounts
<1> QED BY DEF Accounts, Account, Others

\* What the step has to show for the records that wait.
LEMMA OthersOwned ==
    ASSUME PendingIsOwned, NEW j \in Jobs, Others(j), stranded \subseteq stranded',
           \A r \in Records \ stranded' : rec'[r] = "pending" =>
               \/ /\ rec[r] = "pending" /\ prod'[r].job = prod[r].job
                  /\ prod[r].job = j => With(j, r)'
               \/ prod'[r].job = j /\ With(j, r)'
    PROVE  PendingIsOwned'
<1> SUFFICES ASSUME NEW r \in Records \ stranded', rec'[r] = "pending"
             PROVE  (prod[r].job \in Jobs /\ With(prod[r].job, r))'
    BY DEF PendingIsOwned
<1>1. CASE prod'[r].job = j /\ With(j, r)'
    BY <1>1
<1>2. CASE rec[r] = "pending" /\ prod'[r].job = prod[r].job /\ prod[r].job # j
    <2>1. PICK k \in Jobs \ {j} : k = prod[r].job /\ With(k, r)
        BY <1>2 DEF PendingIsOwned
    <2>2. With(k, r)'
        BY <2>1 DEF With, Others
    <2> QED BY <1>2, <2>1, <2>2
<1> QED BY <1>1, <1>2
-----------------------------------------------------------------------------
(* Records that wait, one lemma for each kind of step.                       *)

LEMMA SelectKeeps ==
    ASSUME PendingInv, NEW j \in Jobs, NEW S \in SUBSET Records, Select(j, S)
    PROVE  PendingInv'
<1>1. /\ at[j] = "none" /\ at'[j] \in {"refused", "accepted"} /\ Others(j)
      /\ UNCHANGED <<rec, prod, todo, cur, seen, read, draft, good, stranded>>
    BY StepIsOneJobs DEF PendingInv, Types, Select
<1>2. /\ DOMAIN accepted' = Jobs /\ DOMAIN accepted'[j] = {r \in S : rec[r] \notin Skip}
      /\ \A r \in DOMAIN accepted'[j] : accepted'[j][r] = [rec |-> rec[r], prod |-> prod[r]]
      /\ at'[j] = "refused" => DOMAIN accepted'[j] = {}
    <2> DEFINE chosen == {r \in S : rec[r] \notin Skip}
    <2>1. /\ DOMAIN accepted' = Jobs
          /\ accepted'[j] = [r \in chosen |-> [rec |-> rec[r], prod |-> prod[r]]]
        BY DEF PendingInv, Types, Select
    <2>2. at'[j] = "refused" => chosen = {}
        BY DEF PendingInv, Types, Select
    <2> QED BY <2>1, <2>2
<1>3. Types'
    <2>1. \A k \in Jobs : /\ DOMAIN accepted'[k] \subseteq Records
                          /\ \A r \in DOMAIN accepted'[k] : accepted'[k][r].prod \in Product
        <3>1. ASSUME NEW r \in DOMAIN accepted'[j]
              PROVE  accepted'[j][r].prod = prod[r] /\ r \in Records
            <4>1. accepted'[j][r] = [rec |-> rec[r], prod |-> prod[r]]
                BY <1>2
            <4>2. accepted'[j][r].prod = prod[r]
                BY <4>1
            <4> QED BY <1>2, <4>2
        <3>2. \A r \in DOMAIN accepted'[j] : accepted'[j][r].prod \in Product
            BY <3>1 DEF PendingInv, Types
        <3> QED BY <1>1, <1>2, <3>2 DEF PendingInv, Types, Others
    <2>2. at' \in [Jobs -> Places]
        BY DEF PendingInv, Types, Select, Places
    <2> QED BY <1>1, <1>2, <2>1, <2>2 DEF PendingInv, Types
<1>4. Accounts'
    <2>1. Account(j)'
        BY <1>1, <1>2 DEF PendingInv, Accounts, Account
    <2> QED BY <1>1, <2>1, OthersAccounts DEF PendingInv
<1>5. PendingIsOwned'
    BY <1>1, OthersOwned DEF PendingInv, PendingIsOwned, With
<1> QED BY <1>3, <1>4, <1>5 DEF PendingInv

\* A job that is created takes every record it makes wait.
LEMMA CreateKeeps ==
    ASSUME PendingInv, NEW j \in Jobs, Create(j)
    PROVE  PendingInv'
<1>1. /\ at[j] = "accepted" /\ at'[j] \in {"refused", "created"} /\ Others(j)
      /\ UNCHANGED <<todo, cur, seen, read, draft, good, stranded>>
      /\ DOMAIN accepted' = Jobs /\ DOMAIN accepted'[j] = {} /\ at' \in [Jobs -> Places]
    BY StepIsOneJobs DEF PendingInv, Types, Create, None, Places
<1>2. Accounts'
    <2>1. Account(j)'
        BY <1>1 DEF PendingInv, Accounts, Account
    <2> QED BY <1>1, <2>1, OthersAccounts DEF PendingInv
<1>3. CASE at'[j] = "refused"
    <2>1. UNCHANGED <<rec, prod>>
        BY <1>3 DEF PendingInv, Types, Create
    <2>2. Types'
        BY <1>1, <2>1 DEF PendingInv, Types, Others
    <2>3. PendingIsOwned'
        BY <1>1, <2>1, OthersOwned DEF PendingInv, PendingIsOwned, With
    <2> QED BY <1>2, <2>2, <2>3 DEF PendingInv
<1>4. CASE at'[j] = "created"
    <2> DEFINE A == accepted[j]
    <2>1. /\ rec' = [r \in Records |->
                IF r \in DOMAIN A /\ A[r].rec # "pending" THEN "pending" ELSE rec[r]]
          /\ prod' = [r \in Records |->
                IF r \in DOMAIN A THEN Taken(j, A[r].prod, prod[r]) ELSE prod[r]]
        BY <1>4 DEF PendingInv, Types, Create
    <2>2. \A r \in DOMAIN A : /\ Taken(j, A[r].prod, prod[r]) \in Product
                              /\ Taken(j, A[r].prod, prod[r]).job = j
        BY DEF PendingInv, Types, Taken, Product, RecordStatus
    <2>3. rec' \in [Records -> RecordStatus]
        BY <2>1 DEF PendingInv, Types, RecordStatus
    <2>4. prod' \in [Records -> Product]
        BY <2>1, <2>2 DEF PendingInv, Types
    <2>5. Types'
        BY <1>1, <2>3, <2>4 DEF PendingInv, Types, Others
    <2>6. \A r \in Records : r \notin DOMAIN A => rec'[r] = rec[r] /\ prod'[r] = prod[r]
        BY <2>1
    <2>7. \A r \in Records : r \in DOMAIN A => prod'[r].job = j
        BY <2>1, <2>2
    <2>8. PendingIsOwned'
        BY <1>1, <1>4, <2>6, <2>7, OthersOwned DEF PendingInv, With
    <2> QED BY <1>2, <2>5, <2>8 DEF PendingInv
<1> QED BY <1>1, <1>3, <1>4

LEMMA StartKeeps ==
    ASSUME PendingInv, NEW j \in Jobs, Start(j)
    PROVE  PendingInv'
<1>1. /\ at[j] = "created" /\ at'[j] = "running" /\ Others(j)
      /\ UNCHANGED <<rec, prod, accepted, cur, read, draft, good, stranded>>
      /\ todo'[j] = {r \in Records : prod[r].job = j}
    BY StepIsOneJobs DEF PendingInv, Types, Start, TaskStep
<1>2. Types'
    <2>1. at' \in [Jobs -> Places] /\ todo' \in [Jobs -> SUBSET Records]
        BY DEF PendingInv, Types, Start, Places
    <2>2. [r \in Records |-> IF r \in todo'[j] THEN prod[r].status ELSE "none"]
              \in [Records -> RecordStatus \cup {"none"}]
        BY DEF PendingInv, Types, Product
    <2>3. seen' \in [Jobs -> [Records -> RecordStatus \cup {"none"}]]
        BY <1>1, <2>2 DEF PendingInv, Types, Start
    <2> QED BY <1>1, <2>1, <2>3 DEF PendingInv, Types
<1>3. Accounts'
    <2>1. Account(j)'
        BY <1>1, EnrichmentAssumption DEF PendingInv, Accounts, Account
    <2> QED BY <1>1, <2>1, OthersAccounts DEF PendingInv
<1>4. PendingIsOwned'
    BY <1>1, OthersOwned DEF PendingInv, With
<1> QED BY <1>2, <1>3, <1>4 DEF PendingInv
LEMMA TakeKeeps ==
    ASSUME PendingInv, NEW j \in Jobs, NEW r \in Records, Take(j, r)
    PROVE  PendingInv'
<1>1. /\ at[j] = "running" /\ r \in todo[j] /\ cur'[j] = r /\ todo'[j] = todo[j] \ {r}
      /\ read'[j][r] = rec[r] /\ \A q \in Records \ {r} : read'[j][q] = read[j][q]
      /\ Others(j) /\ cur[j] = NoRecord
      /\ UNCHANGED <<rec, prod, at, accepted, seen, draft, good, stranded>>
    BY StepIsOneJobs DEF PendingInv, Types, Take, TaskStep
<1>2. Types'
    BY DEF PendingInv, Types, Take
<1>3. Accounts'
    <2>1. Account(j)'
        BY <1>1, EnrichmentAssumption DEF PendingInv, Accounts, Account
    <2> QED BY <1>1, <2>1, OthersAccounts DEF PendingInv
<1>4. PendingIsOwned'
    <2>1. ASSUME NEW q \in Records, With(j, q), rec[q] = "pending" PROVE With(j, q)'
        BY <1>1, <2>1, EnrichmentAssumption DEF With
    <2> QED BY <1>1, <2>1, OthersOwned DEF PendingInv, PendingIsOwned
<1> QED BY <1>2, <1>3, <1>4 DEF PendingInv

\* The session of a job that settles the product in hand.
LEMMA SettleDrafts ==
    ASSUME PendingInv, NEW j \in Jobs, NEW status \in {"enriched", "failed"},
           Settle(j, status), cur[j] # NoRecord
    PROVE  /\ DOMAIN draft' = Jobs /\ DOMAIN draft'[j] = DOMAIN draft[j] \cup {cur[j]}
           /\ draft'[j][cur[j]] = status
           /\ \A r \in DOMAIN draft[j] : draft'[j][r] = draft[j][r]
           /\ cur' \in [Jobs -> Records \cup {NoRecord}] /\ cur'[j] = NoRecord
           /\ cur[j] \in Records
<1>1. draft'[j] = [r \in DOMAIN draft[j] \cup {cur[j]} |->
                       IF r = cur[j] THEN status ELSE draft[j][r]]
    BY DEF PendingInv, Types, Settle
<1>2. DOMAIN draft' = Jobs /\ cur[j] \notin DOMAIN draft[j]
    BY DEF PendingInv, Types, Settle, Accounts, Account
<1>3. cur' \in [Jobs -> Records \cup {NoRecord}] /\ cur'[j] = NoRecord /\ cur[j] \in Records
    BY DEF PendingInv, Types, Settle
<1> QED BY <1>1, <1>2, <1>3

LEMMA ProductKeeps ==
    ASSUME PendingInv, NEW j \in Jobs, Enrich(j) \/ Fail(j)
    PROVE  PendingInv'
<1>1. PICK status \in {"enriched", "failed"} :
          /\ Settle(j, status) /\ cur[j] # NoRecord /\ at[j] = "running" /\ Others(j)
          /\ UNCHANGED <<rec, prod, at, accepted, todo, seen, read, stranded>>
          /\ good' \in [Jobs -> SUBSET Records]
          /\ good'[j] = IF status = "enriched" THEN good[j] \cup {cur[j]} ELSE good[j]
    <2>1. Others(j)
        BY StepIsOneJobs DEF PendingInv, TaskStep
    <2>2. CASE Enrich(j)
        BY <2>1, <2>2 DEF PendingInv, Types, Enrich
    <2>3. CASE Fail(j)
        BY <2>1, <2>3 DEF PendingInv, Types, Fail
    <2> QED BY <2>2, <2>3
<1>2. /\ DOMAIN draft' = Jobs /\ DOMAIN draft'[j] = DOMAIN draft[j] \cup {cur[j]}
      /\ draft'[j][cur[j]] = status
      /\ \A r \in DOMAIN draft[j] : draft'[j][r] = draft[j][r]
      /\ cur' \in [Jobs -> Records \cup {NoRecord}] /\ cur'[j] = NoRecord /\ cur[j] \in Records
    BY <1>1, SettleDrafts
<1>3. Types'
    BY <1>1, <1>2 DEF PendingInv, Types, Others
<1>4. Accounts'
    <2>1. Account(j)
        BY DEF PendingInv, Accounts
    <2>2. NoRecord \notin todo[j] /\ NoRecord \notin DOMAIN draft[j]
        BY EnrichmentAssumption DEF PendingInv, Types
    <2>3. /\ at'[j] = "running" /\ DOMAIN accepted'[j] = {}
          /\ cur'[j] \notin todo'[j] /\ cur'[j] \notin DOMAIN draft'[j]
          /\ todo'[j] \cap DOMAIN draft'[j] = {}
        BY <1>1, <1>2, <2>1, <2>2, EnrichmentAssumption DEF Account
    <2>4. \A r \in DOMAIN draft'[j] : draft'[j][r] \in {"enriched", "failed"}
        BY <1>2, <2>1 DEF Account
    <2>5. \A r \in good'[j] :
              r \in stranded \/ (r \in DOMAIN draft'[j] /\ draft'[j][r] = "enriched")
        BY <1>1, <1>2, <2>1 DEF Account
    <2>6. Account(j)'
        BY <1>1, <2>3, <2>4, <2>5 DEF Account
    <2> QED BY <1>1, <2>6, OthersAccounts DEF PendingInv
<1>5. PendingIsOwned'
    <2>1. ASSUME NEW q \in Records, With(j, q) PROVE With(j, q)'
        BY <1>1, <1>2, <2>1 DEF With
    <2> QED BY <1>1, <2>1, OthersOwned DEF PendingInv, PendingIsOwned
<1> QED BY <1>3, <1>4, <1>5 DEF PendingInv
\* A rollback reads the product in hand again, and loses what was drafted.
LEMMA RollBackKeeps ==
    ASSUME PendingInv, NEW j \in Jobs, RollBack(j)
    PROVE  PendingInv'
<1>1. /\ at[j] = "running" /\ cur[j] \in Records /\ cur'[j] = NoRecord
      /\ cur' \in [Jobs -> Records \cup {NoRecord}] /\ Others(j)
      /\ DOMAIN draft' = Jobs /\ draft'[j] = [q \in {cur[j]} |-> "failed"]
      /\ stranded' = stranded \cup DOMAIN draft[j]
      /\ UNCHANGED <<rec, prod, at, accepted, todo, good>>
    BY StepIsOneJobs DEF PendingInv, Types, RollBack, TaskStep
<1>2. read'[j] = [q \in Records |-> IF q = cur[j] THEN rec[q] ELSE "none"]
    BY DEF PendingInv, Types, RollBack
<1>3. Types'
    <2>1. [q \in Records |-> IF q = cur[j] THEN rec[q] ELSE "none"]
              \in [Records -> RecordStatus \cup {"none"}]
        BY DEF PendingInv, Types
    <2>2. read' \in [Jobs -> [Records -> RecordStatus \cup {"none"}]]
        BY <2>1 DEF PendingInv, Types, RollBack
    <2>3. [q \in Records |-> IF seen[j][q] = "none" THEN "none" ELSE prod[q].status]
              \in [Records -> RecordStatus \cup {"none"}]
        BY DEF PendingInv, Types, Product
    <2>4. seen' \in [Jobs -> [Records -> RecordStatus \cup {"none"}]]
        BY <2>3 DEF PendingInv, Types, RollBack
    <2> QED BY <1>1, <2>2, <2>4 DEF PendingInv, Types, Others
<1>4. Accounts'
    <2>1. Account(j)
        BY DEF PendingInv, Accounts
    <2>2. NoRecord \notin todo[j]
        BY EnrichmentAssumption DEF PendingInv, Types
    <2>3. Account(j)'
        BY <1>1, <2>1, <2>2, EnrichmentAssumption DEF Account
    <2> QED BY <1>1, <2>3, OthersAccounts DEF PendingInv
<1>5. PendingIsOwned'
    <2>1. ASSUME NEW q \in Records \ stranded', With(j, q), rec[q] = "pending" PROVE With(j, q)'
        BY <1>1, <1>2, <2>1 DEF With
    <2> QED BY <1>1, <2>1, OthersOwned DEF PendingInv, PendingIsOwned
<1> QED BY <1>3, <1>4, <1>5 DEF PendingInv

\* A session that closes: the job holds nothing, and what it read is gone.
LEMMA CloseKeeps ==
    ASSUME Types, NEW j \in Jobs, Close(j)
    PROVE  /\ seen' \in [Jobs -> [Records -> RecordStatus \cup {"none"}]]
           /\ read' \in [Jobs -> [Records -> RecordStatus \cup {"none"}]]
           /\ good' \in [Jobs -> SUBSET Records] /\ good'[j] = {}
           /\ DOMAIN draft' = Jobs /\ DOMAIN draft'[j] = {}
<1>1. Unset \in [Records -> RecordStatus \cup {"none"}]
    BY DEF Unset
<1>2. DOMAIN None = {}
    BY DEF None
<1> QED BY <1>1, <1>2 DEF Types, Close

LEMMA DieKeeps ==
    ASSUME PendingInv, NEW j \in Jobs, Die(j)
    PROVE  PendingInv'
<1>1. /\ at[j] \in {"created", "running"} /\ at'[j] = "dead" /\ at' \in [Jobs -> Places]
      /\ cur' \in [Jobs -> Records \cup {NoRecord}] /\ cur'[j] = NoRecord
      /\ todo' \in [Jobs -> SUBSET Records] /\ todo'[j] = {} /\ Others(j) /\ Close(j)
      /\ UNCHANGED <<rec, prod, accepted>>
      /\ stranded \subseteq stranded' /\ \A r \in Records : prod[r].job = j => r \in stranded'
    BY StepIsOneJobs DEF PendingInv, Types, Die, Places
<1>2. Types'
    BY <1>1, CloseKeeps DEF PendingInv, Types, Others
<1>3. Accounts'
    <2>1. Account(j)'
        BY <1>1, CloseKeeps DEF PendingInv, Accounts, Account
    <2> QED BY <1>1, <2>1, OthersAccounts DEF PendingInv
<1>4. PendingIsOwned'
    BY <1>1, OthersOwned DEF PendingInv
<1> QED BY <1>2, <1>3, <1>4 DEF PendingInv

\* What a job finishes, it overwrites: it read that the record waits.
LEMMA FinishKeeps ==
    ASSUME PendingInv, NEW j \in Jobs, Finish(j)
    PROVE  PendingInv'
<1>1. /\ at[j] = "running" /\ at'[j] = "finished" /\ at' \in [Jobs -> Places]
      /\ cur[j] = NoRecord /\ todo[j] = {} /\ Others(j) /\ Close(j)
      /\ UNCHANGED <<accepted, todo, cur, stranded>>
    BY StepIsOneJobs DEF PendingInv, Types, Finish, Places, TaskStep
<1> DEFINE D == draft[j]
<1>2. /\ rec' = [r \in Records |->
              IF r \in DOMAIN D THEN Written(D[r], read[j][r], rec[r]) ELSE rec[r]]
      /\ prod' = [r \in Records |->
              IF r \in DOMAIN D THEN [prod[r] EXCEPT !.status = Written(D[r], seen[j][r], @)]
                                ELSE prod[r]]
    BY DEF Finish
<1>3. \A r \in DOMAIN D : D[r] \in {"enriched", "failed"}
    BY DEF PendingInv, Accounts, Account
<1>4. rec' \in [Records -> RecordStatus]
    BY <1>2, <1>3 DEF PendingInv, Types, Written, RecordStatus
<1>5. prod' \in [Records -> Product] /\ \A r \in Records : prod'[r].job = prod[r].job
    <2>1. ASSUME NEW r \in Records, NEW s \in RecordStatus \cup {"none"}
          PROVE  /\ [prod[r] EXCEPT !.status = s] \in Product
                 /\ [prod[r] EXCEPT !.status = s].job = prod[r].job
        <3>1. PICK p \in Product : p = prod[r]
            BY DEF PendingInv, Types
        <3>2. [p EXCEPT !.status = s] \in Product /\ [p EXCEPT !.status = s].job = p.job
            BY DEF Product
        <3> QED BY <3>1, <3>2
    <2>2. \A r \in Records : r \in DOMAIN D =>
              Written(D[r], seen[j][r], prod[r].status) \in RecordStatus \cup {"none"}
        BY <1>3 DEF PendingInv, Types, Product, Written, RecordStatus
    <2>3. \A r \in Records : prod[r] \in Product
        BY DEF PendingInv, Types
    <2>4. \A r \in Records : prod'[r] \in Product /\ prod'[r].job = prod[r].job
        BY <1>2, <2>1, <2>2, <2>3
    <2> QED BY <1>2, <2>4
<1>6. Types'
    BY <1>1, <1>4, <1>5, CloseKeeps DEF PendingInv, Types, Others
<1>7. Accounts'
    <2>1. Account(j)'
        BY <1>1, CloseKeeps DEF PendingInv, Accounts, Account, Types
    <2> QED BY <1>1, <2>1, OthersAccounts DEF PendingInv
<1>8. PendingIsOwned'
    <2>1. ASSUME NEW r \in Records \ stranded, rec'[r] = "pending"
          PROVE  rec[r] = "pending" /\ prod[r].job # j
        <3>1. rec[r] = "pending"
            BY <1>2, <1>3, <2>1 DEF Written
        <3>2. CASE prod[r].job = j
            <4>1. With(j, r)
                BY <3>1, <3>2 DEF PendingInv, PendingIsOwned
            <4>2. r \in DOMAIN D /\ read[j][r] = "pending"
                BY <1>1, <4>1, EnrichmentAssumption DEF With
            <4> QED BY <1>2, <1>3, <2>1, <4>2 DEF Written
        <3> QED BY <3>1, <3>2
    <2> QED BY <1>1, <1>5, <2>1, OthersOwned DEF PendingInv
<1> QED BY <1>6, <1>7, <1>8 DEF PendingInv

LEMMA PendingStep ==
    ASSUME PendingInv, [Next]_vars
    PROVE  PendingInv'
<1>1. ASSUME NEW j \in Jobs, TaskStep(j) PROVE PendingInv'
    BY <1>1, StartKeeps, TakeKeeps, ProductKeeps, RollBackKeeps, FinishKeeps DEF TaskStep
<1>2. CASE Next
    BY <1>1, <1>2, SelectKeeps, CreateKeeps, DieKeeps DEF Next
<1>3. CASE UNCHANGED vars
    BY <1>3 DEF vars, task, PendingInv, Types, Accounts, Account, PendingIsOwned, With
<1> QED BY <1>2, <1>3

LEMMA PendingStart == Init => PendingInv
<1> SUFFICES ASSUME Init PROVE PendingInv
    OBVIOUS
<1>1. Unset \in [Records -> RecordStatus \cup {"none"}] /\ DOMAIN None = {}
    BY DEF Unset, None
<1>2. NoProduct \in Product
    BY DEF NoProduct, Product, RecordStatus
<1>3. Types
    BY <1>1, <1>2 DEF Init, Types, Places, RecordStatus
<1>4. Accounts
    BY <1>1 DEF Init, Accounts, Account
<1>5. PendingIsOwned
    BY DEF Init, PendingIsOwned
<1> QED BY <1>3, <1>4, <1>5 DEF PendingInv

\* What PendingHasJob says, from the invariant.
LEMMA OwnedIsHeld == PendingInv => PendingHasJob
<1> SUFFICES ASSUME PendingInv, NEW r \in Records, rec[r] = "pending", r \notin stranded
             PROVE  \E j \in Jobs : Holds(j, r)
    BY DEF PendingHasJob
<1>1. prod[r].job \in Jobs /\ With(prod[r].job, r)
    BY DEF PendingInv, PendingIsOwned
<1> QED BY <1>1 DEF With, Holds

\* A record that waits for its enrichment (enrichment_status "pending") is held
\* by a job that will visit it, unless a rollback or a task's death lost it
\* (create_data_enrichment_job, _run_job).
THEOREM WaitingIsHeld == Spec => []PendingHasJob
<1>1. PendingInv /\ [Next]_vars => PendingInv'
    BY PendingStep
<1> QED BY <1>1, PendingStart, OwnedIsHeld, PTL DEF Spec
-----------------------------------------------------------------------------
(* What a job commits of the records that only it held.                      *)

\* What the step has to show: it adds nothing to what its job holds, writes only
\* what its job holds, and what its job then holds is as it read it.
LEMMA OthersAlone ==
    ASSUME AloneInv, NEW j \in Jobs, Others(j), stranded \subseteq stranded',
           contested' = contested,
           \A r \in Records : prod'[r].job \in {prod[r].job, j},
           at'[j] \in {"none", "refused", "accepted"} =>
               UNCHANGED prod /\ at[j] \in {"none", "refused", "accepted"},
           \A r \in Records : Holds(j, r)' => Holds(j, r),
           \A r \in Records : Holds(j, r) \/ (rec'[r] = rec[r] /\ prod'[r] = prod[r]),
           \A r \in Records \ (contested \cup stranded') : Holds(j, r)' => Current(j, r)'
    PROVE  Alone' /\ HeldIsCurrent' /\ OwnersExist'
<1>1. ASSUME NEW k \in Jobs, NEW r \in Records, Holds(k, r)' PROVE Holds(k, r)
    BY <1>1 DEF Holds, Others
<1>2. Alone'
    BY <1>1 DEF AloneInv, Alone
<1>3. ASSUME NEW k \in Jobs \ {j}, NEW r \in Records \ (contested \cup stranded'), Holds(k, r)'
      PROVE  Current(k, r)'
    <2>1. Holds(k, r)
        BY <1>1, <1>3
    <2>2. Current(k, r) /\ ~Holds(j, r)
        BY <2>1 DEF AloneInv, HeldIsCurrent, Alone
    <2>3. rec'[r] = rec[r] /\ prod'[r] = prod[r]
        BY <2>2
    <2> QED BY <2>2, <2>3 DEF Current, Others
<1>4. HeldIsCurrent'
    BY <1>3 DEF HeldIsCurrent
<1>5. OwnersExist'
    BY DEF AloneInv, OwnersExist, Others
<1> QED BY <1>2, <1>4, <1>5

LEMMA SelectAlone ==
    ASSUME AloneInv, NEW j \in Jobs, NEW S \in SUBSET Records, Select(j, S)
    PROVE  Alone' /\ HeldIsCurrent' /\ OwnersExist'
<1> DEFINE chosen == {r \in S : rec[r] \notin Skip}
<1>1. /\ at[j] = "none" /\ at'[j] \in {"refused", "accepted"} /\ Others(j)
      /\ UNCHANGED <<rec, prod, todo, cur, seen, read, draft, stranded>>
      /\ cur[j] = NoRecord /\ DOMAIN draft[j] = {}
      /\ contested' = contested \cup {r \in chosen : \E k \in Jobs \ {j} : Holds(k, r)}
    BY StepIsOneJobs DEF AloneInv, PendingInv, Types, Select, Accounts, Account
<1>2. accepted'[j] = [r \in chosen |-> [rec |-> rec[r], prod |-> prod[r]]]
    BY DEF AloneInv, PendingInv, Types, Select
<1>3. \A k \in Jobs \ {j}, r \in Records : Holds(k, r)' <=> Holds(k, r)
    BY <1>1 DEF Holds, Others
<1>4. \A r \in Records : Holds(j, r)' => r \in chosen /\ at'[j] = "accepted"
    BY <1>1, <1>2 DEF Holds
<1>5. Alone'
    <2> SUFFICES ASSUME NEW r \in Records \ contested', NEW k \in Jobs, NEW l \in Jobs,
                        Holds(k, r)', Holds(l, r)', k # l
                 PROVE  FALSE
        BY DEF Alone
    <2>1. CASE k # j /\ l # j
        BY <1>1, <1>3, <2>1 DEF AloneInv, Alone
    <2>2. CASE k = j \/ l = j
        BY <1>1, <1>3, <1>4, <2>2
    <2> QED BY <2>1, <2>2
<1>6. HeldIsCurrent'
    <2>1. ASSUME NEW k \in Jobs \ {j}, NEW r \in Records \ (contested' \cup stranded'),
                 Holds(k, r)'
          PROVE  Current(k, r)'
        <3>1. Current(k, r)
            BY <1>1, <1>3, <2>1 DEF AloneInv, HeldIsCurrent
        <3> QED BY <1>1, <3>1 DEF Current, Others
    <2>2. ASSUME NEW r \in Records \ (contested' \cup stranded'), Holds(j, r)'
          PROVE  Current(j, r)'
        <3>1. r \in chosen /\ at'[j] = "accepted"
            BY <1>4, <2>2
        <3>2. accepted'[j][r] = [rec |-> rec[r], prod |-> prod[r]]
            BY <1>2, <3>1
        <3>3. rec[r] # "pending"
            <4>1. \A k \in Jobs \ {j} : ~Holds(k, r)
                BY <1>1, <3>1, <2>2
            <4>2. ~Holds(j, r)
                BY <1>1 DEF Holds
            <4>3. PendingHasJob
                BY OwnedIsHeld DEF AloneInv
            <4> QED BY <1>1, <2>2, <4>1, <4>2, <4>3 DEF PendingHasJob
        <3>4. /\ accepted'[j][r].rec = rec'[r] /\ accepted'[j][r].prod = prod'[r]
              /\ rec'[r] # "pending"
            BY <1>1, <3>2, <3>3
        <3> QED BY <1>1, <3>1, <3>4, EnrichmentAssumption DEF Current
    <2> QED BY <2>1, <2>2 DEF HeldIsCurrent
<1>7. OwnersExist'
    BY <1>1 DEF AloneInv, OwnersExist, Others
<1> QED BY <1>5, <1>6, <1>7

\* A job that is created makes wait every record that only it holds.
LEMMA CreateAlone ==
    ASSUME AloneInv, NEW j \in Jobs, Create(j)
    PROVE  Alone' /\ HeldIsCurrent' /\ OwnersExist'
<1> DEFINE A == accepted[j]
<1>1. /\ at[j] = "accepted" /\ at'[j] \in {"refused", "created"} /\ Others(j)
      /\ UNCHANGED <<seen, read, cur, draft, stranded, contested>>
      /\ cur[j] = NoRecord /\ DOMAIN draft[j] = {} /\ DOMAIN A \subseteq Records
    BY StepIsOneJobs DEF AloneInv, PendingInv, Types, Create, Accounts, Account
<1>2. CASE at'[j] = "refused"
    <2>1. UNCHANGED <<rec, prod>> /\ \A r \in Records : ~Holds(j, r)'
        BY <1>2 DEF AloneInv, PendingInv, Types, Create, Holds
    <2> QED BY <1>1, <1>2, <2>1, OthersAlone
<1>3. CASE at'[j] = "created"
    <2>1. /\ rec' = [r \in Records |->
                IF r \in DOMAIN A /\ A[r].rec # "pending" THEN "pending" ELSE rec[r]]
          /\ prod' = [r \in Records |->
                IF r \in DOMAIN A THEN Taken(j, A[r].prod, prod[r]) ELSE prod[r]]
        BY <1>3 DEF AloneInv, PendingInv, Types, Create
    <2>2. \A r \in Records \ DOMAIN A : rec'[r] = rec[r] /\ prod'[r] = prod[r]
        BY <2>1
    <2>3. \A r \in DOMAIN A : prod'[r].job = j /\ Holds(j, r)
        BY <1>1, <2>1 DEF Taken, Holds
    <2>4. \A r \in Records : Holds(j, r)' => r \in DOMAIN A
        BY <1>1, <1>3, <2>2 DEF AloneInv, OwnersExist, Holds
    <2>5. ASSUME NEW r \in Records \ (contested \cup stranded), Holds(j, r)'
          PROVE  Current(j, r)'
        <3>1. r \in DOMAIN A /\ Current(j, r)
            BY <2>3, <2>4, <2>5 DEF AloneInv, HeldIsCurrent
        <3>2. A[r].rec # "pending" /\ A[r].prod = prod[r]
            BY <1>1, <3>1 DEF Current
        <3>3. rec'[r] = "pending" /\ prod'[r].status = "pending"
            BY <2>1, <3>1, <3>2 DEF Taken
        <3> QED BY <1>1, <1>3, <3>3, EnrichmentAssumption DEF Current
    <2> QED BY <1>1, <1>3, <2>2, <2>3, <2>4, <2>5, OthersAlone
<1> QED BY <1>1, <1>2, <1>3
\* The steps of a task up to its end write nothing that is committed.
LEMMA WorkAlone ==
    ASSUME AloneInv, NEW j \in Jobs,
           Start(j) \/ (\E r \in Records : Take(j, r)) \/ Enrich(j) \/ Fail(j) \/ RollBack(j)
    PROVE  Alone' /\ HeldIsCurrent' /\ OwnersExist'
<1>1. /\ at[j] \in {"created", "running"} /\ at'[j] = "running" /\ Others(j)
      /\ UNCHANGED <<rec, prod, accepted, contested>> /\ stranded \subseteq stranded'
    BY StepIsOneJobs DEF AloneInv, PendingInv, Types, Start, Take, Enrich, Fail, RollBack,
                         TaskStep
<1> SUFFICES ASSUME NEW r \in Records, Holds(j, r)'
             PROVE  /\ Holds(j, r)
                    /\ r \notin contested \cup stranded' => Current(j, r)'
    BY <1>1, OthersAlone
<1>2. Holds(j, r) /\ r \notin contested \cup stranded' => Current(j, r)
    BY <1>1 DEF AloneInv, HeldIsCurrent
<1>3. Account(j)
    BY DEF AloneInv, PendingInv, Accounts
<1>4. Account(j)'
    BY PendingStep, <1>1 DEF PendingInv, Accounts, AloneInv, Next, TaskStep
<1>5. r # NoRecord
    BY EnrichmentAssumption
<1>6. CASE Start(j)
    <2>1. /\ todo'[j] = {q \in Records : prod[q].job = j} /\ at[j] = "created"
          /\ seen'[j] = [q \in Records |-> IF q \in todo'[j] THEN prod[q].status ELSE "none"]
          /\ UNCHANGED <<cur, draft>>
        BY <1>6 DEF AloneInv, PendingInv, Types, Start
    <2>2. r \in todo'[j] /\ prod[r].job = j /\ r \notin {cur[j]} \cup DOMAIN draft[j]
        BY <1>1, <1>3, <1>5, <2>1 DEF Holds, Account
    <2>3. Holds(j, r)
        BY <2>1, <2>2 DEF Holds
    <2>4. seen'[j][r] = prod[r].status
        BY <2>1, <2>2
    <2> QED BY <1>1, <1>2, <2>1, <2>2, <2>3, <2>4 DEF Current
<1>7. CASE \E q \in Records : Take(j, q)
    <2>1. PICK q \in Records :
              /\ at[j] = "running" /\ cur'[j] = q /\ todo'[j] = todo[j] \ {q} /\ q \in todo[j]
              /\ read'[j] = [read[j] EXCEPT ![q] = rec[q]] /\ UNCHANGED <<seen, draft>>
        BY <1>7 DEF AloneInv, PendingInv, Types, Take
    <2>2. Holds(j, r)
        BY <1>1, <2>1 DEF Holds
    <2>3. /\ read'[j][q] = rec[q]
          /\ \A p \in Records \ {q} : read'[j][p] = read[j][p]
        BY <2>1 DEF AloneInv, PendingInv, Types
    <2> QED BY <1>1, <1>2, <2>1, <2>2, <2>3 DEF Current
<1>8. CASE Enrich(j) \/ Fail(j)
    <2>1. /\ at[j] = "running" /\ cur'[j] = NoRecord /\ cur[j] # NoRecord
          /\ DOMAIN draft'[j] = DOMAIN draft[j] \cup {cur[j]}
          /\ UNCHANGED <<todo, seen, read>>
        <3>1. PICK status \in {"enriched", "failed"} : Settle(j, status)
            BY <1>8 DEF Enrich, Fail
        <3>2. cur[j] # NoRecord /\ at[j] = "running" /\ UNCHANGED <<todo, seen, read>>
            BY <1>8 DEF Enrich, Fail
        <3> QED BY <3>1, <3>2, SettleDrafts DEF AloneInv
    <2>2. Holds(j, r)
        BY <1>1, <1>5, <2>1 DEF Holds
    <2> QED BY <1>1, <1>2, <1>5, <2>1, <2>2 DEF Current
<1>9. CASE RollBack(j)
    <2>1. /\ at[j] = "running" /\ cur'[j] = NoRecord /\ UNCHANGED todo
          /\ DOMAIN draft'[j] = {cur[j]}
          /\ read'[j] = [q \in Records |-> IF q = cur[j] THEN rec[q] ELSE "none"]
          /\ seen'[j] = [q \in Records |->
                             IF seen[j][q] = "none" THEN "none" ELSE prod[q].status]
        BY <1>9 DEF AloneInv, PendingInv, Types, RollBack
    <2>2. Holds(j, r)
        BY <1>1, <1>5, <2>1 DEF Holds
    <2>3. seen[j][r] = "pending" => seen'[j][r] = prod[r].status
        BY <2>1
    <2> QED BY <1>1, <1>2, <1>5, <2>1, <2>2, <2>3 DEF Current
<1> QED BY <1>6, <1>7, <1>8, <1>9

\* A task that ends holds nothing more, and wrote only what it held.
LEMMA EndAlone ==
    ASSUME AloneInv, NEW j \in Jobs, Finish(j) \/ Die(j)
    PROVE  Alone' /\ HeldIsCurrent' /\ OwnersExist'
<1>1. /\ at[j] \in {"created", "running"} /\ at'[j] \in {"finished", "dead"} /\ Others(j)
      /\ UNCHANGED contested /\ stranded \subseteq stranded'
    BY StepIsOneJobs DEF AloneInv, PendingInv, Types, Finish, Die, TaskStep
<1>2. \A r \in Records : ~Holds(j, r)'
    BY <1>1 DEF Holds
<1>3. ASSUME NEW r \in Records
      PROVE  /\ prod'[r].job = prod[r].job
             /\ Holds(j, r) \/ (rec'[r] = rec[r] /\ prod'[r] = prod[r])
    <2>1. CASE Die(j)
        BY <2>1 DEF Die
    <2>2. CASE Finish(j)
        <3>1. at[j] = "running"
            BY <2>2 DEF Finish
        <3>2. r \notin DOMAIN draft[j] => rec'[r] = rec[r] /\ prod'[r] = prod[r]
            BY <2>2 DEF Finish
        <3>3. PICK p \in Product : p = prod[r]
            BY DEF AloneInv, PendingInv, Types
        <3>4. \E s : prod'[r] = p \/ prod'[r] = [p EXCEPT !.status = s]
            BY <2>2, <3>3 DEF Finish
        <3>5. prod'[r].job = p.job
            BY <3>3, <3>4 DEF Product
        <3> QED BY <3>1, <3>2, <3>3, <3>5 DEF Holds
    <2> QED BY <2>1, <2>2
<1> QED BY <1>1, <1>2, <1>3, OthersAlone

LEMMA AloneStep ==
    ASSUME AloneInv, [Next]_vars
    PROVE  AloneInv'
<1>1. PendingInv'
    BY PendingStep DEF AloneInv
<1>2. CASE Next
    BY <1>1, <1>2, SelectAlone, CreateAlone, WorkAlone, EndAlone DEF Next, TaskStep, AloneInv
<1>3. CASE UNCHANGED vars
    BY <1>1, <1>3 DEF vars, task, AloneInv, Alone, HeldIsCurrent, OwnersExist, Current, Holds
<1> QED BY <1>2, <1>3

\* The last commit of a job, of a record it counted and never lost.
LEMMA FinishCommits ==
    ASSUME AloneInv, NEW j \in Jobs, Finish(j), NEW r \in good[j] \ (contested \cup stranded)
    PROVE  rec'[r] = "enriched" /\ prod'[r].status = "enriched"
<1>1. /\ at[j] = "running" /\ r \in Records /\ r \in DOMAIN draft[j]
      /\ draft[j][r] = "enriched" /\ prod[r] \in Product
    BY DEF AloneInv, PendingInv, Types, Accounts, Account, Finish
<1>2. read[j][r] = "pending" /\ seen[j][r] = "pending"
    BY <1>1 DEF AloneInv, HeldIsCurrent, Holds, Current
<1>3. rec'[r] = Written("enriched", "pending", rec[r])
    BY <1>1, <1>2 DEF Finish
<1>4. prod'[r] = [prod[r] EXCEPT !.status = Written("enriched", "pending", prod[r].status)]
    BY <1>1, <1>2 DEF Finish
<1>5. prod'[r].status = Written("enriched", "pending", prod[r].status)
    BY <1>1, <1>4 DEF Product
<1> QED BY <1>3, <1>5 DEF Written

\* A record that only one job held is, when the job finishes, what the job
\* counted it to be, and so is its product, unless a rollback came after
\* (_run_job's last commit).
THEOREM CountedAloneIsCommitted == Spec => AloneIsCommitted
<1>1. Init => AloneInv
    BY PendingStart, EnrichmentAssumption
       DEF AloneInv, Alone, HeldIsCurrent, OwnersExist, Holds, Init, NoProduct, None
<1>2. AloneInv /\ [Next]_vars => AloneInv'
    BY AloneStep
<1>3. AloneInv /\ [Next]_vars =>
          [\A j \in Jobs : Finish(j) => \A r \in good[j] \ (contested \cup stranded) :
               rec'[r] = "enriched" /\ prod'[r].status = "enriched"]_vars
    BY FinishCommits
<1> QED BY <1>1, <1>2, <1>3, PTL DEF Spec, AloneIsCommitted
=============================================================================
