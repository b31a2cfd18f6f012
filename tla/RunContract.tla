---------------------------- MODULE RunContract ----------------------------
(***************************************************************************)
(* What a run promises whoever created it, leaving aside how requests,     *)
(* sweeps and tasks bring it about: its status follows the transition      *)
(* table, it is crawled only while it is active, and it comes to rest and  *)
(* ceases to be crawled in one step, save that a crawl may outlive a kill. *)
(***************************************************************************)
EXTENDS RunStatus

CONSTANT Runs

VARIABLES
  status,     \* of each run, "absent" before it is created
  crawled,    \* the runs a task is at work on
  outlived    \* the killed runs whose crawl has not been told and goes on

vars == <<status, crawled, outlived>>

Create(r) ==
  /\ status[r] = "absent"
  /\ status' = [status EXCEPT ![r] = "pending"]
  /\ UNCHANGED <<crawled, outlived>>

TakeUp(r) ==
  /\ r \notin crawled /\ status[r] \in {"pending", "running"}
  /\ crawled' = crawled \cup {r}
  /\ UNCHANGED <<status, outlived>>

Begin(r) ==
  /\ r \in crawled /\ status[r] = "pending"
  /\ status' = [status EXCEPT ![r] = "running"]
  /\ UNCHANGED <<crawled, outlived>>

Resume(r) ==
  /\ r \notin crawled /\ status[r] = "paused"
  /\ status' = [status EXCEPT ![r] = "running"]
  /\ UNCHANGED <<crawled, outlived>>

Rest(r) ==
  /\ status[r] \in ActiveStatuses
  /\ \E s \in AllowedTransitions[status[r]] \ {"running"} : status' = [status EXCEPT ![r] = s]
  /\ crawled' = crawled \ {r}
  /\ UNCHANGED outlived

(* A kill the crawl does not learn of. *)
Outlive(r) ==
  /\ r \in crawled /\ "killed" \in AllowedTransitions[status[r]]
  /\ status' = [status EXCEPT ![r] = "killed"]
  /\ crawled' = crawled \ {r} /\ outlived' = outlived \cup {r}

(* A request that has read the run before it came to rest has the last word: a
   pause or a kill under way overrules the end of the crawl. *)
Overrule(r) ==
  /\ r \notin crawled /\ status[r] \in {"completed", "failed"}
  /\ \E s \in {"paused", "killed"} : status' = [status EXCEPT ![r] = s]
  /\ UNCHANGED <<crawled, outlived>>

(* A task gives up, or the backend goes down with all of them. *)
Abandon ==
  /\ crawled' \in SUBSET crawled /\ outlived' \in SUBSET outlived
  /\ UNCHANGED status

Init ==
  /\ status = [r \in Runs |-> "absent"]
  /\ crawled = {} /\ outlived = {}

Next ==
  \/ \E r \in Runs : \/ Create(r) \/ TakeUp(r) \/ Begin(r) \/ Resume(r)
                     \/ Rest(r) \/ Outlive(r) \/ Overrule(r)
  \/ Abandon

Spec == Init /\ [][Next]_vars
=============================================================================
