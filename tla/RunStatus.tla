----------------------------- MODULE RunStatus -----------------------------
(***************************************************************************)
(* The status alphabet of a crawl run and its transition table, as         *)
(* models/crawl_domain.py defines them.  Nothing here has state: the       *)
(* modules of the run lifecycle EXTEND it.                                 *)
(***************************************************************************)

TerminalStatuses == {"completed", "killed", "failed", "proxy_exhausted"}
ActiveStatuses   == {"pending", "running", "paused"}
CrawlStatus      == ActiveStatuses \cup TerminalStatuses

(* The control request the API leaves for the worker inside the run's
   result summary; "none" is the absent key. *)
ControlRequest == {"none", "pause", "kill"}

AllowedTransitions ==
  [s \in CrawlStatus |->
     CASE s = "pending" -> {"running", "killed"}
       [] s = "running" -> {"paused"} \cup TerminalStatuses
       [] s = "paused"  -> {"running", "killed"}
       [] OTHER         -> {}]

(* transition_status: a self loop is always accepted, any other move must be
   in the table; where it is not, the code raises ValueError. *)
CanTransition(from, to) == from = to \/ to \in AllowedTransitions[from]
=============================================================================
