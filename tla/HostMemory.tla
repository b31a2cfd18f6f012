----------------------------- MODULE HostMemory -----------------------------
(***************************************************************************)
(* What the backend remembers of one host's protection: the row of         *)
(* host_protection_memory, how a hard block and a usable fetch change it,  *)
(* and the policy a fetch reads out of it.  Of the row's times it matters  *)
(* which lie within the memory's ttl, and which of the last block and the  *)
(* last success is the later one.                                          *)
(***************************************************************************)
EXTENDS Naturals

CONSTANT
  Threshold      \* browser_first_host_block_threshold

ASSUME ThresholdAssumption == Threshold \in Nat \ {0}

Engines == {"patchright", "real_chrome"}
Methods == {"http"} \cup Engines   \* last_block_method, last_success_method; "http" is any HTTP client

(* How a host answers: a page that is read as it is, one that shows nothing
   without JavaScript, or a block: "challenge" is recognised in the page, "denied"
   by status 403 or 429, "vendor" by headers. *)
Blocks   == {"challenge", "denied", "vendor"}
Answers  == {"good", "shell"} \cup Blocks

(* blocked, good, first: last_blocked_at, last_success_at and
   browser_first_until are within the ttl. *)
Row == [count: 0..Threshold, vendor: BOOLEAN, blocked: BOOLEAN, blockedBy: {"none"} \cup Methods,
        good: BOOLEAN, goodBy: {"none"} \cup Methods, latest: {"block", "good"}, first: BOOLEAN]

NoBlocks == [count |-> 0, vendor |-> FALSE, blocked |-> FALSE, blockedBy |-> "none",
             good |-> FALSE, goodBy |-> "none", latest |-> "good", first |-> FALSE]

(* A ttl without notes later. *)
Aged(row) == [row EXCEPT !.blocked = FALSE, !.good = FALSE, !.first = FALSE]

-----------------------------------------------------------------------------
(* note_host_hard_block: a count and preference older than the ttl start over.
   The count only matters against the threshold, so it stops there. *)

BlockCount(row) ==
  LET n == (IF row.blocked THEN row.count ELSE 0) + 1 IN IF n > Threshold THEN Threshold ELSE n

Prefers(row, answer) == answer \in {"vendor", "denied"} \/ BlockCount(row) = Threshold

HardBlock(row, method, answer) ==
  [row EXCEPT !.count = BlockCount(row), !.vendor = answer = "vendor",
              !.blocked = TRUE, !.blockedBy = method, !.latest = "block",
              !.first = Prefers(row, answer) \/ (row.blocked /\ @)]

(* Faulty variant: the preference for a browser stays. *)
UsableFetch_KeepsFirst(row, method) ==
  [row EXCEPT !.count = 0, !.good = TRUE, !.goodBy = method, !.latest = "good"]

(* note_host_usable_fetch: only a fetch without a browser ends the preference. *)
UsableFetch(row, method) ==
  [row EXCEPT !.count = 0, !.good = TRUE, !.goodBy = method, !.latest = "good",
              !.first = method \in Engines /\ @]

(* What a session commits: the times it wrote and the columns it changed, over
   what others committed since it loaded the row; the later note is the latest. *)
Flushed(current, loaded, changed, stamped, overtaken) ==
  [f \in DOMAIN changed |->
     IF f = "latest" THEN IF overtaken THEN current.latest ELSE changed.latest
     ELSE IF changed[f] # loaded[f] \/ f \in stamped THEN changed[f] ELSE current[f]]

(* load_host_protection_policy *)
Policy(row) ==
  [prefer    |-> row.first,
   vendor    |-> row.vendor,
   blockedBy |-> IF row.blocked /\ ~(row.good /\ row.latest = "good") THEN row.blockedBy ELSE "none",
   goodBy    |-> IF row.good THEN row.goodBy ELSE "none"]

Policies == [prefer: BOOLEAN, vendor: BOOLEAN, blockedBy: {"none"} \cup Methods,
             goodBy: {"none"} \cup Methods]
=============================================================================
