--------------------------- MODULE FetchEscalation ---------------------------
(***************************************************************************)
(* fetch_page: how one URL is fetched, by HTTP clients, by browser engines *)
(* or by a hand-off from browser to HTTP, with what the backend remembers  *)
(* of the host.  Other fetches of the host note what they met while this   *)
(* one waits, and read the same policy cache.                              *)
(***************************************************************************)
EXTENDS HostMemory, Sequences, Functions

CONSTANTS
  Requests,      \* what fetch_page is called with
  Rows,          \* what the host's row may hold when the fetch begins
  HttpAttempts,  \* http_max_retries + 1
  Overheard,     \* what other fetches may note meanwhile: methods and answers
  MaxSiblings    \* bound on their notes and reads

ASSUME FetchAssumption ==
  /\ HttpAttempts \in Nat \ {0} /\ MaxSiblings \in Nat
  /\ Rows \subseteq Row /\ Overheard \subseteq Methods \X Answers
  /\ \A r \in Requests :
       /\ r.mode \in {"auto", "http_only", "browser_only", "http_then_browser"}
       /\ {r.prefer, r.hard, r.chrome, r.handoff, r.cookies} \subseteq BOOLEAN
       /\ r.forced \in {"none"} \cup Engines
       /\ r.proxies # <<>>

VARIABLES
  row,                     \* the host's row, committed
  cache,                   \* the backend's policy cache for the host
  reading, siblings,       \* a sibling's read of the row, and the notes siblings made
  req, pc, back, policy,   \* the fetch: its call, its step, the step after a load, its policy
  fill, note,              \* its own read of the row, the note it is committing
  http, lane, result,      \* its HTTP attempts, its browser attempts, what it returns
  hard,                    \* a result showed a platform that requires a browser
  used, excused            \* observers: clients used in order, interference

hostVars  == <<row, cache>>
othersVars == <<reading, siblings>>
fetchVars == <<req, pc, back, policy, fill, note, http, lane, result, hard>>
seenVars  == <<used, excused>>
vars == <<hostVars, othersVars, fetchVars, seenVars>>

NoCache  == [on |-> FALSE]
NoNote   == [on |-> FALSE]
NoResult == [via |-> "none", answer |-> "none"]
NoHttp   == [client |-> "curl", proxy |-> 1, attempt |-> 1, answer |-> "none"]
NoLane   == [from |-> "none", proxies |-> <<>>, i |-> 1, engines |-> <<>>, e |-> 1,
             answer |-> "none", by |-> "none", met |-> {}]

BrowserAnswers == (Answers \ {"shell"}) \cup {"location"}
BlocksHere == Blocks \cup {"location"}

-----------------------------------------------------------------------------
(* Decisions *)

BrowserFirst ==
  CASE req.mode = "browser_only"      -> TRUE
    [] req.mode = "http_then_browser" -> FALSE
    [] req.mode = "http_only"         -> req.hard
    [] OTHER -> req.prefer \/ policy.prefer \/ req.hard

EscalationAllowed(h) == req.mode = "http_only" => h

HandoffPossible ==
  /\ ~req.hard /\ req.mode # "browser_only"
  /\ policy.prefer \/ req.handoff
  /\ "direct" \in Range(req.proxies)
  /\ req.cookies

(* _browser_engine_attempts; "chrome": an ecommerce surface, and a real Chrome is
   there to use. *)
EngineAttempts(p) ==
  CASE req.forced # "none" -> <<req.forced>>
    [] req.forced = "none" /\ ~req.chrome -> <<"patchright">>
    [] OTHER ->
         IF p.prefer /\ (p.blockedBy = "patchright" \/ p.goodBy = "real_chrome")
         THEN <<"real_chrome", "patchright">>
         ELSE IF p.blockedBy = "http" \/ p.prefer \/ p.vendor
         THEN <<"patchright", "real_chrome">>
         ELSE <<"patchright">>

(* _durable_vendor_block_engine_attempts: one engine, not the one last blocked. *)
DurableAttempts(engines, p) ==
  IF req.forced # "none" \/ ~p.prefer \/ ~p.vendor THEN engines
  ELSE IF Len(engines) > 1 /\ engines[1] = p.blockedBy THEN <<engines[2]>> ELSE <<engines[1]>>

(* _extend_browser_engine_attempts_after_block: of the two engines one has been
   attempted, so at most one is new. *)
Extended(engines, attempted, p) ==
  LET new == Range(EngineAttempts(p)) \ ({attempted} \cup Range(engines))
  IN  IF new = {} THEN engines ELSE Append(engines, CHOOSE e \in new : TRUE)

(* _browser_escalation_proxies *)
EscalationProxies(h) ==
  LET others == SelectSeq(req.proxies, LAMBDA p : p # req.proxies[h.proxy]) IN
  IF h.answer = "vendor" /\ others # <<>> THEN others ELSE req.proxies

(* Faulty variant: each client falls back on the other. *)
NextHttp_Alternates(h) ==
  IF h.proxy < Len(req.proxies) THEN [h EXCEPT !.proxy = @ + 1]
  ELSE [h EXCEPT !.client = IF @ = "curl" THEN "httpx" ELSE "curl", !.proxy = 1]

(* The attempt after a transport failure: httpx tries each proxy again, after
   curl has failed on all of them. *)
NextHttp(h) ==
  CASE h.client = "httpx" /\ h.attempt < HttpAttempts -> [h EXCEPT !.attempt = @ + 1]
    [] ~(h.client = "httpx" /\ h.attempt < HttpAttempts) /\ h.proxy < Len(req.proxies)
         -> [h EXCEPT !.proxy = @ + 1, !.attempt = 1]
    [] OTHER -> [h EXCEPT !.client = "httpx", !.proxy = 1, !.attempt = 1]

HttpExhausted(h) ==
  h.client = "httpx" /\ h.attempt = HttpAttempts /\ h.proxy = Len(req.proxies)

-----------------------------------------------------------------------------
(* The fetch: load_host_protection_policy, read-through *)

Goto(p) == pc' = p
Uses(kind) == used' = IF kind \in Range(used) THEN used ELSE Append(used, kind)

LoadThen(p) == pc' = "load" /\ back' = p

LoadHit ==
  /\ pc = "load" /\ cache.on
  /\ policy' = cache.policy
  /\ Goto(back) /\ back' = "none"
  /\ UNCHANGED <<hostVars, othersVars, req, fill, note, http, lane, result, hard, seenVars>>

LoadMiss ==
  /\ pc = "load" /\ ~cache.on
  /\ fill' = [on |-> TRUE, policy |-> Policy(row), current |-> TRUE]
  /\ Goto("filling")
  /\ UNCHANGED <<hostVars, othersVars, req, back, policy, note, http, lane, result, hard, seenVars>>

LoadPut ==
  /\ pc = "filling"
  /\ cache' = [on |-> TRUE, policy |-> fill.policy] /\ policy' = fill.policy
  /\ fill' = NoCache
  /\ Goto(back) /\ back' = "none"
  /\ excused' = (excused \/ ~fill.current)
  /\ UNCHANGED <<row, othersVars, req, note, http, lane, result, hard, used>>

-----------------------------------------------------------------------------
(* What the fetch notes of a result: note_host_hard_block, note_host_usable_fetch.
   The pacing that goes with it is HostPacing's. *)

NoteFor(method, answer) ==
  IF answer \in Blocks
  THEN [on |-> TRUE, loaded |-> row, changed |-> HardBlock(row, method, answer), overtaken |-> FALSE,
        stamped |-> {"blocked"} \cup (IF Prefers(row, answer) THEN {"first"} ELSE {})]
  ELSE [on |-> TRUE, loaded |-> row, changed |-> UsableFetch(row, method), overtaken |-> FALSE,
        stamped |-> {"good"}]

(* A read of the row that a commit has overtaken. *)
Outdated(read) == IF read.on THEN [read EXCEPT !.current = FALSE] ELSE read

Noting == {"note_http", "note_browser", "note_result"}

AfterNote(p) ==
  CASE p = "note_http"    -> LoadThen("escalate")
    [] p = "note_browser" -> LoadThen("extend")
    [] p = "note_result"  -> pc' = "done" /\ UNCHANGED back

NoteLoads ==
  /\ pc \in Noting /\ ~note.on
  /\ note' = IF pc = "note_http" THEN NoteFor("http", http.answer)
             ELSE IF pc = "note_browser" THEN NoteFor(lane.engines[lane.e], lane.answer)
             ELSE NoteFor(result.via, result.answer)
  /\ UNCHANGED <<hostVars, othersVars, req, pc, back, policy, fill, http, lane, result, hard, seenVars>>

(* Faulty variant: the cached policy stays. *)
NoteCommits_KeepsCache ==
  /\ pc \in Noting /\ note.on
  /\ row' = Flushed(row, note.loaded, note.changed, note.stamped, note.overtaken)
  /\ reading' = Outdated(reading)
  /\ note' = NoNote
  /\ AfterNote(pc)
  /\ UNCHANGED <<cache, siblings, req, policy, fill, http, lane, result, hard, seenVars>>

(* Commit, then _policy_cache_invalidate. *)
NoteCommits ==
  /\ pc \in Noting /\ note.on
  /\ row' = Flushed(row, note.loaded, note.changed, note.stamped, note.overtaken)
  /\ cache' = NoCache /\ reading' = Outdated(reading)
  /\ note' = NoNote
  /\ AfterNote(pc)
  /\ UNCHANGED <<siblings, req, policy, fill, http, lane, result, hard, seenVars>>

(* The database refuses: rollback, and the fetch goes on.  Bound: not after other
   interference. *)
NoteRefused ==
  /\ pc \in Noting /\ note.on /\ ~excused
  /\ note' = NoNote
  /\ excused' = TRUE
  /\ AfterNote(pc)
  /\ UNCHANGED <<hostVars, othersVars, req, policy, fill, http, lane, result, hard, used>>

-----------------------------------------------------------------------------
(* Browser attempts: _run_browser_attempts *)

LaneFor(from, proxies) ==
  [NoLane EXCEPT !.from = from, !.proxies = proxies,
                 !.engines = DurableAttempts(EngineAttempts(policy), policy)]

StartLane(from, proxies) == lane' = LaneFor(from, proxies) /\ Goto("browser")

(* All engines of a proxy have been tried: the next proxy, or the end. *)
NextProxy(l) ==
  [l EXCEPT !.i = @ + 1, !.e = 1, !.met = {},
            !.engines = DurableAttempts(EngineAttempts(policy), policy)]

(* The last block is returned; without one the last exception is raised: fatal
   from an escalation, a fallback, or where the browser is required. *)
LaneEnds ==
  IF lane.answer # "none"
  THEN /\ result' = [via |-> lane.by, answer |-> lane.answer]
       /\ Goto(IF lane.from = "fallback" \/ lane.answer = "location" THEN "done" ELSE "note_result")
       /\ UNCHANGED lane
  ELSE /\ IF lane.from # "first" \/ req.prefer \/ req.mode = "browser_only" \/ req.hard
          THEN Goto("failed") /\ UNCHANGED lane
          ELSE Goto("handoff") /\ lane' = NoLane
       /\ UNCHANGED result

NextAttempt(l) ==
  CASE l.e < Len(l.engines) -> lane' = [l EXCEPT !.e = @ + 1] /\ Goto("browser") /\ UNCHANGED result
    [] l.e = Len(l.engines) /\ l.i < Len(l.proxies) -> lane' = NextProxy(l) /\ Goto("browser") /\ UNCHANGED result
    [] OTHER -> LaneEnds

BrowserRaises ==
  /\ pc = "browser"
  /\ Uses("browser")
  /\ NextAttempt(lane)
  /\ UNCHANGED <<hostVars, othersVars, req, back, policy, fill, note, http, hard, excused>>

Meets(l, a) == [l EXCEPT !.answer = a, !.by = l.engines[l.e], !.met = @ \cup {a}]

BrowserAnswered ==
  /\ pc = "browser"
  /\ Uses("browser")
  /\ \E a \in BrowserAnswers :
       IF a = "good"
       THEN /\ result' = [via |-> lane.engines[lane.e], answer |-> a]
            /\ Goto(IF lane.from = "fallback" THEN "done" ELSE "note_result")
            /\ UNCHANGED <<lane, back>>
       ELSE /\ lane' = Meets(lane, a)
            /\ IF a = "location" THEN LoadThen("extend") ELSE Goto("note_browser") /\ UNCHANGED back
            /\ UNCHANGED result
  /\ UNCHANGED <<hostVars, othersVars, req, policy, fill, note, http, hard, excused>>

ExtendEngines ==
  /\ pc = "extend"
  /\ NextAttempt([lane EXCEPT !.engines = Extended(lane.engines, lane.engines[lane.e], policy)])
  /\ UNCHANGED <<hostVars, othersVars, req, back, policy, fill, note, http, hard, seenVars>>

-----------------------------------------------------------------------------
(* fetch_page, the hand-off and the HTTP attempts *)

Choose ==
  /\ pc = "choose"
  /\ Goto(IF BrowserFirst THEN "handoff_first" ELSE "handoff")
  /\ UNCHANGED <<hostVars, othersVars, req, back, policy, fill, note, http, lane, result, hard, seenVars>>

HandoffAsked == HandoffPossible /\ (pc = "handoff" => req.handoff)

NoHandoff ==
  IF pc = "handoff_first" THEN StartLane("first", req.proxies)
  ELSE Goto("http") /\ lane' = NoLane

SkipHandoff ==
  /\ pc \in {"handoff_first", "handoff"} /\ ~HandoffAsked
  /\ NoHandoff
  /\ UNCHANGED <<hostVars, othersVars, req, back, policy, fill, note, http, result, hard, seenVars>>

(* One curl with the cookies a browser left; it fails, or the page needs a browser. *)
HandoffFails ==
  /\ pc \in {"handoff_first", "handoff"} /\ HandoffAsked
  /\ Uses("http")
  /\ NoHandoff
  /\ UNCHANGED <<hostVars, othersVars, req, back, policy, fill, note, http, result, hard, excused>>

HandoffAnswers ==
  /\ pc \in {"handoff_first", "handoff"} /\ HandoffAsked
  /\ Uses("http")
  /\ result' = [via |-> "http", answer |-> "good"]
  /\ Goto("note_result")
  /\ UNCHANGED <<hostVars, othersVars, req, back, policy, fill, note, http, lane, hard, excused>>

(* Transport failures; when all attempts failed a browser is the fallback. *)
HttpFails ==
  /\ pc = "http" /\ ~HttpExhausted(http)
  /\ Uses("http")
  /\ http' = NextHttp(http)
  /\ UNCHANGED <<hostVars, othersVars, req, pc, back, policy, fill, note, lane, result, hard, excused>>

HttpFallback ==
  /\ pc = "http" /\ HttpExhausted(http)
  /\ Uses("http")
  /\ StartLane("fallback", req.proxies) /\ http' = NoHttp
  /\ UNCHANGED <<hostVars, othersVars, req, back, policy, fill, note, result, hard, excused>>

(* _handle_http_result *)
HttpAnswers ==
  /\ pc = "http"
  /\ Uses("http")
  /\ \E a \in Answers :
       /\ http' = [http EXCEPT !.answer = a]
       /\ result' = IF a = "good" THEN [via |-> "http", answer |-> a] ELSE result
       /\ Goto(CASE a = "good" -> "note_result" [] a = "shell" -> "escalate" [] OTHER -> "note_http")
  /\ UNCHANGED <<hostVars, othersVars, req, back, policy, fill, note, lane, hard, excused>>

(* The page may show a platform that requires a browser. *)
Escalate ==
  /\ pc = "escalate"
  /\ \E h \in (IF req.mode = "http_only" /\ ~req.hard THEN BOOLEAN ELSE {req.hard}) :
       /\ hard' = h
       /\ IF EscalationAllowed(h)
          THEN StartLane("escalate", EscalationProxies(http)) /\ UNCHANGED result
          ELSE /\ result' = [via |-> "http", answer |-> http.answer]
               /\ Goto("note_result") /\ UNCHANGED lane
  /\ http' = NoHttp
  /\ UNCHANGED <<hostVars, othersVars, req, back, policy, fill, note, seenVars>>

Fetch ==
  \/ LoadHit \/ LoadMiss \/ LoadPut \/ NoteLoads \/ NoteCommits \/ NoteRefused
  \/ Choose \/ SkipHandoff \/ HandoffFails \/ HandoffAnswers
  \/ HttpFails \/ HttpFallback \/ HttpAnswers \/ Escalate
  \/ BrowserRaises \/ BrowserAnswered \/ ExtendEngines

-----------------------------------------------------------------------------
(* Other fetches of the host, and time *)

Ended == pc \in {"done", "failed"}

(* A sibling's note, from its select to the invalidation in one step. *)
SiblingNotes ==
  /\ ~Ended /\ siblings < MaxSiblings
  /\ \E m \in Methods, a \in Answers :
       /\ <<m, a>> \in Overheard
       /\ row' = IF a \in Blocks THEN HardBlock(row, m, a) ELSE UsableFetch(row, m)
       /\ excused' = (excused \/ (m = "http" /\ a \notin Blocks))
  /\ cache' = NoCache
  /\ reading' = Outdated(reading) /\ fill' = Outdated(fill)
  /\ note' = IF note.on THEN [note EXCEPT !.overtaken = TRUE] ELSE note
  /\ siblings' = siblings + 1
  /\ UNCHANGED <<req, pc, back, policy, http, lane, result, hard, used>>

SiblingReads ==
  /\ ~Ended /\ siblings < MaxSiblings /\ ~cache.on /\ ~reading.on
  /\ reading' = [on |-> TRUE, policy |-> Policy(row), current |-> TRUE]
  /\ siblings' = siblings + 1
  /\ UNCHANGED <<hostVars, fetchVars, seenVars>>

SiblingPuts ==
  /\ ~Ended /\ reading.on
  /\ cache' = [on |-> TRUE, policy |-> reading.policy] /\ reading' = NoCache
  /\ excused' = (excused \/ ~reading.current)
  /\ UNCHANGED <<row, siblings, fetchVars, used>>

(* What was noted before the fetch may be older than the ttl by now, and the cache
   may hold what it said before that.  A fetch ends within the ttl of its own notes. *)
Init ==
  /\ \E r \in Rows : /\ row \in {r, Aged(r)}
                    /\ cache \in {NoCache, [on |-> TRUE, policy |-> Policy(r)]}
  /\ reading = NoCache /\ siblings = 0
  /\ req \in Requests
  /\ pc = "load" /\ back = "choose" /\ policy = Policy(NoBlocks)
  /\ fill = NoCache /\ note = NoNote
  /\ http = NoHttp /\ lane = NoLane /\ result = NoResult
  /\ hard = FALSE
  /\ used = <<>> /\ excused = FALSE

Others == SiblingNotes \/ SiblingReads \/ SiblingPuts

Next == Fetch \/ Others

Spec == Init /\ [][Next]_vars

(* The event loop runs every task that can run, and each wait in a fetch has a
   timeout.  Nothing is assumed of other fetches. *)
FairSpec == Spec /\ WF_vars(Fetch)

-----------------------------------------------------------------------------
(* Properties *)

(* The row, the cache and the fetch keep their types. *)
TypeOK ==
  /\ row \in Row
  /\ \A c \in {cache, reading, fill} : c.on => c.policy \in Policies
  /\ siblings \in 0..MaxSiblings
  /\ req \in Requests /\ policy \in Policies
  /\ pc \in Noting \cup {"load", "filling", "choose", "handoff_first", "handoff", "http", "escalate",
                         "browser", "extend", "done", "failed"}
  /\ note.on => note.loaded \in Row /\ note.changed \in Row
  /\ http.proxy \in DOMAIN req.proxies /\ http.attempt \in 1..HttpAttempts
  /\ result.via \in Methods \cup {"none"} /\ result.answer \in Answers \cup {"location", "none"}
  /\ {hard, excused} \subseteq BOOLEAN

(* Every fetch ends, with an answer or an exception, however blocks extend the
   engines of a proxy while the memory changes under it (_run_browser_attempts). *)
FetchEnds == <>Ended

(* A proxy at which a browser met a confirmed block is given up only after every
   engine there is was tried: the note is committed and the policy reloaded
   before the engines are extended.  Excused where the memory was not the
   fetch's own: a sibling's success over HTTP, a refused note, a read that filled
   the cache after a commit. *)
ConfirmedBlockTriesEveryEngine ==
  [][(pc \in {"browser", "extend"}) /\ (lane'.i # lane.i \/ pc' \in {"note_result", "done"})
       /\ result'.answer # "good" /\ lane.met \cap {"denied", "vendor"} # {}
       /\ req.forced = "none" /\ req.chrome /\ ~excused
     => Range(lane.engines) = Engines]_vars

(* When a fetch returns, the memory agrees with what it returned: a blocked host
   is remembered by the method that met the block, a host that was read shows no
   block, and none prefers a browser after a page read over HTTP.  The fallback's
   result is not noted (fetch_page's last return), nor is a page that only asks
   for a location. *)
MemoryFollowsResult ==
  pc = "done" /\ ~excused /\ siblings = 0 /\ lane.from # "fallback" =>
    CASE result.answer \in Blocks -> Policy(row).blockedBy = result.via
      [] result.answer \in {"good", "shell"} ->
           /\ Policy(row).blockedBy = "none"
           /\ result.via = "http" => ~Policy(row).prefer
      [] OTHER -> TRUE

(* docs/INVARIANTS.md:229: "Host browser-first memory is for repeated hard
   blocks, not one noisy challenge hit."  For a host without blocks before, and a
   fetch that makes a single attempt.  Violated: its caller notes the block again. *)
OneHitKeepsHttp ==
  pc = "done" /\ used = <<"browser">> /\ lane.i = 1 /\ Len(lane.engines) = 1 /\ siblings = 0
    /\ result.answer = "challenge" => ~Policy(row).prefer

=============================================================================
