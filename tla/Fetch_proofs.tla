---------------------------- MODULE Fetch_proofs ----------------------------
(***************************************************************************)
(* Theorems about fetching from a host.  The pacing table keeps the slots  *)
(* of a host apart, for any number of hosts and fetches and any intervals; *)
(* what the backend remembers of a host agrees with what a fetch returned, *)
(* and a confirmed block is given up only after every engine.              *)
(***************************************************************************)
EXTENDS HostPacing, FetchEscalation, TLAPS

-----------------------------------------------------------------------------
(* Pacing: a host's slots. *)

Table == [Hosts -> Nat \cup {Unknown}]

(* A table entry is not before the end of the host's last slot and backoff; a host
   without one has both behind it. *)
Covers(table, ends, h) ==
  IF table[h] = Unknown THEN ends[h].slot <= now /\ ends[h].block <= now
  ELSE table[h] >= ends[h].slot /\ table[h] >= ends[h].block

PacingInv ==
  /\ now \in Nat
  /\ allowed \in Table
  /\ fetch \in [Fetches -> [step: {"idle", "waiting", "asking"}, host: Hosts \cup {NoHost}, due: Nat]]
  /\ \A f \in Fetches : fetch[f].step = "asking" => fetch[f].host \in Hosts
  /\ \A f \in Fetches : fetch[f].step = "waiting" => fetch[f].host \in Hosts
  /\ since \in [Hosts -> [slot: Nat, block: Nat]]
  /\ \A h \in Hosts \ early : Covers(allowed, since, h)

(* Pruning drops only entries whose time is past. *)
LEMMA PrunedCovers ==
  ASSUME PacingInv
  PROVE  /\ Pruned(allowed) \in Table
         /\ \A h \in Hosts \ early : Covers(Pruned(allowed), since, h)
<1>1. Ttl \in Nat
  BY PacingAssumption
<1>2. Pruned(allowed) \in Table
  BY <1>1 DEF PacingInv, Table, Pruned, Unknown
<1>3. \A h \in Hosts \ early : Covers(Pruned(allowed), since, h)
  BY <1>1 DEF PacingInv, Table, Pruned, Covers, Unknown
<1> QED BY <1>2, <1>3

(* The table after trimming is the one stored but for at most one entry, whose
   time is the least. *)
LEMMA TrimmedDrops ==
  ASSUME NEW table \in Table, NEW new \in Trimmed(table)
  PROVE  /\ new \in Table
         /\ \A h \in Hosts : new[h] = table[h] \/ new[h] = Unknown
         /\ \A h \in Hosts : new[h] = Unknown /\ table[h] # Unknown
              => \A k \in Hosts : table[k] # Unknown => table[h] <= table[k]
<1>1. CASE new = table
  BY <1>1
<1>2. CASE new # table
  <2>1. PICK d \in Known(table) : /\ \A j \in Known(table) : table[d] <= table[j]
                                  /\ new = [g \in Hosts |-> IF g = d THEN Unknown ELSE table[g]]
    BY <1>2 DEF Trimmed
  <2> QED BY <2>1 DEF Known, Table
<1> QED BY <1>1, <1>2

(* Storing a table that covers keeps covering the hosts not dropped early. *)
LEMMA StoreCovers ==
  ASSUME NEW table \in Table, NEW ends \in [Hosts -> [slot: Nat, block: Nat]],
         now \in Nat, Store(table),
         \A h \in Hosts \ early : Covers(table, ends, h)
  PROVE  /\ allowed' \in Table
         /\ \A h \in Hosts \ early' : Covers(allowed', ends, h)
<1>1. /\ allowed' \in Table
      /\ \A h \in Hosts : allowed'[h] = table[h] \/ allowed'[h] = Unknown
  BY TrimmedDrops DEF Store
<1>2. ASSUME NEW h \in Hosts \ early' PROVE Covers(allowed', ends, h)
  <2>1. h \in Hosts \ early /\ ~(table[h] > now /\ allowed'[h] = Unknown)
    BY <1>2 DEF Store
  <2>2. Covers(table, ends, h)
    BY <2>1
  <2>3. ends[h].slot \in Nat /\ ends[h].block \in Nat /\ table[h] \in Nat \cup {Unknown}
    BY DEF Table
  <2> QED BY <1>1, <2>1, <2>2, <2>3 DEF Covers, Unknown
<1> QED BY <1>1, <1>2

(* Taking a slot: the host's new time is behind the slot, and behind what the table
   covered before. *)
LEMMA TakesSlot ==
  ASSUME PacingInv, NEW f \in Fetches, TakeSlot(f)
  PROVE  /\ PacingInv'
         /\ fetch'[f].host \in Hosts
         /\ fetch'[f].host \notin early =>
              /\ fetch'[f].due >= since[fetch'[f].host].slot
              /\ fetch'[f].due >= since[fetch'[f].host].block
<1> DEFINE t == Pruned(allowed)
<1>1. Interval \in Nat
  BY PacingAssumption
<1>2. PICK h \in Hosts :
        /\ fetch' = [fetch EXCEPT ![f] = [step |-> "waiting", host |-> h, due |-> Slot(t, h)]]
        /\ Store([t EXCEPT ![h] = Slot(t, h) + Interval])
        /\ since' = [since EXCEPT ![h].slot = Slot(t, h) + Interval]
  BY DEF TakeSlot
<1> HIDE DEF t
<1>3. t \in Table /\ \A g \in Hosts \ early : Covers(t, since, g)
  BY PrunedCovers DEF t
<1>4. now \in Nat /\ now' = now
  BY DEF PacingInv, TakeSlot
<1>5. Slot(t, h) \in Nat /\ Slot(t, h) >= now /\ (t[h] # Unknown => Slot(t, h) >= t[h])
  BY <1>3, <1>4 DEF Slot, Later, NextAllowed, Table, Unknown
<1> DEFINE table == [t EXCEPT ![h] = Slot(t, h) + Interval]
<1>6. table \in Table /\ since' \in [Hosts -> [slot: Nat, block: Nat]]
  <2>1. table \in Table
    BY <1>1, <1>3, <1>5 DEF Table
  <2>2. since \in [Hosts -> [slot: Nat, block: Nat]] /\ Slot(t, h) + Interval \in Nat
    BY <1>1, <1>5 DEF PacingInv
  <2>3. [since[h] EXCEPT !.slot = Slot(t, h) + Interval] \in [slot: Nat, block: Nat]
    BY <2>2
  <2> QED BY <1>2, <2>1, <2>2, <2>3
<1>7. h \notin early => Slot(t, h) >= since[h].slot /\ Slot(t, h) >= since[h].block
  <2>1. since[h].slot \in Nat /\ since[h].block \in Nat /\ t[h] \in Nat \cup {Unknown}
    BY <1>3 DEF PacingInv, Table
  <2> QED BY <1>3, <1>4, <1>5, <2>1 DEF Covers, Unknown
<1>8. ASSUME NEW g \in Hosts \ early PROVE Covers(table, since', g)
  <2>1. CASE g = h
    <3>1. table[h] = Slot(t, h) + Interval /\ since'[h].slot = Slot(t, h) + Interval
          /\ since'[h].block = since[h].block /\ since[h].block \in Nat
      BY <1>2, <1>3 DEF Table, PacingInv
    <3> QED BY <1>1, <1>5, <1>7, <1>8, <2>1, <3>1 DEF Covers, Unknown
  <2>2. CASE g # h
    <3>1. table[g] = t[g] /\ since'[g] = since[g]
      BY <1>2, <1>3, <2>2 DEF Table, PacingInv
    <3>2. Covers(t, since, g)
      BY <1>3
    <3> QED BY <3>1, <3>2 DEF Covers
  <2> QED BY <2>1, <2>2
<1>9. Store(table)
  BY <1>2
<1> HIDE DEF table
<1>10. allowed' \in Table /\ \A g \in Hosts \ early' : Covers(allowed', since', g)
  BY <1>4, <1>6, <1>8, <1>9, StoreCovers
<1>11. PacingInv'
  <2>1. fetch' \in [Fetches -> [step: {"idle", "waiting", "asking"}, host: Hosts \cup {NoHost}, due: Nat]]
    BY <1>2, <1>5 DEF PacingInv
  <2>2. \A g \in Hosts \ early' : Covers(allowed, since, g)'
    BY <1>4, <1>10 DEF Covers
  <2>3. \A k \in Fetches : fetch'[k].step \in {"waiting", "asking"} => fetch'[k].host \in Hosts
    BY <1>2 DEF PacingInv
  <2> QED BY <1>4, <1>6, <1>10, <2>1, <2>2, <2>3 DEF PacingInv
<1>12. fetch'[f].host = h /\ fetch'[f].due = Slot(t, h)
  BY <1>2 DEF PacingInv
<1> QED BY <1>7, <1>11, <1>12

(* A backoff pushes the host's time behind the protected interval. *)
LEMMA BlockedKeeps ==
  ASSUME PacingInv, NEW f \in Fetches, Blocked(f)
  PROVE  PacingInv'
<1> DEFINE t == Pruned(allowed)
           h == fetch[f].host
<1>1. Protected \in Nat /\ h \in Hosts
  BY PacingAssumption DEF Blocked, PacingInv
<1>2. /\ Store([t EXCEPT ![h] = Backoff(t, h)])
      /\ since' = [since EXCEPT ![h].block = now + Protected]
      /\ fetch' = [fetch EXCEPT ![f] = Idle]
  BY DEF Blocked
<1> HIDE DEF t, h
<1>3. t \in Table /\ \A g \in Hosts \ early : Covers(t, since, g)
  BY PrunedCovers DEF t
<1>4. now \in Nat /\ now' = now
  BY DEF PacingInv, Blocked
<1>5. Backoff(t, h) \in Nat /\ Backoff(t, h) >= now + Protected /\ (t[h] # Unknown => Backoff(t, h) >= t[h])
  BY <1>1, <1>3, <1>4 DEF Backoff, Later, NextAllowed, Table, Unknown
<1> DEFINE table == [t EXCEPT ![h] = Backoff(t, h)]
<1>6. table \in Table /\ since' \in [Hosts -> [slot: Nat, block: Nat]]
  <2>1. table \in Table
    BY <1>1, <1>3, <1>5 DEF Table
  <2>2. since \in [Hosts -> [slot: Nat, block: Nat]] /\ now + Protected \in Nat
    BY <1>1, <1>4 DEF PacingInv
  <2>3. [since[h] EXCEPT !.block = now + Protected] \in [slot: Nat, block: Nat]
    BY <1>1, <2>2
  <2> QED BY <1>2, <2>1, <2>2, <2>3
<1>7. ASSUME NEW g \in Hosts \ early PROVE Covers(table, since', g)
  <2>1. Covers(t, since, g) /\ since[g].slot \in Nat /\ since[g].block \in Nat /\ t[g] \in Nat \cup {Unknown}
    BY <1>3 DEF PacingInv, Table
  <2>2. CASE g = h
    <3>1. table[h] = Backoff(t, h) /\ since'[h].slot = since[h].slot /\ since'[h].block = now + Protected
      BY <1>1, <1>2, <1>3 DEF Table, PacingInv
    <3> QED BY <1>1, <1>4, <1>5, <2>1, <2>2, <3>1 DEF Covers, Unknown
  <2>3. CASE g # h
    <3>1. table[g] = t[g] /\ since'[g] = since[g]
      BY <1>2, <1>3, <2>3 DEF Table, PacingInv
    <3> QED BY <2>1, <3>1 DEF Covers
  <2> QED BY <2>2, <2>3
<1>8. Store(table)
  BY <1>2
<1> HIDE DEF table
<1>9. allowed' \in Table /\ \A g \in Hosts \ early' : Covers(allowed', since', g)
  BY <1>4, <1>6, <1>7, <1>8, StoreCovers
<1>10. \A g \in Hosts \ early' : Covers(allowed, since, g)'
  BY <1>4, <1>9 DEF Covers
<1> QED BY <1>2, <1>4, <1>6, <1>9, <1>10 DEF PacingInv, Idle

LEMMA TableInit == PacingInit => PacingInv
BY DEF PacingInit, PacingInv, Table, Covers, Idle, Unknown

LEMMA TableStep == PacingInv /\ [PacingNext]_pacingVars => PacingInv'
<1> SUFFICES ASSUME PacingInv, [PacingNext]_pacingVars PROVE PacingInv'
  OBVIOUS
<1>1. ASSUME NEW f \in Fetches, TakeSlot(f) PROVE PacingInv'
  BY <1>1, TakesSlot
<1>2. ASSUME NEW f \in Fetches, Ask(f) PROVE PacingInv'
  BY <1>2 DEF Ask, PacingInv, Covers
<1>3. ASSUME NEW f \in Fetches, Answered(f) PROVE PacingInv'
  BY <1>3 DEF Answered, PacingInv, Covers, Idle
<1>4. ASSUME NEW f \in Fetches, Blocked(f) PROVE PacingInv'
  BY <1>4, BlockedKeeps
<1>5. ASSUME Tick PROVE PacingInv'
  <2>1. now \in Nat /\ now' = now + 1 /\ since' = since /\ allowed' = allowed /\ early' = early /\ fetch' = fetch
    BY <1>5 DEF Tick, PacingInv
  <2>2. ASSUME NEW h \in Hosts \ early PROVE Covers(allowed, since, h)'
    <3>1. since[h].slot \in Nat /\ since[h].block \in Nat /\ Covers(allowed, since, h)
      BY DEF PacingInv
    <3> QED BY <2>1, <3>1 DEF Covers
  <2> QED BY <2>1, <2>2 DEF PacingInv
<1>6. CASE UNCHANGED pacingVars
  BY <1>6 DEF pacingVars, PacingInv, Covers
<1>7. ASSUME Reset PROVE PacingInv'
  <2>1. /\ now \in Nat /\ now' = now /\ since' = since /\ fetch' = fetch
        /\ allowed' = [h \in Hosts |-> Unknown]
        /\ early' = early \cup {h \in Hosts : allowed[h] > now}
    BY <1>7 DEF Reset, PacingInv
  <2>2. ASSUME NEW h \in Hosts \ early' PROVE Covers(allowed', since', h)
    <3>1. /\ since[h].slot \in Nat /\ since[h].block \in Nat /\ Covers(allowed, since, h)
          /\ allowed[h] \in Nat \cup {Unknown} /\ ~(allowed[h] > now)
      BY <2>1 DEF PacingInv, Table
    <3> QED BY <2>1, <3>1 DEF Covers, Unknown
  <2>3. allowed' \in Table
    BY <2>1 DEF Table
  <2>4. \A h \in Hosts \ early' : Covers(allowed, since, h)'
    BY <2>1, <2>2 DEF Covers
  <2> QED BY <2>1, <2>3, <2>4 DEF PacingInv
<1> QED BY <1>1, <1>2, <1>3, <1>4, <1>5, <1>6, <1>7 DEF PacingNext

(* What a step does that gives out a slot. *)
LEMMA TakesIsTakeSlot ==
  ASSUME PacingInv, [PacingNext]_pacingVars, NEW f \in Fetches, Takes(f)
  PROVE  TakeSlot(f)
<1>1. ASSUME NEW g \in Fetches, TakeSlot(g) PROVE TakeSlot(f)
  BY <1>1 DEF TakeSlot, Takes, PacingInv
<1>2. ASSUME NEW g \in Fetches, Ask(g) \/ Answered(g) \/ Blocked(g) PROVE FALSE
  BY <1>2 DEF Ask, Answered, Blocked, Takes, PacingInv, Idle
<1>3. ~Tick /\ ~Reset /\ ~UNCHANGED pacingVars
  BY DEF Tick, Reset, Takes, pacingVars
<1> QED BY <1>1, <1>2, <1>3 DEF PacingNext

(* The slots of a host are an interval apart (wait_for_host_slot). *)
THEOREM SlotsAreApart == PacingSpec => SlotsApart
<1>1. PacingInv /\ [PacingNext]_pacingVars =>
        [\A f \in Fetches : Takes(f) /\ fetch'[f].host \notin early
           => fetch'[f].due >= since[fetch'[f].host].slot]_pacingVars
  BY TakesSlot, TakesIsTakeSlot
<1> QED BY <1>1, TableInit, TableStep, PTL DEF PacingSpec, SlotsApart

(* No slot of a host begins within the protected interval after a block
   (apply_protected_host_backoff). *)
THEOREM BlocksHoldBack == PacingSpec => BlockHoldsBack
<1>1. PacingInv /\ [PacingNext]_pacingVars =>
        [\A f \in Fetches : Takes(f) /\ fetch'[f].host \notin early
           => fetch'[f].due >= since[fetch'[f].host].block]_pacingVars
  BY TakesSlot, TakesIsTakeSlot
<1> QED BY <1>1, TableInit, TableStep, PTL DEF PacingSpec, BlockHoldsBack

-----------------------------------------------------------------------------
(* What the fetch's variables hold. *)

Read      == [on: {TRUE}, policy: Policies, current: BOOLEAN]
Cached    == [on: {TRUE}, policy: Policies]
Note      == [on: {TRUE}, loaded: Row, changed: Row, overtaken: BOOLEAN,
              stamped: SUBSET {"blocked", "first", "good"}]
HttpState == [client: {"curl", "httpx"}, proxy: Nat, attempt: Nat, answer: Answers \cup {"none"}]
LaneAnswers == (BrowserAnswers \ {"good"}) \cup {"none"}

FetchTypes ==
  /\ row \in Row
  /\ cache \in Cached \cup {NoCache}
  /\ reading \in Read \cup {NoCache}
  /\ fill \in Read \cup {NoCache}
  /\ note \in Note \cup {NoNote}
  /\ siblings \in Nat
  /\ req \in Requests
  /\ policy \in Policies
  /\ http \in HttpState
  /\ DOMAIN lane = DOMAIN NoLane
  /\ lane.engines \in Seq(Engines) /\ lane.e \in Nat
  /\ lane.answer \in LaneAnswers
  /\ lane.answer # "none" => lane.by \in Engines
  /\ lane.met \subseteq LaneAnswers
  /\ result.via \in Methods \cup {"none"}
  /\ excused \in BOOLEAN

(* At the steps of a lane, and when a load returns to one. *)
At(steps) == pc \in steps \/ (pc \in {"load", "filling"} /\ back \in steps)

Stations ==
  /\ note.on => pc \in Noting
  /\ pc = "filling" <=> fill.on
  /\ pc \in {"load", "filling"} => back \in {"choose", "escalate", "extend"}
  /\ At({"note_http", "escalate"}) => http.answer \in Answers \ {"good"}
  /\ pc = "note_http" => http.answer \in Blocks
  /\ pc = "note_browser" => lane.answer \in Blocks
  /\ At({"browser", "note_browser", "extend"}) => lane.e \in 1..Len(lane.engines)
  /\ pc = "note_result" => /\ result.via \in Methods /\ result.answer \in Answers
                           /\ result.answer = "shell" => result.via = "http"

-----------------------------------------------------------------------------
(* The memory follows the result. *)

(* What the note of a result makes of the row. *)
Noted(r) ==
  IF result.answer \in Blocks THEN HardBlock(r, result.via, result.answer)
  ELSE UsableFetch(r, result.via)

NoteIsFresh ==
  note.on /\ pc = "note_result" /\ siblings = 0 =>
    /\ note.loaded = row /\ ~note.overtaken
    /\ note.changed = Noted(row)

-----------------------------------------------------------------------------
(* A confirmed block is remembered while its lane lasts. *)

Confirming == {"denied", "vendor"}

(* A browser met a confirmed block at this proxy, and its note was made. *)
BlockKnown ==
  /\ lane.met \cap Confirming # {}
  /\ pc = "note_browser" => lane.answer \notin Confirming

Eager(r) == r.first /\ r.blocked

PreferenceHeld ==
  ~excused =>
    /\ row.first /\ row.blocked
    /\ cache.on => cache.policy.prefer
    /\ reading.on /\ reading.current => reading.policy.prefer
    /\ fill.on /\ fill.current => fill.policy.prefer
    /\ note.on => Eager(note.changed)
    /\ pc = "extend" => policy.prefer
    /\ pc = "browser" /\ req.forced = "none" /\ req.chrome => Range(lane.engines) = Engines

BlocksRemembered ==
  /\ At({"choose", "handoff_first", "handoff", "http", "note_http", "escalate"}) => lane.met = {}
  /\ pc = "note_browser" /\ note.on /\ lane.answer \in Confirming =>
       Eager(note.changed) /\ {"blocked", "first"} \subseteq note.stamped
  /\ BlockKnown /\ At({"browser", "note_browser", "extend"}) => PreferenceHeld

FetchInv == FetchTypes /\ Stations /\ NoteIsFresh /\ BlocksRemembered
-----------------------------------------------------------------------------
(* The row and the policy. *)

LEMMA BlockCountInRange ==
  ASSUME NEW r \in Row
  PROVE  BlockCount(r) \in 0..Threshold
BY ThresholdAssumption DEF BlockCount, Row

LEMMA HardBlockIsRow ==
  ASSUME NEW r \in Row, NEW m \in Methods, NEW a
  PROVE  HardBlock(r, m, a) \in Row
<1> DEFINE n == BlockCount(r)
           v == a = "vendor"
           first == Prefers(r, a) \/ (r.blocked /\ r.first)
<1>1. n \in 0..Threshold
  BY BlockCountInRange
<1>2. v \in BOOLEAN /\ first \in BOOLEAN
  BY DEF Prefers, Row
<1>3. HardBlock(r, m, a) = [r EXCEPT !.count = n, !.vendor = v, !.blocked = TRUE, !.blockedBy = m,
                                     !.latest = "block", !.first = first]
  BY DEF HardBlock, Row
<1> HIDE DEF n, v, first
<1> QED BY <1>1, <1>2, <1>3 DEF Row

LEMMA UsableFetchIsRow ==
  ASSUME NEW r \in Row, NEW m \in Methods
  PROVE  UsableFetch(r, m) \in Row
<1> DEFINE first == m \in Engines /\ r.first
<1>1. first \in BOOLEAN
  BY DEF Row
<1>2. UsableFetch(r, m) = [r EXCEPT !.count = 0, !.good = TRUE, !.goodBy = m, !.latest = "good",
                                    !.first = first]
  BY DEF UsableFetch, Row
<1> DEFINE none == 0
<1>3. none \in 0..Threshold
  BY ThresholdAssumption
<1> HIDE DEF first, none
<1>4. [r EXCEPT !.count = none, !.good = TRUE, !.goodBy = m, !.latest = "good", !.first = first] \in Row
  BY <1>1, <1>3 DEF Row
<1> QED BY <1>2, <1>4 DEF none

(* A confirmed block makes the row prefer a browser, and no later block ends it. *)
LEMMA HardBlockIsEager ==
  ASSUME NEW r \in Row, NEW m, NEW a, a \in Confirming \/ Eager(r)
  PROVE  Eager(HardBlock(r, m, a))
BY DEF HardBlock, Prefers, Eager, Row, Confirming

LEMMA UsableFetchKeepsEager ==
  ASSUME NEW r \in Row, NEW m \in Engines, Eager(r)
  PROVE  Eager(UsableFetch(r, m))
BY DEF UsableFetch, Eager, Row

(* A note is for the method, whatever the row was. *)
LEMMA NotedPolicy ==
  ASSUME NEW r \in Row, NEW m \in Methods, NEW a
  PROVE  /\ Policy(HardBlock(r, m, a)).blockedBy = m
         /\ Policy(UsableFetch(r, m)).blockedBy = "none"
         /\ m = "http" => ~Policy(UsableFetch(r, m)).prefer
BY DEF HardBlock, UsableFetch, Policy, Row, Engines

LEMMA PolicyIsPolicy ==
  ASSUME NEW r \in Row
  PROVE  Policy(r) \in Policies /\ Policy(r).prefer = r.first
BY DEF Policy, Policies, Row

LEMMA FlushedIsRow ==
  ASSUME NEW r \in Row, NEW loaded \in Row, NEW changed \in Row, NEW stamped, NEW overtaken
  PROVE  LET new == Flushed(r, loaded, changed, stamped, overtaken) IN
         /\ new \in Row
         /\ Eager(changed) /\ (Eager(r) \/ {"blocked", "first"} \subseteq stamped) => Eager(new)
<1> DEFINE new == Flushed(r, loaded, changed, stamped, overtaken)
<1>1. DOMAIN changed = {"count", "vendor", "blocked", "blockedBy", "good", "goodBy", "latest", "first"}
  BY DEF Row
<1>2. /\ new.count \in {r.count, changed.count} /\ new.vendor \in {r.vendor, changed.vendor}
      /\ new.blocked \in {r.blocked, changed.blocked}
      /\ new.blockedBy \in {r.blockedBy, changed.blockedBy}
      /\ new.good \in {r.good, changed.good} /\ new.goodBy \in {r.goodBy, changed.goodBy}
      /\ new.latest \in {r.latest, changed.latest} /\ new.first \in {r.first, changed.first}
  BY <1>1 DEF Flushed
<1>3. new = [count |-> new.count, vendor |-> new.vendor, blocked |-> new.blocked,
             blockedBy |-> new.blockedBy, good |-> new.good, goodBy |-> new.goodBy,
             latest |-> new.latest, first |-> new.first]
  BY <1>1 DEF Flushed
<1>4. ASSUME Eager(changed), Eager(r) \/ {"blocked", "first"} \subseteq stamped
      PROVE  Eager(new)
  BY <1>1, <1>4 DEF Flushed, Eager
<1>5. new \in Row
  <2> HIDE DEF new
  <2> QED BY <1>2, <1>3 DEF Row
<1> QED BY <1>4, <1>5

(* A commit that nothing overtook leaves the row that the note made. *)
LEMMA FlushedAlone ==
  ASSUME NEW r \in Row, NEW changed \in Row, NEW stamped
  PROVE  Flushed(r, r, changed, stamped, FALSE) = changed
<1>1. /\ DOMAIN changed = {"count", "vendor", "blocked", "blockedBy", "good", "goodBy", "latest", "first"}
      /\ changed = [f \in DOMAIN changed |-> changed[f]]
  BY DEF Row
<1>2. \A f \in DOMAIN changed : changed[f] = r[f] \/ changed[f] # r[f]
  OBVIOUS
<1> QED BY <1>1, <1>2 DEF Flushed-----------------------------------------------------------------------------
(* The engines of a lane. *)

LEMMA AttemptsAreEngines ==
  ASSUME req \in Requests, NEW p \in Policies
  PROVE  /\ EngineAttempts(p) \in Seq(Engines) /\ Len(EngineAttempts(p)) \in 1..2
         /\ DurableAttempts(EngineAttempts(p), p) \in Seq(Engines)
         /\ Len(DurableAttempts(EngineAttempts(p), p)) \in 1..2
         /\ 1 \in 1..Len(DurableAttempts(EngineAttempts(p), p))
         /\ p.prefer /\ req.forced = "none" /\ req.chrome => Range(EngineAttempts(p)) = Engines
<1> DEFINE a == EngineAttempts(p)
<1>1. req.forced \in {"none"} \cup Engines /\ req.chrome \in BOOLEAN
  BY FetchAssumption
<1>2. a \in {<<e>> : e \in Engines} \cup {<<"real_chrome", "patchright">>, <<"patchright", "real_chrome">>}
  BY <1>1 DEF EngineAttempts, Engines
<1>3. a \in Seq(Engines) /\ Len(a) \in 1..2
  <2> HIDE DEF a
  <2>1. CASE a \in {<<e>> : e \in Engines}
    <3>1. PICK e \in Engines : a = <<e>>
      BY <2>1
    <3> QED BY <3>1
  <2>2. CASE a \in {<<"real_chrome", "patchright">>, <<"patchright", "real_chrome">>}
    <3>1. PICK d \in Engines, e \in Engines : a = <<d, e>>
      BY <2>2 DEF Engines
    <3> QED BY <3>1
  <2> QED BY <1>2, <2>1, <2>2
<1>4. p.prefer /\ req.forced = "none" /\ req.chrome =>
        a \in {<<"real_chrome", "patchright">>, <<"patchright", "real_chrome">>}
  BY <1>1 DEF EngineAttempts
<1>5. ASSUME a \in {<<"real_chrome", "patchright">>, <<"patchright", "real_chrome">>}
      PROVE  Range(a) = Engines
  <2> HIDE DEF a
  <2>1. DOMAIN a = 1..2
    BY <1>5
  <2>2. a[1] \in Engines /\ a[2] \in Engines /\ a[1] # a[2]
    BY <1>5 DEF Engines
  <2>3. Range(a) = {a[1], a[2]}
    BY <2>1 DEF Range
  <2> QED BY <2>2, <2>3 DEF Engines
<1>6. DurableAttempts(a, p) \in {a, <<a[1]>>, <<a[2]>>}
      /\ (DurableAttempts(a, p) = <<a[2]>> => Len(a) = 2 \/ a[1] = a[2])
  <2> HIDE DEF a
  <2> QED BY <1>3 DEF DurableAttempts
<1>7. /\ DurableAttempts(a, p) \in Seq(Engines) /\ Len(DurableAttempts(a, p)) \in 1..2
      /\ 1 \in 1..Len(DurableAttempts(a, p))
  <2> DEFINE d == DurableAttempts(a, p)
  <2> HIDE DEF a, d
  <2>1. a[1] \in Engines /\ (d = <<a[2]>> => a[2] \in Engines)
    BY <1>3, <1>6 DEF d
  <2>2. d = a \/ d = <<a[1]>> \/ d = <<a[2]>>
    BY <1>6 DEF d
  <2>3. d \in Seq(Engines) /\ (Len(d) = 1 \/ Len(d) = 2)
    BY <1>3, <2>1, <2>2
  <2>4. Len(d) \in 1..2
    BY <2>3
  <2>5. 1 \in 1..Len(d)
    BY <2>3
  <2> QED BY <2>3, <2>4, <2>5 DEF d
<1> QED BY <1>3, <1>4, <1>5, <1>7

(* Extending keeps the engines there are, and adds every engine for a policy that
   prefers a browser. *)
LEMMA ExtendingEngines ==
  ASSUME req \in Requests, NEW p \in Policies,
         NEW engines \in Seq(Engines), NEW e \in 1..Len(engines)
  PROVE  LET new == Extended(engines, engines[e], p) IN
         /\ new \in Seq(Engines) /\ Len(new) \in Nat
         /\ Len(new) >= Len(engines)
         /\ Len(new) = Len(engines) => new = engines
         /\ p.prefer /\ req.forced = "none" /\ req.chrome => Range(new) = Engines
<1> DEFINE found == Range(EngineAttempts(p)) \ ({engines[e]} \cup Range(engines))
           x == CHOOSE y \in found : TRUE
           new == Extended(engines, engines[e], p)
<1>1. engines[e] \in Range(engines) /\ Range(engines) \subseteq Engines
  BY DEF Range
<1>2. Range(EngineAttempts(p)) \subseteq Engines
  BY AttemptsAreEngines DEF Range
<1>3. new = IF found = {} THEN engines ELSE Append(engines, x)
  BY DEF Extended
<1>4. found # {} => x \in found
  OBVIOUS
<1>5. found = {} => Range(EngineAttempts(p)) \subseteq Range(engines)
  BY <1>1
<1>6. found # {} => Engines \subseteq Range(engines) \cup {x}
  BY <1>1, <1>2, <1>4 DEF Engines
<1>7. found \subseteq Engines
  BY <1>2
<1>8. p.prefer /\ req.forced = "none" /\ req.chrome => Range(EngineAttempts(p)) = Engines
  BY AttemptsAreEngines
<1> HIDE DEF found, x, new
<1>9. CASE found = {}
  BY <1>1, <1>3, <1>5, <1>8, <1>9 DEF new
<1>10. CASE found # {}
  <2>1. x \in Engines
    BY <1>4, <1>7, <1>10
  <2>2. new = Append(engines, x)
    BY <1>3, <1>10
  <2>3. new \in Seq(Engines) /\ Len(new) = Len(engines) + 1
    BY <2>1, <2>2
  <2>4. Range(new) = Range(engines) \cup {x}
    <3>1. /\ DOMAIN engines = 1..Len(engines) /\ DOMAIN new = 1..(Len(engines) + 1)
          /\ new[Len(engines) + 1] = x /\ \A i \in 1..Len(engines) : new[i] = engines[i]
      BY <2>1, <2>2, <2>3
    <3>2. \A y \in Range(new) : y \in Range(engines) \cup {x}
      BY <3>1 DEF Range
    <3>3. \A y \in Range(engines) \cup {x} : y \in Range(new)
      BY <3>1 DEF Range
    <3> QED BY <3>2, <3>3
  <2> QED BY <1>1, <1>6, <1>10, <2>1, <2>3, <2>4 DEF new
<1> QED BY <1>9, <1>10-----------------------------------------------------------------------------
(* The invariant holds at the beginning and under every step. *)

LEMMA FetchBegins == Init => FetchInv
<1> SUFFICES ASSUME Init PROVE FetchInv
  OBVIOUS
<1>1. NoBlocks \in Row
  BY ThresholdAssumption DEF NoBlocks, Row
<1>2. Policy(NoBlocks) \in Policies
  BY <1>1, PolicyIsPolicy
<1>3. PICK r \in Rows : row \in {r, Aged(r)} /\ cache \in {NoCache, [on |-> TRUE, policy |-> Policy(r)]}
  BY DEF Init
<1>4. r \in Row
  BY FetchAssumption
<1>5. Aged(r) \in Row
  BY <1>4 DEF Aged, Row
<1>6. cache \in Cached \cup {NoCache}
  <2>1. Policy(r) \in Policies
    BY <1>4, PolicyIsPolicy
  <2> DEFINE p == Policy(r)
  <2>2. p \in Policies /\ (cache = NoCache \/ cache = [on |-> TRUE, policy |-> p])
    BY <1>3, <2>1
  <2> HIDE DEF p
  <2>3. [on |-> TRUE, policy |-> p] \in Cached
    BY <2>2 DEF Cached
  <2> QED BY <2>2, <2>3
<1>7. http \in HttpState
  BY DEF Init, NoHttp, HttpState
<1>8. lane = NoLane /\ lane.engines \in Seq(Engines) /\ lane.e \in Nat /\ lane.answer = "none" /\ lane.met = {}
  BY DEF Init, NoLane
<1>9. FetchTypes
  BY <1>2, <1>3, <1>4, <1>5, <1>6, <1>7, <1>8 DEF FetchTypes, Init, NoResult, LaneAnswers
<1>10. pc = "load" /\ back = "choose" /\ ~note.on /\ ~fill.on
  BY DEF Init, NoNote, NoCache
<1> QED BY <1>8, <1>9, <1>10 DEF FetchInv, Stations, NoteIsFresh, BlocksRemembered, At, BlockKnown, Noting

(* Reading the policy of the host. *)
LEMMA LoadsKeep ==
  ASSUME FetchInv, LoadHit \/ LoadMiss \/ LoadPut
  PROVE  FetchInv'
<1> USE DEF FetchInv
<1>1. CASE LoadHit
  <2>1. cache \in Cached
    BY <1>1 DEF LoadHit, FetchTypes, NoCache
  <2>2. FetchTypes'
    BY <1>1, <2>1 DEF LoadHit, FetchTypes, Cached, hostVars, othersVars, seenVars
  <2>3. Stations' /\ NoteIsFresh'
    BY <1>1 DEF LoadHit, Stations, NoteIsFresh, Noted, At, Noting, Goto, hostVars, othersVars, seenVars
  <2>4. BlocksRemembered'
    BY <1>1 DEF LoadHit, BlocksRemembered, PreferenceHeld, BlockKnown, At, Stations, Noting, Goto,
                hostVars, othersVars, seenVars
  <2> QED BY <2>2, <2>3, <2>4
<1>2. CASE LoadMiss
  <2>1. fill' \in Read /\ fill'.policy.prefer = row.first
    BY <1>2, PolicyIsPolicy DEF LoadMiss, FetchTypes, Read
  <2>2. FetchTypes'
    BY <1>2, <2>1 DEF LoadMiss, FetchTypes, hostVars, othersVars, seenVars
  <2>3. Stations' /\ NoteIsFresh'
    BY <1>2, <2>1 DEF LoadMiss, Stations, NoteIsFresh, Noted, At, Noting, Goto, Read, hostVars, othersVars, seenVars
  <2>4. BlocksRemembered'
    BY <1>2, <2>1 DEF LoadMiss, BlocksRemembered, PreferenceHeld, BlockKnown, At, Stations, Noting, Goto,
                hostVars, othersVars, seenVars
  <2> QED BY <2>2, <2>3, <2>4
<1>3. CASE LoadPut
  <2>1. fill \in Read
    BY <1>3 DEF LoadPut, FetchTypes, Stations, NoCache
  <2>2. FetchTypes'
    BY <1>3, <2>1 DEF LoadPut, FetchTypes, Cached, Read, othersVars
  <2>3. Stations' /\ NoteIsFresh'
    BY <1>3 DEF LoadPut, Stations, NoteIsFresh, Noted, At, Noting, Goto, NoCache, othersVars
  <2>4. BlocksRemembered'
    BY <1>3, <2>1 DEF LoadPut, BlocksRemembered, PreferenceHeld, BlockKnown, At, Stations, Noting, Goto,
                othersVars, NoCache, Read
  <2> QED BY <2>2, <2>3, <2>4
<1> QED BY <1>1, <1>2, <1>3(* A note that is loaded and one that is committed or refused. *)
LEMMA NotesAreNotes ==
  ASSUME FetchTypes, NEW m \in Methods, NEW a
  PROVE  LET n == NoteFor(m, a) IN
         /\ n \in Note
         /\ n.loaded = row /\ n.overtaken = FALSE
         /\ n.changed = IF a \in Blocks THEN HardBlock(row, m, a) ELSE UsableFetch(row, m)
         /\ a \in Blocks /\ (a \in Confirming \/ Eager(row)) => Eager(n.changed)
         /\ a \in Confirming => {"blocked", "first"} \subseteq n.stamped
<1> DEFINE n == NoteFor(m, a)
<1>1. row \in Row
  BY DEF FetchTypes
<1>2. HardBlock(row, m, a) \in Row /\ UsableFetch(row, m) \in Row
  BY <1>1, HardBlockIsRow, UsableFetchIsRow
<1>3. a \in Confirming \/ Eager(row) => Eager(HardBlock(row, m, a))
  BY <1>1, HardBlockIsEager
<1>4. CASE a \in Blocks
  BY <1>1, <1>2, <1>3, <1>4 DEF NoteFor, Note, Prefers, Confirming
<1>5. CASE a \notin Blocks
  BY <1>1, <1>2, <1>5 DEF NoteFor, Note, Confirming, Blocks
<1> QED BY <1>4, <1>5

LEMMA NoteLoadsKeeps ==
  ASSUME FetchInv, NoteLoads
  PROVE  FetchInv'
<1> USE DEF FetchInv
<1> DEFINE m == IF pc = "note_http" THEN "http"
                ELSE IF pc = "note_browser" THEN lane.engines[lane.e] ELSE result.via
           a == IF pc = "note_http" THEN http.answer
                ELSE IF pc = "note_browser" THEN lane.answer ELSE result.answer
<1>1. note' = NoteFor(m, a)
  BY DEF NoteLoads
<1>2. m \in Methods
  <2>1. pc = "note_browser" => lane.engines[lane.e] \in Engines
    BY DEF FetchTypes, Stations, At
  <2> QED BY <2>1 DEF NoteLoads, Noting, Stations, Methods
<1>3. /\ note' \in Note /\ note'.loaded = row /\ ~note'.overtaken
      /\ note'.changed = IF a \in Blocks THEN HardBlock(row, m, a) ELSE UsableFetch(row, m)
      /\ a \in Blocks /\ (a \in Confirming \/ Eager(row)) => Eager(note'.changed)
      /\ a \in Confirming => {"blocked", "first"} \subseteq note'.stamped
  <2> HIDE DEF m, a
  <2> QED BY <1>1, <1>2, NotesAreNotes
<1>4. FetchTypes'
  BY <1>3 DEF NoteLoads, FetchTypes, hostVars, othersVars, seenVars
<1>5. Stations'
  BY <1>3 DEF NoteLoads, Stations, At, Noting, hostVars, othersVars, seenVars
<1>6. NoteIsFresh'
  BY <1>3 DEF NoteLoads, NoteIsFresh, Noted, Noting, hostVars, othersVars, seenVars
<1>7. BlocksRemembered'
  BY <1>3 DEF NoteLoads, BlocksRemembered, PreferenceHeld, BlockKnown, At, Stations, Noting, Eager,
              hostVars, othersVars, seenVars
<1> QED BY <1>4, <1>5, <1>6, <1>7

LEMMA OutdatedRead ==
  ASSUME NEW read \in Read \cup {NoCache}
  PROVE  LET new == Outdated(read) IN
         /\ new \in Read \cup {NoCache} /\ new.on = read.on
         /\ new.on => ~new.current
<1>1. CASE read = NoCache
  BY <1>1 DEF Outdated, NoCache
<1>2. CASE read \in Read
  <2>1. Outdated(read) = [read EXCEPT !.current = FALSE]
    BY <1>2 DEF Outdated, Read
  <2> QED BY <1>2, <2>1 DEF Read
<1> QED BY <1>1, <1>2

LEMMA AfterNotes ==
  ASSUME pc \in Noting, AfterNote(pc)
  PROVE  \/ pc = "note_http" /\ pc' = "load" /\ back' = "escalate"
         \/ pc = "note_browser" /\ pc' = "load" /\ back' = "extend"
         \/ pc = "note_result" /\ pc' = "done" /\ back' = back
<1>1. CASE pc = "note_http"
  BY <1>1 DEF AfterNote, LoadThen
<1>2. CASE pc = "note_browser"
  BY <1>2 DEF AfterNote, LoadThen
<1>3. CASE pc = "note_result"
  BY <1>3 DEF AfterNote
<1> QED BY <1>1, <1>2, <1>3 DEF Noting

LEMMA NoteEndsKeeps ==
  ASSUME FetchInv, NoteCommits \/ NoteRefused
  PROVE  FetchInv'
<1> USE DEF FetchInv
<1>1. CASE NoteCommits
  <2> DEFINE new == Flushed(row, note.loaded, note.changed, note.stamped, note.overtaken)
  <2>1. note \in Note /\ row \in Row
    BY <1>1 DEF NoteCommits, FetchTypes, NoNote
  <2>2. /\ new \in Row
        /\ Eager(note.changed) /\ (Eager(row) \/ {"blocked", "first"} \subseteq note.stamped) => Eager(new)
    BY <2>1, FlushedIsRow DEF Note
  <2>3. row' = new /\ cache' = NoCache /\ note' = NoNote /\ reading' = Outdated(reading)
    BY <1>1 DEF NoteCommits
  <2> HIDE DEF new
  <2>4. reading' \in Read \cup {NoCache} /\ (reading'.on => ~reading'.current)
    BY <2>3, OutdatedRead DEF FetchTypes
  <2>5. FetchTypes'
    BY <1>1, <2>2, <2>3, <2>4 DEF NoteCommits, FetchTypes, seenVars
  <2>6. Stations' /\ NoteIsFresh'
    BY <1>1, <2>3, AfterNotes DEF NoteCommits, Stations, NoteIsFresh, At, Noting, NoNote, seenVars
  <2>7. BlocksRemembered'
    BY <1>1, <2>2, <2>3, <2>4, AfterNotes DEF NoteCommits, BlocksRemembered, PreferenceHeld,
       BlockKnown, At, Stations, Noting, Eager, NoNote, NoCache, seenVars
  <2> QED BY <2>5, <2>6, <2>7
<1>2. CASE NoteRefused
  <2>1. note' = NoNote /\ excused'
    BY <1>2 DEF NoteRefused
  <2>2. FetchTypes'
    BY <1>2, <2>1 DEF NoteRefused, FetchTypes, hostVars, othersVars
  <2>3. Stations' /\ NoteIsFresh'
    BY <1>2, <2>1, AfterNotes DEF NoteRefused, Stations, NoteIsFresh, At, Noting, NoNote,
                      hostVars, othersVars
  <2>4. BlocksRemembered'
    BY <1>2, <2>1, AfterNotes DEF NoteRefused, BlocksRemembered, PreferenceHeld, At, Noting, NoNote,
                      Stations, hostVars, othersVars
  <2> QED BY <2>2, <2>3, <2>4
<1> QED BY <1>1, <1>2(* What siblings do to the memory keeps a preference, unless the fetch is excused. *)
LEMMA SiblingsKeep ==
  ASSUME FetchInv, Others
  PROVE  FetchInv'
<1> USE DEF FetchInv
<1>1. CASE SiblingNotes
  <2>1. PICK m \in Methods, a \in Answers :
          /\ row' = IF a \in Blocks THEN HardBlock(row, m, a) ELSE UsableFetch(row, m)
          /\ excused' = (excused \/ (m = "http" /\ a \notin Blocks))
    BY <1>1 DEF SiblingNotes
  <2>2. row \in Row
    BY DEF FetchTypes
  <2>3. row' \in Row
    BY <2>1, <2>2, HardBlockIsRow, UsableFetchIsRow
  <2>4. Eager(row) /\ ~excused' => Eager(row')
    <3>1. m \in Engines \/ m = "http"
      BY DEF Methods
    <3>2. CASE a \in Blocks
      BY <2>1, <2>2, <3>2, HardBlockIsEager
    <3>3. CASE a \notin Blocks
      BY <2>1, <2>2, <3>1, <3>3, UsableFetchKeepsEager
    <3> QED BY <3>2, <3>3
  <2>5. /\ cache' = NoCache /\ reading' = Outdated(reading) /\ fill' = Outdated(fill)
        /\ siblings' = siblings + 1 /\ siblings \in Nat
    BY <1>1 DEF SiblingNotes, FetchTypes
  <2>6. /\ note' \in Note \cup {NoNote} /\ note'.on = note.on
        /\ note.on => note'.changed = note.changed /\ note'.stamped = note.stamped
    <3>1. note' = IF note.on THEN [note EXCEPT !.overtaken = TRUE] ELSE note
      BY <1>1 DEF SiblingNotes
    <3>2. CASE note = NoNote
      BY <3>1, <3>2 DEF NoNote
    <3>3. CASE note \in Note
      <4>1. note' = [note EXCEPT !.overtaken = TRUE]
        BY <3>1, <3>3 DEF Note
      <4> QED BY <3>3, <4>1 DEF Note
    <3> QED BY <3>2, <3>3 DEF FetchTypes
  <2>7. /\ reading' \in Read \cup {NoCache} /\ fill' \in Read \cup {NoCache}
        /\ fill'.on = fill.on
        /\ reading'.on => ~reading'.current
        /\ fill'.on => ~fill'.current
    BY <2>5, OutdatedRead DEF FetchTypes
  <2>8. excused' \in BOOLEAN /\ (~excused' => ~excused)
    BY <2>1 DEF FetchTypes
  <2>9. UNCHANGED <<req, pc, back, policy, http, lane, result, hard, used>>
    BY <1>1 DEF SiblingNotes
  <2>10. FetchTypes'
    BY <2>3, <2>5, <2>6, <2>7, <2>8, <2>9 DEF FetchTypes
  <2>11. Stations' /\ NoteIsFresh'
    BY <2>5, <2>6, <2>7, <2>9 DEF Stations, NoteIsFresh, At, Noting
  <2>12. BlocksRemembered'
    BY <2>4, <2>5, <2>6, <2>7, <2>8, <2>9
       DEF BlocksRemembered, PreferenceHeld, BlockKnown, At, Eager, NoCache
  <2> QED BY <2>10, <2>11, <2>12
<1>2. CASE SiblingReads
  <2>1. reading' \in Read /\ reading'.policy.prefer = row.first
    BY <1>2, PolicyIsPolicy DEF SiblingReads, FetchTypes, Read
  <2>2. FetchTypes'
    BY <1>2, <2>1 DEF SiblingReads, FetchTypes, hostVars, fetchVars, seenVars
  <2>3. siblings \in Nat /\ siblings' = siblings + 1
    BY <1>2 DEF SiblingReads, FetchTypes
  <2>4. Stations' /\ NoteIsFresh'
    BY <1>2, <2>3 DEF SiblingReads, Stations, NoteIsFresh, At, Noting, hostVars, fetchVars, seenVars
  <2>5. BlocksRemembered'
    BY <1>2, <2>1 DEF SiblingReads, BlocksRemembered, PreferenceHeld, BlockKnown, At, hostVars, fetchVars, seenVars
  <2> QED BY <2>2, <2>4, <2>5
<1>3. CASE SiblingPuts
  <2>1. reading \in Read
    BY <1>3 DEF SiblingPuts, FetchTypes, NoCache
  <2>2. FetchTypes'
    BY <1>3, <2>1 DEF SiblingPuts, FetchTypes, Cached, Read, fetchVars
  <2>3. Stations' /\ NoteIsFresh'
    BY <1>3 DEF SiblingPuts, Stations, NoteIsFresh, Noted, At, Noting, fetchVars
  <2>4. BlocksRemembered'
    BY <1>3, <2>1 DEF SiblingPuts, BlocksRemembered, PreferenceHeld, BlockKnown, At, NoCache, Read, fetchVars
  <2> QED BY <2>2, <2>3, <2>4
<1> QED BY <1>1, <1>2, <1>3 DEF Others

(* A lane at its first attempt. *)
LEMMA LaneBegins ==
  ASSUME FetchTypes, NEW from, NEW proxies
  PROVE  LET l == LaneFor(from, proxies) IN
         /\ DOMAIN l = DOMAIN NoLane /\ l.engines \in Seq(Engines) /\ l.e = 1 /\ l.e \in Nat
         /\ l.answer = "none" /\ l.met = {} /\ l.e \in 1..Len(l.engines)
<1> DEFINE engines == DurableAttempts(EngineAttempts(policy), policy)
<1>1. engines \in Seq(Engines) /\ Len(engines) \in 1..2
  BY AttemptsAreEngines DEF FetchTypes
<1>2. LaneFor(from, proxies) = [NoLane EXCEPT !.from = from, !.proxies = proxies, !.engines = engines]
  BY DEF LaneFor
<1> HIDE DEF engines
<1> QED BY <1>1, <1>2 DEF NoLane

LEMMA NoLaneIsLane ==
  /\ NoLane.engines \in Seq(Engines) /\ NoLane.e \in Nat /\ NoLane.answer = "none" /\ NoLane.met = {}
BY DEF NoLane

(* The choice of the client, the hand-off and the HTTP attempts. *)
LEMMA HttpKeeps ==
  ASSUME FetchInv,
         Choose \/ SkipHandoff \/ HandoffFails \/ HandoffAnswers \/ HttpFails \/ HttpFallback
           \/ HttpAnswers \/ Escalate
  PROVE  FetchInv'
<1> USE DEF FetchInv
<1> USE DEF hostVars, othersVars, seenVars, Goto
<1>1. CASE Choose
  BY <1>1 DEF Choose, FetchTypes, Stations, NoteIsFresh, BlocksRemembered, At, Noting
<1>2. CASE SkipHandoff \/ HandoffFails
  <2>1. /\ UNCHANGED <<hostVars, othersVars, req, back, policy, fill, note, http, result, hard, excused>>
        /\ pc \in {"handoff_first", "handoff"}
        /\ NoHandoff
    BY <1>2 DEF SkipHandoff, HandoffFails
  <2>2. \/ pc' = "browser" /\ lane' = LaneFor("first", req.proxies)
        \/ pc' = "http" /\ lane' = NoLane
    BY <2>1 DEF NoHandoff, StartLane
  <2>3. /\ DOMAIN lane' = DOMAIN NoLane
        /\ lane'.engines \in Seq(Engines) /\ lane'.e \in Nat /\ lane'.answer = "none" /\ lane'.met = {}
        /\ pc' = "browser" => lane'.e \in 1..Len(lane'.engines)
    BY <2>2, LaneBegins, NoLaneIsLane
  <2>4. FetchTypes'
    BY <2>1, <2>3 DEF FetchTypes, LaneAnswers
  <2>5. Stations' /\ NoteIsFresh'
    BY <2>1, <2>2, <2>3 DEF Stations, NoteIsFresh, At, Noting
  <2>6. BlocksRemembered'
    BY <2>1, <2>2, <2>3 DEF BlocksRemembered, BlockKnown, At
  <2> QED BY <2>4, <2>5, <2>6
<1>3. CASE HandoffAnswers
  <2>1. result'.via = "http" /\ result'.answer = "good" /\ pc' = "note_result"
    BY <1>3 DEF HandoffAnswers
  <2>2. FetchTypes'
    BY <1>3, <2>1 DEF HandoffAnswers, FetchTypes, Methods
  <2>3. Stations' /\ NoteIsFresh'
    BY <1>3, <2>1 DEF HandoffAnswers, Stations, NoteIsFresh, At, Noting, Methods, Answers
  <2>4. BlocksRemembered'
    BY <1>3, <2>1 DEF HandoffAnswers, BlocksRemembered, BlockKnown, At
  <2> QED BY <2>2, <2>3, <2>4
<1>4. CASE HttpFails
  <2>1. http' \in HttpState
    <3>1. http \in HttpState /\ http' = NextHttp(http)
      BY <1>4 DEF HttpFails, FetchTypes
    <3> DEFINE one == 1
               again == http.attempt + 1
               next == http.proxy + 1
    <3>2. one \in Nat /\ again \in Nat /\ next \in Nat
      BY <3>1 DEF HttpState
    <3>3. \/ http' = [http EXCEPT !.attempt = again]
          \/ http' = [http EXCEPT !.proxy = next, !.attempt = one]
          \/ http' = [http EXCEPT !.client = "httpx", !.proxy = one, !.attempt = one]
      BY <3>1 DEF NextHttp
    <3> HIDE DEF one, again, next
    <3> QED BY <3>1, <3>2, <3>3 DEF HttpState
  <2>2. UNCHANGED <<hostVars, othersVars, req, pc, back, policy, fill, note, lane, result, hard, excused>>
        /\ pc = "http"
    BY <1>4 DEF HttpFails
  <2>3. FetchTypes'
    BY <2>1, <2>2 DEF FetchTypes
  <2>4. Stations' /\ NoteIsFresh' /\ BlocksRemembered'
    BY <2>2 DEF Stations, NoteIsFresh, BlocksRemembered, BlockKnown, At, Noting
  <2> QED BY <2>3, <2>4
<1>5. CASE HttpFallback
  <2>1. /\ UNCHANGED <<hostVars, othersVars, req, back, policy, fill, note, result, hard, excused>>
        /\ pc = "http" /\ pc' = "browser" /\ lane' = LaneFor("fallback", req.proxies) /\ http' = NoHttp
    BY <1>5 DEF HttpFallback, StartLane
  <2>2. /\ DOMAIN lane' = DOMAIN NoLane
        /\ lane'.engines \in Seq(Engines) /\ lane'.e \in Nat /\ lane'.answer = "none" /\ lane'.met = {}
        /\ lane'.e \in 1..Len(lane'.engines)
    BY <2>1, LaneBegins
  <2>3. FetchTypes'
    BY <2>1, <2>2 DEF FetchTypes, LaneAnswers, HttpState, NoHttp
  <2>4. Stations' /\ NoteIsFresh' /\ BlocksRemembered'
    BY <2>1, <2>2 DEF Stations, NoteIsFresh, BlocksRemembered, BlockKnown, At, Noting
  <2> QED BY <2>3, <2>4
<1>6. CASE HttpAnswers
  <2>1. PICK a \in Answers :
          /\ http' = [http EXCEPT !.answer = a]
          /\ result' = IF a = "good" THEN [via |-> "http", answer |-> a] ELSE result
          /\ pc' = CASE a = "good" -> "note_result" [] a = "shell" -> "escalate" [] OTHER -> "note_http"
    BY <1>6 DEF HttpAnswers
  <2>2. http' \in HttpState /\ http'.answer = a
    BY <2>1 DEF FetchTypes, HttpState
  <2>3. \/ a = "good" /\ pc' = "note_result" /\ result'.via = "http" /\ result'.answer = "good"
        \/ a = "shell" /\ pc' = "escalate" /\ result' = result
        \/ a \in Blocks /\ pc' = "note_http" /\ result' = result
    BY <2>1 DEF Answers, Blocks
  <2>4. UNCHANGED <<hostVars, othersVars, req, back, policy, fill, note, lane, hard, excused>> /\ pc = "http"
    BY <1>6 DEF HttpAnswers
  <2>5. FetchTypes'
    BY <2>2, <2>3, <2>4 DEF FetchTypes, Methods
  <2>6. Stations' /\ NoteIsFresh'
    BY <2>2, <2>3, <2>4 DEF Stations, NoteIsFresh, At, Noting, Methods, Answers, Blocks
  <2>7. BlocksRemembered'
    BY <2>3, <2>4 DEF BlocksRemembered, BlockKnown, At
  <2> QED BY <2>5, <2>6, <2>7
<1>7. CASE Escalate
  <2>1. /\ UNCHANGED <<hostVars, othersVars, req, back, policy, fill, note, excused>>
        /\ pc = "escalate" /\ http' = NoHttp
        /\ \/ pc' = "browser" /\ lane' = LaneFor("escalate", EscalationProxies(http)) /\ result' = result
           \/ /\ pc' = "note_result" /\ lane' = lane
              /\ result'.via = "http" /\ result'.answer = http.answer
    BY <1>7 DEF Escalate, StartLane
  <2>2. /\ DOMAIN lane' = DOMAIN NoLane
        /\ lane'.engines \in Seq(Engines) /\ lane'.e \in Nat /\ lane'.met = {}
        /\ pc' = "browser" => lane'.e \in 1..Len(lane'.engines) /\ lane'.answer = "none"
    BY <2>1, LaneBegins DEF FetchTypes, BlocksRemembered, At
  <2>3. FetchTypes'
    BY <2>1, <2>2 DEF FetchTypes, LaneAnswers, HttpState, NoHttp, Methods
  <2>4. Stations' /\ NoteIsFresh'
    BY <2>1, <2>2 DEF Stations, NoteIsFresh, At, Noting, Methods
  <2>5. BlocksRemembered'
    BY <2>1, <2>2 DEF BlocksRemembered, BlockKnown, At
  <2> QED BY <2>3, <2>4, <2>5
<1> QED BY <1>1, <1>2, <1>3, <1>4, <1>5, <1>6, <1>7(* The attempt after one that a browser raised in or was blocked in. *)
LEMMA NextAttemptKeeps ==
  ASSUME FetchInv, BrowserRaises \/ ExtendEngines
  PROVE  FetchInv'
<1> USE DEF FetchInv, hostVars, othersVars
<1> DEFINE engines == IF pc = "browser" THEN lane.engines
                      ELSE Extended(lane.engines, lane.engines[lane.e], policy)
           l == IF pc = "browser" THEN lane ELSE [lane EXCEPT !.engines = engines]
<1>u. /\ UNCHANGED <<hostVars, othersVars, req, back, policy, fill, note, http, hard, excused>>
      /\ pc \in {"browser", "extend"}
  BY DEF BrowserRaises, ExtendEngines, seenVars
<1>n. NextAttempt(l)
  BY DEF BrowserRaises, ExtendEngines
<1>t. /\ DOMAIN lane = DOMAIN NoLane /\ lane.engines \in Seq(Engines) /\ lane.e \in 1..Len(lane.engines)
      /\ policy \in Policies /\ req \in Requests
  BY <1>u DEF FetchTypes, Stations, At
<1>l. /\ DOMAIN l = DOMAIN NoLane /\ l.engines = engines /\ l.e = lane.e
      /\ l.answer = lane.answer /\ l.by = lane.by /\ l.met = lane.met
  <2> HIDE DEF engines
  <2>1. CASE pc = "browser"
    BY <1>t, <2>1 DEF engines
  <2>2. CASE pc # "browser"
    BY <1>t, <2>2 DEF NoLane
  <2> QED BY <2>1, <2>2
<1>e. /\ engines \in Seq(Engines) /\ Len(engines) \in Nat /\ Len(engines) >= Len(lane.engines)
      /\ lane.met \cap Confirming # {} /\ ~excused /\ req.forced = "none" /\ req.chrome
           => Range(engines) = Engines
  <2>1. CASE pc = "browser"
    BY <1>t, <2>1 DEF BlocksRemembered, PreferenceHeld, BlockKnown, At
  <2>2. CASE pc = "extend"
    <3>1. lane.met \cap Confirming # {} /\ ~excused => policy.prefer
      BY <2>2 DEF BlocksRemembered, PreferenceHeld, BlockKnown, At
    <3>2. engines = Extended(lane.engines, lane.engines[lane.e], policy)
      BY <2>2
    <3> HIDE DEF engines
    <3> QED BY <1>t, <3>1, <3>2, ExtendingEngines
  <2> QED BY <1>u, <2>1, <2>2
<1> HIDE DEF engines, l
<1>f. l.engines \in Seq(Engines) /\ l.e \in 1..Len(l.engines)
  BY <1>t, <1>l, <1>e
<1> DEFINE fresh == DurableAttempts(EngineAttempts(policy), policy)
<1>1. fresh \in Seq(Engines) /\ 1 \in 1..Len(fresh)
  BY AttemptsAreEngines DEF FetchTypes
<1>2. l.e \in Nat /\ l.e <= Len(l.engines) /\ Len(l.engines) \in Nat
  BY <1>f
<1>3. CASE l.e < Len(l.engines)
  <2>1. lane' = [l EXCEPT !.e = @ + 1] /\ pc' = "browser" /\ result' = result
    BY <1>n, <1>3 DEF NextAttempt, Goto
  <2>2. /\ DOMAIN lane' = DOMAIN NoLane /\ lane'.engines = l.engines /\ lane'.e = l.e + 1
        /\ lane'.answer = lane.answer /\ lane'.by = lane.by /\ lane'.met = lane.met
    BY <1>l, <2>1 DEF NoLane
  <2>3. lane'.e \in Nat /\ lane'.e \in 1..Len(lane'.engines)
    BY <1>2, <1>3, <2>2
  <2>4. FetchTypes'
    BY <1>u, <1>f, <1>l, <2>1, <2>2, <2>3 DEF FetchTypes
  <2>5. Stations' /\ NoteIsFresh'
    BY <1>u, <2>1, <2>3 DEF Stations, NoteIsFresh, At, Noting
  <2>6. BlocksRemembered'
    BY <1>u, <1>e, <1>l, <2>1, <2>2 DEF BlocksRemembered, PreferenceHeld, BlockKnown, At, Stations, Noting
  <2> QED BY <2>4, <2>5, <2>6
<1>4. CASE l.e = Len(l.engines) /\ l.i < Len(l.proxies)
  <2>1. lane' = NextProxy(l) /\ pc' = "browser" /\ result' = result
    BY <1>n, <1>2, <1>4 DEF NextAttempt, Goto
  <2>2. lane' = [l EXCEPT !.i = @ + 1, !.e = 1, !.met = {}, !.engines = fresh]
    BY <2>1 DEF NextProxy
  <2> HIDE DEF fresh
  <2>3. /\ DOMAIN lane' = DOMAIN NoLane /\ lane'.engines = fresh /\ lane'.e = 1
        /\ lane'.answer = lane.answer /\ lane'.by = lane.by /\ lane'.met = {}
    BY <1>l, <2>2 DEF NoLane
  <2>4. FetchTypes'
    BY <1>u, <1>1, <2>1, <2>3 DEF FetchTypes
  <2>5. lane'.e \in 1..Len(lane'.engines)
    BY <1>1, <2>3
  <2>6. Stations' /\ NoteIsFresh' /\ BlocksRemembered'
    BY <1>u, <2>1, <2>3, <2>5 DEF Stations, NoteIsFresh, BlocksRemembered, BlockKnown, At, Noting
  <2> QED BY <2>4, <2>5, <2>6
<1>5. CASE ~(l.e < Len(l.engines)) /\ ~(l.e = Len(l.engines) /\ l.i < Len(l.proxies))
  <2>1. LaneEnds
    BY <1>n, <1>5 DEF NextAttempt
  <2>2. CASE lane.answer # "none"
    <3>1. /\ lane' = lane /\ result'.via = lane.by /\ result'.answer = lane.answer
          /\ pc' \in {"done", "note_result"} /\ (pc' = "note_result" => lane.answer # "location")
      BY <2>1, <2>2 DEF LaneEnds, Goto
    <3>2. lane.by \in Engines /\ (pc' = "note_result" => lane.answer \in Blocks)
      BY <2>2, <3>1 DEF FetchTypes, LaneAnswers, BrowserAnswers, Answers
    <3>3. FetchTypes'
      BY <1>u, <3>1, <3>2 DEF FetchTypes, Methods
    <3>4. Stations' /\ NoteIsFresh' /\ BlocksRemembered'
      BY <1>u, <3>1, <3>2 DEF Stations, NoteIsFresh, BlocksRemembered, BlockKnown, At, Noting, Methods, Answers, Blocks
    <3> QED BY <3>3, <3>4
  <2>3. CASE lane.answer = "none"
    <3>1. /\ result' = result
          /\ \/ pc' = "failed" /\ lane' = lane
             \/ pc' = "handoff" /\ lane' = NoLane
      BY <2>1, <2>3 DEF LaneEnds, Goto
    <3>2. FetchTypes'
      BY <1>u, <3>1, NoLaneIsLane DEF FetchTypes, LaneAnswers
    <3>3. Stations' /\ NoteIsFresh' /\ BlocksRemembered'
      BY <1>u, <3>1, NoLaneIsLane DEF Stations, NoteIsFresh, BlocksRemembered, BlockKnown, At, Noting
    <3> QED BY <3>2, <3>3
  <2> QED BY <2>2, <2>3
<1> QED BY <1>3, <1>4, <1>5

LEMMA BrowserAnsweredKeeps ==
  ASSUME FetchInv, BrowserAnswered
  PROVE  FetchInv'
<1> USE DEF FetchInv
<1> USE DEF hostVars, othersVars, seenVars
<1>1. /\ UNCHANGED <<hostVars, othersVars, req, policy, fill, note, http, hard, excused>>
      /\ pc = "browser" /\ lane.e \in 1..Len(lane.engines) /\ lane.engines[lane.e] \in Engines
  BY DEF BrowserAnswered, FetchTypes, Stations, At
<1>2. PICK a \in BrowserAnswers :
        \/ /\ a = "good" /\ lane' = lane /\ back' = back /\ pc' \in {"done", "note_result"}
           /\ result' = [via |-> lane.engines[lane.e], answer |-> a]
        \/ /\ a # "good" /\ result' = result
           /\ lane' = Meets(lane, a)
           /\ \/ a = "location" /\ pc' = "load" /\ back' = "extend"
              \/ a # "location" /\ pc' = "note_browser" /\ back' = back
  BY DEF BrowserAnswered, Goto, LoadThen
<1>3. CASE a = "good"
  <2>1. /\ lane' = lane /\ back' = back /\ pc' \in {"done", "note_result"}
        /\ result'.via = lane.engines[lane.e] /\ result'.answer = "good"
    BY <1>2, <1>3 DEF Goto
  <2>2. FetchTypes'
    BY <1>1, <2>1 DEF FetchTypes, Methods
  <2>3. Stations' /\ NoteIsFresh' /\ BlocksRemembered'
    BY <1>1, <2>1 DEF Stations, NoteIsFresh, BlocksRemembered, BlockKnown, At, Noting, Methods, Answers
  <2> QED BY <2>2, <2>3
<1>4. CASE a # "good"
  <2>1. /\ result' = result
        /\ \/ a = "location" /\ pc' = "load" /\ back' = "extend"
           \/ a \in Blocks /\ pc' = "note_browser" /\ back' = back
    BY <1>2, <1>4 DEF Goto, LoadThen, BrowserAnswers, Answers
  <2>2. lane' = [lane EXCEPT !.answer = a, !.by = lane.engines[lane.e], !.met = lane.met \cup {a}]
    BY <1>2, <1>4 DEF Meets
  <2>3. /\ DOMAIN lane' = DOMAIN NoLane /\ lane'.engines = lane.engines /\ lane'.e = lane.e
        /\ lane'.answer = a /\ lane'.by = lane.engines[lane.e] /\ lane'.met = lane.met \cup {a}
    BY <2>2 DEF NoLane, FetchTypes
  <2>4. a \in LaneAnswers
    BY <1>4 DEF LaneAnswers
  <2>5. FetchTypes'
    BY <1>1, <2>1, <2>3, <2>4 DEF FetchTypes
  <2>6. Stations' /\ NoteIsFresh'
    BY <1>1, <2>1, <2>3 DEF Stations, NoteIsFresh, At, Noting
  <2>7. BlocksRemembered'
    BY <1>1, <2>1, <2>3 DEF BlocksRemembered, PreferenceHeld, BlockKnown, At, Stations, Noting, Confirming
  <2> QED BY <2>5, <2>6, <2>7
<1> QED BY <1>3, <1>4

LEMMA FetchStep == FetchInv /\ [Next]_vars => FetchInv'
<1> SUFFICES ASSUME FetchInv, [Next]_vars PROVE FetchInv'
  OBVIOUS
<1>1. CASE Fetch
  BY <1>1, LoadsKeep, NoteLoadsKeeps, NoteEndsKeeps, HttpKeeps, NextAttemptKeeps, BrowserAnsweredKeeps DEF Fetch
<1>2. CASE Others
  BY <1>2, SiblingsKeep
<1>3. CASE UNCHANGED vars
  BY <1>3 DEF vars, hostVars, othersVars, fetchVars, seenVars, FetchInv, FetchTypes, Stations, NoteIsFresh,
              BlocksRemembered, PreferenceHeld, BlockKnown, Noted, At
<1> QED BY <1>1, <1>2, <1>3 DEF Next

-----------------------------------------------------------------------------
(* How a fetch comes to return. *)
LEMMA WhenDone ==
  ASSUME FetchInv, Next, pc' = "done"
  PROVE  \/ NoteCommits /\ pc = "note_result"
         \/ excused'
         \/ lane'.from = "fallback"
         \/ result'.answer = "location"
<1> USE DEF FetchInv, Goto
<1>1. CASE LoadHit \/ LoadMiss \/ LoadPut
  BY <1>1 DEF LoadHit, LoadMiss, LoadPut, Stations
<1>2. CASE NoteLoads
  BY <1>2 DEF NoteLoads, Noting
<1>3. CASE NoteCommits
  BY <1>3, AfterNotes DEF NoteCommits
<1>4. CASE NoteRefused
  BY <1>4 DEF NoteRefused
<1>5. CASE Choose \/ SkipHandoff \/ HandoffFails \/ HandoffAnswers
  BY <1>5 DEF Choose, SkipHandoff, HandoffFails, HandoffAnswers, NoHandoff, StartLane
<1>6. CASE HttpFails \/ HttpFallback \/ HttpAnswers \/ Escalate
  <2>1. CASE HttpAnswers
    BY <2>1 DEF HttpAnswers
  <2> QED BY <1>6, <2>1 DEF HttpFails, HttpFallback, Escalate, StartLane
<1>7. CASE BrowserAnswered
  <2>1. PICK a \in BrowserAnswers :
          \/ lane' = lane /\ lane.from = "fallback"
          \/ pc' # "done"
    BY <1>7 DEF BrowserAnswered, LoadThen
  <2> QED BY <2>1
<1>8. CASE BrowserRaises \/ ExtendEngines
  <2>1. PICK l : l \in {lane, [lane EXCEPT !.engines = Extended(lane.engines, lane.engines[lane.e], policy)]}
                 /\ NextAttempt(l)
    BY <1>8 DEF BrowserRaises, ExtendEngines
  <2>2. LaneEnds \/ pc' = "browser"
    BY <2>1 DEF NextAttempt
  <2> QED BY <2>2 DEF LaneEnds
<1>9. CASE Others
  BY <1>9 DEF Others, SiblingNotes, SiblingReads, SiblingPuts, Ended, fetchVars
<1> QED BY <1>1, <1>2, <1>3, <1>4, <1>5, <1>6, <1>7, <1>8, <1>9 DEF Next, Fetch

LEMMA MemoryStep == FetchInv /\ MemoryFollowsResult /\ [Next]_vars => MemoryFollowsResult'
<1> SUFFICES ASSUME FetchInv, MemoryFollowsResult, [Next]_vars,
                    pc' = "done", ~excused', siblings' = 0, lane'.from # "fallback"
             PROVE  CASE result'.answer \in Blocks -> Policy(row').blockedBy = result'.via
                      [] result'.answer \in {"good", "shell"} ->
                           /\ Policy(row').blockedBy = "none"
                           /\ result'.via = "http" => ~Policy(row').prefer
                      [] OTHER -> TRUE
  BY DEF MemoryFollowsResult
<1>1. CASE UNCHANGED vars
  BY <1>1 DEF MemoryFollowsResult, vars, hostVars, othersVars, fetchVars, seenVars
<1>2. CASE Next /\ result'.answer = "location"
  BY <1>2 DEF Blocks
<1>3. CASE NoteCommits /\ pc = "note_result"
  <2>1. /\ note.on /\ siblings = 0 /\ result' = result
        /\ row' = Flushed(row, note.loaded, note.changed, note.stamped, note.overtaken)
    BY <1>3 DEF NoteCommits
  <2>2. /\ note.loaded = row /\ note.overtaken = FALSE /\ note.changed = Noted(row)
        /\ row \in Row /\ note.changed \in Row
    <3>1. note \in Note
      BY <2>1 DEF FetchInv, FetchTypes, NoNote
    <3>2. note.overtaken \in BOOLEAN /\ note.changed \in Row
      BY <3>1 DEF Note
    <3>3. note.loaded = row /\ ~note.overtaken /\ note.changed = Noted(row) /\ row \in Row
      BY <1>3, <2>1 DEF FetchInv, FetchTypes, NoteIsFresh
    <3> QED BY <3>2, <3>3
  <2>3. row' = Noted(row)
    <3>1. row' = Flushed(row, row, note.changed, note.stamped, FALSE)
      BY <2>1, <2>2
    <3> DEFINE changed == note.changed
               stamped == note.stamped
    <3>2. changed \in Row /\ changed = Noted(row) /\ row' = Flushed(row, row, changed, stamped, FALSE)
      BY <2>2, <3>1
    <3> HIDE DEF changed, stamped
    <3>3. row \in Row /\ changed \in Row
      BY <2>2, <3>2
    <3>4. Flushed(row, row, changed, stamped, FALSE) = changed
      BY <3>3, FlushedAlone
    <3> QED BY <3>2, <3>4
  <2>4. result.via \in Methods /\ result.answer \in Answers
    BY <1>3 DEF FetchInv, Stations
  <2>5. CASE result.answer \in Blocks
    <3>1. row' = HardBlock(row, result.via, result.answer)
      BY <2>3, <2>5 DEF Noted
    <3>2. Policy(row').blockedBy = result.via
      BY <2>2, <2>4, <3>1, NotedPolicy
    <3> QED BY <2>1, <2>5, <3>2 DEF Blocks
  <2>6. CASE result.answer \notin Blocks
    <3>1. row' = UsableFetch(row, result.via)
      BY <2>3, <2>6 DEF Noted
    <3>2. Policy(row').blockedBy = "none" /\ (result.via = "http" => ~Policy(row').prefer)
      BY <2>2, <2>4, <3>1, NotedPolicy
    <3>3. result.answer \in {"good", "shell"}
      BY <2>4, <2>6 DEF Answers
    <3> QED BY <2>1, <2>6, <3>2, <3>3 DEF Blocks
  <2> QED BY <2>5, <2>6
<1> QED BY <1>1, <1>2, <1>3, WhenDone

(* When a fetch that nothing interfered with returns, the host's memory agrees with
   what it returned, whatever the row said before, however the notes are flushed and
   whichever clients were used (note_host_hard_block, note_host_usable_fetch and
   _update_host_result_memory). *)
THEOREM FetchLeavesTrueMemory == Spec => []MemoryFollowsResult
<1>1. Init => MemoryFollowsResult
  BY DEF Init, MemoryFollowsResult
<1>2. FetchInv /\ MemoryFollowsResult /\ [Next]_vars => (FetchInv /\ MemoryFollowsResult)'
  BY FetchStep, MemoryStep
<1> QED BY <1>1, <1>2, FetchBegins, PTL DEF Spec

(* A proxy is not left after a confirmed block, nor a block returned, before both
   engines were tried there (_run_browser_attempts and
   _extend_browser_engine_attempts_after_block), whatever policies siblings left in
   the cache: the reload sees the block that was noted. *)
THEOREM BlockedProxyTriesAllEngines == Spec => ConfirmedBlockTriesEveryEngine
<1> DEFINE Leaves == /\ pc \in {"browser", "extend"}
                     /\ lane'.i # lane.i \/ pc' \in {"note_result", "done"}
                     /\ result'.answer # "good" /\ lane.met \cap {"denied", "vendor"} # {}
                     /\ req.forced = "none" /\ req.chrome /\ ~excused
<1>1. ASSUME FetchInv, Next, Leaves PROVE Range(lane.engines) = Engines
  <2>1. CASE pc = "browser"
    BY <1>1, <2>1 DEF FetchInv, BlocksRemembered, PreferenceHeld, BlockKnown, Confirming, At
  <2>2. CASE pc = "extend"
    <3> DEFINE engines == Extended(lane.engines, lane.engines[lane.e], policy)
               l == [lane EXCEPT !.engines = engines]
    <3>1. NextAttempt(l)
      <4>1. ~Others
        BY <1>1, <2>2 DEF Others, SiblingNotes, SiblingReads, SiblingPuts, fetchVars
      <4>2. ~(LoadHit \/ LoadMiss \/ LoadPut \/ NoteLoads \/ NoteCommits \/ NoteRefused
              \/ Choose \/ SkipHandoff \/ HandoffFails \/ HandoffAnswers
              \/ HttpFails \/ HttpFallback \/ HttpAnswers \/ Escalate \/ BrowserRaises \/ BrowserAnswered)
        BY <2>2 DEF LoadHit, LoadMiss, LoadPut, NoteLoads, NoteCommits, NoteRefused, Noting, Choose,
                    SkipHandoff, HandoffFails, HandoffAnswers, HttpFails, HttpFallback, HttpAnswers,
                    Escalate, BrowserRaises, BrowserAnswered
      <4>3. ExtendEngines
        BY <1>1, <4>1, <4>2 DEF Next, Fetch
      <4> QED BY <4>3 DEF ExtendEngines
    <3>2. /\ DOMAIN lane = DOMAIN NoLane /\ lane.engines \in Seq(Engines)
          /\ lane.e \in 1..Len(lane.engines) /\ policy \in Policies /\ req \in Requests /\ policy.prefer
      BY <1>1, <2>2 DEF FetchInv, FetchTypes, Stations, BlocksRemembered, PreferenceHeld, BlockKnown, Confirming, At
    <3>3. /\ Len(engines) \in Nat /\ Len(engines) >= Len(lane.engines)
          /\ Len(engines) = Len(lane.engines) => engines = lane.engines
          /\ Range(engines) = Engines
      BY <1>1, <3>2, ExtendingEngines
    <3> HIDE DEF engines
    <3>4. l.e = lane.e /\ l.i = lane.i /\ l.engines = engines
      BY <3>2 DEF NoLane
    <3>5. CASE lane.e < Len(engines)
      <4>1. lane' = [l EXCEPT !.e = @ + 1] /\ pc' = "browser"
        BY <3>1, <3>4, <3>5 DEF NextAttempt, Goto
      <4>2. lane'.i = lane.i
        BY <3>2, <4>1 DEF NoLane
      <4> QED BY <1>1, <4>1, <4>2
    <3>6. CASE ~(lane.e < Len(engines))
      BY <3>2, <3>3, <3>6
    <3> QED BY <3>5, <3>6
  <2> QED BY <1>1, <2>1, <2>2
<1>2. ASSUME FetchInv, [Next]_vars PROVE [Leaves => Range(lane.engines) = Engines]_vars
  BY <1>1, <1>2
<1>3. FetchInv /\ [Next]_vars => [Leaves => Range(lane.engines) = Engines]_vars
  BY <1>2
<1> QED BY <1>3, FetchBegins, FetchStep, PTL DEF Spec, ConfirmedBlockTriesEveryEngine

=============================================================================
