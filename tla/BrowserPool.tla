----------------------------- MODULE BrowserPool -----------------------------
(***************************************************************************)
(* The pool of shared browsers (acquisition/browser_runtime.py): fetches   *)
(* running as asyncio tasks take a runtime from the pool by its lane       *)
(* (engine and proxy), make sure its browser is up, queue for one of its   *)
(* permits, open a context, use the page and unwind.  A step runs from one *)
(* await that may suspend to the next; the counter and stats locks are     *)
(* never held across a suspension and are left out.                        *)
(***************************************************************************)
EXTENDS Naturals, FiniteSets

CONSTANTS
  Fetchers,      \* tasks fetching pages
  Keys, Direct,  \* pool lanes; those without a proxy
  Runtimes,      \* SharedBrowserRuntime objects, reused once collected
  None,
  MaxContexts,   \* permits of a runtime
  MaxEntries,    \* browser_runtime_pool_max_entries
  RecycleAfter,  \* browser_max_contexts_before_recycle
  MaxCancels,    \* bounds: of cancellations,
  MaxDeaths,     \* of browsers that die and pages that close,
  MaxTroubles    \* and of both together

ASSUME BrowserPoolAssumption ==
  /\ IsFiniteSet(Fetchers) /\ Direct \subseteq Keys
  /\ None \notin Runtimes \cup Fetchers \cup Keys
  /\ MaxContexts \in Nat \ {0} /\ MaxEntries \in Nat \ {0}
  /\ RecycleAfter \in Nat \ {0}
  /\ MaxCancels \in Nat /\ MaxDeaths \in Nat /\ MaxTroubles \in Nat

VARIABLES
  pool, poolLock, victims,        \* _BROWSER_POOL; runtimes yet to be evicted
  browser, lock,                  \* _browser and its connection; _lock
  permits, active, queued, created,
  pc, want, rt, page, attempt, victim,   \* the fetches
  cancels, deaths

poolVars    == <<pool, poolLock, victims>>
countVars   == <<permits, active, queued, created>>
runtimeVars == <<browser, lock, countVars>>
fetchVars   == <<pc, want, rt, page, attempt, victim>>
vars == <<poolVars, runtimeVars, fetchVars, cancels, deaths>>

-----------------------------------------------------------------------------
(* Where a fetch may be suspended *)

EvictPoints == {"evictlock", "evictclose", "evictnext"} \* holding the pool's lock
ClosePoints == {"recycle", "reclose", "evictclose"}     \* closing a browser
EnsurePoints == {"ensure", "recycle", "launch"}         \* in _ensure
BootPoints  == {"opening", "context", "relock", "reclose"}
Points == {"idle", "wantpool", "queued", "using", "persist", "ctxclose"}
            \cup EvictPoints \cup EnsurePoints \cup BootPoints

(* The fetch has its permit and counts as an active context; attempt 1 is
   the second round of _open_context_page, which re-enters _ensure. *)
Booting(f) == pc[f] \in BootPoints \/ (pc[f] \in EnsurePoints /\ attempt[f] = 1)

Active(f)  == Booting(f) \/ pc[f] = "using"
Holding(f) == Active(f) \/ pc[f] \in {"persist", "ctxclose"}
InLock(f)  == pc[f] \in ClosePoints \cup {"launch"}

Users(i)  == {f \in Fetchers : rt[f] = i}
Pooled    == {pool[k] : k \in Keys} \ {None}
KeyOf(i)  == CHOOSE k \in Keys : pool[k] = i
Idle(i)   == active[i] = 0 /\ queued[i] = 0

ShouldRecycle(i) == browser[i] = "dead" \/ (browser[i] = "up" /\ created[i] = RecycleAfter)
Ready(i)         == browser[i] = "up" /\ ~ShouldRecycle(i)

(* The pages open on a browser go down with it. *)
PagesLost(i) ==
  [f \in Fetchers |-> IF rt[f] = i /\ page[f] = "live" THEN "dead" ELSE page[f]]

Goto(f, p) == pc' = [pc EXCEPT ![f] = p]

-----------------------------------------------------------------------------
(* Pieces of a step *)

(* The fetch raises or is done: it forgets its runtime. *)
Leave(f) ==
  /\ Goto(f, "idle")
  /\ rt' = [rt EXCEPT ![f] = None]
  /\ page' = [page EXCEPT ![f] = "none"]
  /\ attempt' = [attempt EXCEPT ![f] = 0]
  /\ want' = [want EXCEPT ![f] = None]
  /\ victim' = [victim EXCEPT ![f] = None]

(* Faulty variant: a page() that fails stays counted. *)
Unwind_StillActive(f) ==
  /\ permits' = [permits EXCEPT ![rt[f]] = @ + 1]
  /\ Leave(f)
  /\ UNCHANGED active

(* It had a permit and no context yet: the finally clause of page(). *)
Unwind(f) ==
  LET i == rt[f] IN
  /\ active' = [active EXCEPT ![i] = @ - 1]
  /\ permits' = [permits EXCEPT ![i] = @ + 1]
  /\ Leave(f)

Abandon(f) ==
  IF Booting(f) THEN Unwind(f) /\ UNCHANGED <<queued, created>>
                ELSE Leave(f) /\ UNCHANGED countVars

(* page() after _ensure on runtime i: a free permit that nobody waits for is
   taken without suspending. *)
Enqueue(f, i) ==
  IF permits[i] > 0 /\ \A g \in Users(i) : pc[g] /= "queued"
  THEN /\ Goto(f, "opening")
       /\ permits' = [permits EXCEPT ![i] = @ - 1]
       /\ active' = [active EXCEPT ![i] = @ + 1]
       /\ UNCHANGED queued
  ELSE /\ Goto(f, "queued")
       /\ queued' = [queued EXCEPT ![i] = @ + 1]
       /\ UNCHANGED <<permits, active>>

(* get_browser_runtime returned i; page() starts with _ensure. *)
Arrive(f, i) ==
  /\ rt' = [rt EXCEPT ![f] = i]
  /\ want' = [want EXCEPT ![f] = None]
  /\ victim' = [victim EXCEPT ![f] = None]
  /\ IF Ready(i) THEN Enqueue(f, i)
     ELSE Goto(f, "ensure") /\ UNCHANGED <<permits, active, queued>>
  /\ UNCHANGED <<created, page, attempt>>

(* _ensure returned with a connected browser: on to the semaphore, or back to
   new_context in the second attempt. *)
Ensured(f) ==
  IF attempt[f] = 1
  THEN /\ Goto(f, "context")
       /\ page' = [page EXCEPT ![f] = "live"]
       /\ UNCHANGED <<permits, active, queued, rt, want, attempt, victim>>
  ELSE /\ Enqueue(f, rt[f])
       /\ UNCHANGED <<page, rt, want, attempt, victim>>

-----------------------------------------------------------------------------
(* Taking a runtime from the pool *)

(* Without the lock: a hit returns at once. *)
Get(f, k) ==
  /\ pc[f] = "idle"
  /\ IF pool[k] /= None
     THEN Arrive(f, pool[k])
     ELSE /\ Goto(f, "wantpool")
          /\ want' = [want EXCEPT ![f] = k]
          /\ UNCHANGED <<rt, page, attempt, victim, countVars>>
  /\ UNCHANGED <<poolVars, browser, lock, cancels, deaths>>

(* A runtime object nobody refers to; the fetch that creates one has done with
   its victims. *)
Unreferenced(i) == i \notin Pooled /\ Users(i) = {}

(* The rest of get_browser_runtime, after the eviction. *)
GetOrCreate(f, k) ==
  \/ /\ pool[k] /= None
     /\ Arrive(f, pool[k])
     /\ UNCHANGED <<pool, browser, lock>>
  \/ /\ pool[k] = None
     /\ \E i \in Runtimes :
          /\ Unreferenced(i)
          /\ pool' = [pool EXCEPT ![k] = i]
          /\ browser' = [browser EXCEPT ![i] = "none"]
          /\ lock' = [lock EXCEPT ![i] = None]
          /\ permits' = [permits EXCEPT ![i] = MaxContexts]
          /\ active' = [active EXCEPT ![i] = 0]
          /\ queued' = [queued EXCEPT ![i] = 0]
          /\ created' = [created EXCEPT ![i] = 0]
          /\ rt' = [rt EXCEPT ![f] = i]
     /\ Goto(f, "ensure")
     /\ want' = [want EXCEPT ![f] = None]
     /\ victim' = [victim EXCEPT ![f] = None]
     /\ UNCHANGED <<page, attempt>>

(* Faulty variant: an eviction goes by the idle TTL alone. *)
Selections_TtlOnly == {S \in SUBSET {i \in Pooled : Idle(i)} : \A i \in S : Users(i) = {}}

(* What an eviction selects: idle runtimes past the idle TTL (one that a fetch
   refers to was touched since), then idle ones until the pool has room for
   another entry or none is left.  The least recently touched go first; which
   that is depends on times the model does not keep. *)
Selections ==
  LET idle == {i \in Pooled : Idle(i)}
      left(S) == Cardinality(Pooled) - Cardinality(S)
  IN {S \in SUBSET idle :
        /\ left(S) < MaxEntries \/ S = idle
        /\ \E T \in SUBSET S :
             /\ \A i \in T : Users(i) = {}
             /\ T = S \/ left(S) >= MaxEntries - 1}

(* The eviction removes v from the pool and goes to close it. *)
PopVictim(f, v, rest) ==
  /\ pool' = [pool EXCEPT ![KeyOf(v)] = None]
  /\ victims' = rest
  /\ victim' = [victim EXCEPT ![f] = v]
  /\ Goto(f, "evictlock")
  /\ UNCHANGED <<runtimeVars, want, rt, page, attempt>>

(* The pool's lock is free.  A direct lane looks again before it evicts, a
   proxied lane after. *)
EnterPool(f) ==
  /\ pc[f] = "wantpool" /\ poolLock = None
  /\ UNCHANGED <<cancels, deaths>>
  /\ IF want[f] \in Direct /\ pool[want[f]] /= None
     THEN GetOrCreate(f, want[f]) /\ UNCHANGED <<poolLock, victims>>
     ELSE \E S \in Selections :
            \/ /\ S = {}
               /\ GetOrCreate(f, want[f])
               /\ UNCHANGED <<poolLock, victims>>
            \/ \E v \in S : PopVictim(f, v, S \ {v}) /\ poolLock' = f

(* runtime.close() has the runtime's lock: there may be nothing to close. *)
EvictLock(f) ==
  LET v == victim[f] IN
  /\ pc[f] = "evictlock" /\ lock[v] = None
  /\ IF browser[v] = "none"
     THEN Goto(f, "evictnext") /\ UNCHANGED lock
     ELSE Goto(f, "evictclose") /\ lock' = [lock EXCEPT ![v] = f]
  /\ UNCHANGED <<poolVars, browser, countVars, want, rt, page, attempt, victim,
                 cancels, deaths>>

(* _close_locked came to its end on runtime i. *)
Closed(i) ==
  /\ browser' = [browser EXCEPT ![i] = "none"]
  /\ page' = PagesLost(i)

EvictClosed(f) ==
  /\ pc[f] = "evictclose"
  /\ Closed(victim[f])
  /\ lock' = [lock EXCEPT ![victim[f]] = None]
  /\ Goto(f, "evictnext")
  /\ UNCHANGED <<poolVars, countVars, want, rt, attempt, victim, cancels, deaths>>

(* The next victim, or the end of the eviction and of the locked section. *)
EvictNext(f) ==
  /\ pc[f] = "evictnext"
  /\ \/ \E v \in victims :
          PopVictim(f, v, victims \ {v}) /\ UNCHANGED poolLock
     \/ /\ victims = {}
        /\ GetOrCreate(f, want[f])
        /\ poolLock' = None
        /\ UNCHANGED victims
  /\ UNCHANGED <<cancels, deaths>>

-----------------------------------------------------------------------------
(* _ensure: the browser is launched, or recycled and launched, under _lock *)

(* Faulty variants: _ensure does not take the lock; it does not look at the
   browser again once it has it. *)
EnsureLock_Open(f) ==
  LET i == rt[f] IN
  /\ pc[f] = "ensure"
  /\ IF Ready(i)
     THEN Ensured(f) /\ UNCHANGED <<lock, created>>
     ELSE /\ Goto(f, IF browser[i] = "none" THEN "launch" ELSE "recycle")
          /\ lock' = [lock EXCEPT ![i] = f]
          /\ UNCHANGED <<countVars, want, rt, page, attempt, victim>>
  /\ UNCHANGED <<poolVars, browser, cancels, deaths>>

EnsureLock(f) ==
  LET i == rt[f] IN
  /\ pc[f] = "ensure" /\ lock[i] = None
  /\ IF Ready(i)
     THEN Ensured(f) /\ UNCHANGED <<lock, created>>
     ELSE /\ Goto(f, IF browser[i] = "none" THEN "launch" ELSE "recycle")
          /\ lock' = [lock EXCEPT ![i] = f]
          /\ UNCHANGED <<countVars, want, rt, page, attempt, victim>>
  /\ UNCHANGED <<poolVars, browser, cancels, deaths>>

(* Faulty variant: recycling calls close(), which waits for the lock it holds. *)
Recycled_Relocks(f) ==
  /\ pc[f] = "recycle" /\ lock[rt[f]] = None
  /\ Closed(rt[f])
  /\ Goto(f, "launch")
  /\ UNCHANGED <<poolVars, lock, countVars, want, rt, attempt, victim, cancels, deaths>>

Recycled(f) ==
  /\ pc[f] = "recycle"
  /\ Closed(rt[f])
  /\ Goto(f, "launch")
  /\ UNCHANGED <<poolVars, lock, countVars, want, rt, attempt, victim, cancels, deaths>>

Launched(f) ==
  LET i == rt[f] IN
  /\ pc[f] = "launch"
  /\ browser' = [browser EXCEPT ![i] = "up"]
  /\ created' = [created EXCEPT ![i] = 0]
  /\ lock' = [lock EXCEPT ![i] = None]
  /\ Ensured(f)
  /\ UNCHANGED <<poolVars, cancels, deaths>>

LaunchFails(f) ==
  /\ pc[f] = "launch"
  /\ lock' = [lock EXCEPT ![rt[f]] = None]
  /\ Abandon(f)
  /\ UNCHANGED <<poolVars, browser, cancels, deaths>>

-----------------------------------------------------------------------------
(* page(): the permit, the context, the page, the unwinding *)

(* A permit arrived; the browser may have been closed since _ensure. *)
Acquire(f) ==
  LET i == rt[f] IN
  /\ pc[f] = "queued" /\ permits[i] > 0
  /\ queued' = [queued EXCEPT ![i] = @ - 1]
  /\ IF browser[i] = "none"
     THEN Leave(f) /\ UNCHANGED <<permits, active>>
     ELSE /\ Goto(f, "opening")
          /\ permits' = [permits EXCEPT ![i] = @ - 1]
          /\ active' = [active EXCEPT ![i] = @ + 1]
          /\ UNCHANGED <<want, rt, page, attempt, victim>>
  /\ UNCHANGED <<poolVars, browser, lock, created, cancels, deaths>>

(* The stored cookies are loaded: new_context goes to the current browser. *)
OpenContext(f) ==
  LET i == rt[f] IN
  /\ pc[f] = "opening"
  /\ IF browser[i] = "none"
     THEN Unwind(f) /\ UNCHANGED <<queued, created>>
     ELSE /\ Goto(f, "context")
          /\ page' = [page EXCEPT ![f] = IF browser[i] = "up" THEN "live" ELSE "dead"]
          /\ UNCHANGED <<countVars, want, rt, attempt, victim>>
  /\ UNCHANGED <<poolVars, browser, lock, cancels, deaths>>

Counted(i) == [created EXCEPT ![i] = IF @ < RecycleAfter THEN @ + 1 ELSE @]

Opened(f) ==
  /\ pc[f] = "context" /\ page[f] = "live"
  /\ created' = Counted(rt[f])
  /\ Goto(f, "using")
  /\ UNCHANGED <<poolVars, browser, lock, permits, active, queued, want, rt, page,
                 attempt, victim, cancels, deaths>>

(* A browser or a page goes, within the bounds. *)
Dies ==
  /\ deaths < MaxDeaths /\ cancels + deaths < MaxTroubles
  /\ deaths' = deaths + 1

(* A lost connection, or a page closed in a browser that lives, is retried once
   over a recycled browser, anything else is raised; the context may have been
   counted before it failed. *)
OpenFails(f) ==
  /\ pc[f] = "context"
  /\ created' \in {created, Counted(rt[f])}
  /\ \/ /\ attempt[f] = 0
        /\ IF page[f] = "dead" THEN UNCHANGED deaths ELSE Dies
        /\ Goto(f, "relock")
        /\ attempt' = [attempt EXCEPT ![f] = 1]
        /\ page' = [page EXCEPT ![f] = "none"]
        /\ UNCHANGED <<permits, active, queued, want, rt, victim>>
     \/ /\ page[f] # "dead" \/ attempt[f] = 1
        /\ Unwind(f) /\ UNCHANGED <<queued, deaths>>
  /\ UNCHANGED <<poolVars, browser, lock, cancels>>

(* _recycle_after_driver_disconnect closes the browser it finds. *)
DisconnectLock(f) ==
  LET i == rt[f] IN
  /\ pc[f] = "relock" /\ lock[i] = None
  /\ IF browser[i] = "none"
     THEN Goto(f, "ensure") /\ UNCHANGED lock
     ELSE Goto(f, "reclose") /\ lock' = [lock EXCEPT ![i] = f]
  /\ UNCHANGED <<poolVars, browser, countVars, want, rt, page, attempt, victim,
                 cancels, deaths>>

DisconnectClosed(f) ==
  /\ pc[f] = "reclose"
  /\ Closed(rt[f])
  /\ lock' = [lock EXCEPT ![rt[f]] = None]
  /\ Goto(f, "ensure")
  /\ UNCHANGED <<poolVars, countVars, want, rt, attempt, victim, cancels, deaths>>

(* The caller is done with the page, fails on it or is cancelled. *)
UseEnds(f) ==
  /\ pc[f] = "using"
  /\ active' = [active EXCEPT ![rt[f]] = @ - 1]
  /\ page' = [page EXCEPT ![f] = "none"]
  /\ Goto(f, "persist")
  /\ UNCHANGED <<poolVars, browser, lock, permits, queued, created, want, rt,
                 attempt, victim, cancels, deaths>>

(* The cookies are stored, or that timed out or failed. *)
Persisted(f) ==
  /\ pc[f] = "persist"
  /\ Goto(f, "ctxclose")
  /\ UNCHANGED <<poolVars, runtimeVars, want, rt, page, attempt, victim, cancels, deaths>>

(* The context is closed, or that timed out, failed or was cancelled. *)
ContextClosed(f) ==
  /\ pc[f] = "ctxclose"
  /\ permits' = [permits EXCEPT ![rt[f]] = @ + 1]
  /\ Leave(f)
  /\ UNCHANGED <<poolVars, browser, lock, active, queued, created, cancels, deaths>>

-----------------------------------------------------------------------------
(* Cancellation and browser failures *)

(* CancelledError at the await f is suspended at (URL timeout, hard kill).
   A wait for a permit decrements the queue count only on an Exception; an
   interrupted close has cut the connection and leaves _browser set; interrupted
   cookie persistence skips the release of the permit. *)
Cancel(f) ==
  LET i == IF pc[f] \in EvictPoints THEN victim[f] ELSE rt[f] IN
  /\ pc[f] \notin {"idle", "using", "ctxclose", "evictnext"}
  /\ cancels < MaxCancels /\ cancels + deaths < MaxTroubles
  /\ cancels' = cancels + 1
  /\ IF pc[f] \in EvictPoints
     THEN poolLock' = None /\ victims' = {}
     ELSE UNCHANGED <<poolLock, victims>>
  /\ IF InLock(f) THEN lock' = [lock EXCEPT ![i] = None] ELSE UNCHANGED lock
  /\ pc[f] \in ClosePoints => browser[i] = "dead"
  /\ Abandon(f)
  /\ UNCHANGED <<pool, browser, deaths>>

(* The connection of a browser being closed goes before the close returns. *)
Disconnects(f) ==
  LET i == IF pc[f] = "evictclose" THEN victim[f] ELSE rt[f] IN
  /\ pc[f] \in ClosePoints
  /\ browser[i] = "up"
  /\ browser' = [browser EXCEPT ![i] = "dead"]
  /\ page' = PagesLost(i)
  /\ UNCHANGED <<poolVars, lock, countVars, pc, want, rt, attempt, victim, cancels, deaths>>

BrowserDies(i) ==
  /\ browser[i] = "up" /\ Dies
  /\ browser' = [browser EXCEPT ![i] = "dead"]
  /\ page' = PagesLost(i)
  /\ UNCHANGED <<poolVars, lock, countVars, pc, want, rt, attempt, victim, cancels>>

(* browser_max_lifetime_seconds has passed: the same to _should_recycle_browser
   as the context limit, and a launch resets both. *)
Expire(i) ==
  /\ browser[i] = "up"
  /\ created' = [created EXCEPT ![i] = RecycleAfter]
  /\ UNCHANGED <<poolVars, browser, lock, permits, active, queued, fetchVars, cancels, deaths>>

-----------------------------------------------------------------------------
Init ==
  /\ pool = [k \in Keys |-> None] /\ poolLock = None /\ victims = {}
  /\ browser = [i \in Runtimes |-> "none"] /\ lock = [i \in Runtimes |-> None]
  /\ permits = [i \in Runtimes |-> MaxContexts]
  /\ active = [i \in Runtimes |-> 0] /\ queued = [i \in Runtimes |-> 0]
  /\ created = [i \in Runtimes |-> 0]
  /\ pc = [f \in Fetchers |-> "idle"] /\ want = [f \in Fetchers |-> None]
  /\ rt = [f \in Fetchers |-> None] /\ page = [f \in Fetchers |-> "none"]
  /\ attempt = [f \in Fetchers |-> 0] /\ victim = [f \in Fetchers |-> None]
  /\ cancels = 0 /\ deaths = 0

(* Steps that wait for a lock or a permit, and the others. *)
Take(f) == EnterPool(f) \/ EvictLock(f) \/ EnsureLock(f) \/ DisconnectLock(f) \/ Acquire(f)

Proceed(f) ==
  \/ EvictClosed(f) \/ EvictNext(f)
  \/ Recycled(f) \/ Launched(f) \/ LaunchFails(f)
  \/ OpenContext(f) \/ Opened(f) \/ OpenFails(f) \/ DisconnectClosed(f)
  \/ UseEnds(f) \/ Persisted(f) \/ ContextClosed(f)

Next ==
  \/ \E f \in Fetchers :
       (\E k \in Keys : Get(f, k)) \/ Take(f) \/ Proceed(f) \/ Cancel(f) \/ Disconnects(f)
  \/ \E i \in Runtimes : BrowserDies(i) \/ Expire(i)

Spec == Init /\ [][Next]_vars

(* The event loop runs a ready task, asyncio's locks and semaphores are first
   come first served, and every browser call is bounded by a timeout. *)
Fairness == \A f \in Fetchers : SF_vars(Take(f)) /\ WF_vars(Proceed(f))

FairSpec == Spec /\ Fairness
-----------------------------------------------------------------------------
(* Properties *)

(* Every variable has its type. *)
TypeOK ==
  /\ pool \in [Keys -> Runtimes \cup {None}]
  /\ poolLock \in Fetchers \cup {None} /\ victims \subseteq Runtimes
  /\ browser \in [Runtimes -> {"none", "up", "dead"}]
  /\ lock \in [Runtimes -> Fetchers \cup {None}]
  /\ permits \in [Runtimes -> 0..MaxContexts]
  /\ active \in [Runtimes -> Nat] /\ queued \in [Runtimes -> Nat]
  /\ created \in [Runtimes -> 0..RecycleAfter]
  /\ pc \in [Fetchers -> Points] /\ want \in [Fetchers -> Keys \cup {None}]
  /\ rt \in [Fetchers -> Runtimes \cup {None}]
  /\ page \in [Fetchers -> {"none", "live", "dead"}]
  /\ attempt \in [Fetchers -> 0..1]
  /\ victim \in [Fetchers -> Runtimes \cup {None}]
  /\ cancels \in 0..MaxCancels /\ deaths \in 0..MaxDeaths

(* The counts an eviction and the health snapshot go by are exact: a runtime's
   active contexts, its queue and its permits tally with the fetches that are
   there, whatever failed, was recycled or was evicted.  Only a cancellation
   makes them wrong. *)
CountsTally ==
  cancels = 0 => \A i \in Runtimes :
    LET at(P(_)) == Cardinality({f \in Users(i) : P(f)})
        waits(f) == pc[f] = "queued"
    IN /\ active[i] = at(Active)
       /\ queued[i] = at(waits)
       /\ permits[i] + at(Holding) = MaxContexts

(* A lock is held by a fetch that is inside its critical section, and by one
   that will release it: no exception or cancellation leaves one behind, no
   two fetches are inside at once, and the one that launches a browser there
   finds none, whoever launched, closed or lost one while it waited. *)
LocksMatch ==
  /\ \A f \in Fetchers :
       /\ InLock(f) => lock[IF pc[f] = "evictclose" THEN victim[f] ELSE rt[f]] = f
       /\ pc[f] \in EvictPoints => poolLock = f
  /\ \A i \in Runtimes : lock[i] /= None => InLock(lock[i])
  /\ poolLock /= None => pc[poolLock] \in EvictPoints
  /\ \A f \in Fetchers : pc[f] = "launch" => browser[rt[f]] = "none"

(* The pool holds no more runtimes than its limit or than there are fetches at
   work, whichever is more, although an eviction spares busy ones.  Only a
   cancellation, which may leave a runtime busy for good, makes it grow. *)
PoolBounded ==
  cancels = 0 => \/ Cardinality(Pooled) <= MaxEntries
                 \/ Cardinality(Pooled) <= Cardinality(Fetchers)

(* Every fetch ends: the pool's lock, the runtimes' locks and the permits are
   never waited for in a circle, and recycling under the lock does not wait for
   itself.  (Holds as long as no fetch is cancelled.) *)
FetchesEnd == \A f \in Fetchers : pc[f] /= "idle" ~> pc[f] = "idle"

(* The recycling after a disconnect closes the browser that disconnected, not
   one that another fetch has launched since, nor a healthy one in which only a
   page was closed.  Does not hold. *)
DisconnectStaysLocal ==
  [][\A f \in Fetchers :
       pc[f] = "relock" /\ pc'[f] = "reclose" => browser[rt[f]] = "dead"]_vars
=============================================================================
