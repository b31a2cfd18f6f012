------------------------- MODULE BrowserPool_proofs -------------------------
(***************************************************************************)
(* The locks, the counts and the size of the pool, for any fetches, lanes, *)
(* runtimes and limits, and any cancellations and failures.                *)
(***************************************************************************)
EXTENDS BrowserPool, FiniteSetTheorems, TLAPS

Guarded == ClosePoints \cup {"launch"}
Mine(f) == IF pc[f] = "evictclose" THEN victim[f] ELSE rt[f]

(* Where a fetch is tells what it refers to. *)
PlacedAt(f) ==
  /\ pc[f] \in EvictPoints => victim[f] \in Runtimes
  /\ pc[f] \in EvictPoints \cup {"wantpool"} => want[f] \in Keys
  /\ pc[f] \notin EvictPoints \cup {"wantpool", "idle"} => rt[f] \in Runtimes

FetchTypes ==
  /\ pc \in [Fetchers -> Points] /\ want \in [Fetchers -> Keys \cup {None}]
  /\ rt \in [Fetchers -> Runtimes \cup {None}] /\ victim \in [Fetchers -> Runtimes \cup {None}]

PoolTypes ==
  /\ pool \in [Keys -> Runtimes \cup {None}] /\ victims \subseteq Runtimes
  /\ lock \in [Runtimes -> Fetchers \cup {None}] /\ poolLock \in Fetchers \cup {None}

Placed == FetchTypes /\ PoolTypes /\ \A f \in Fetchers : PlacedAt(f)

(* A lock names the fetch inside its critical section, and that fetch's runtime. *)
RuntimeLocks ==
  /\ \A f \in Fetchers : pc[f] \in Guarded => lock[Mine(f)] = f
  /\ \A i \in Runtimes, g \in Fetchers : lock[i] = g => pc[g] \in Guarded /\ Mine(g) = i

PoolLock ==
  /\ \A f \in Fetchers : pc[f] \in EvictPoints => poolLock = f
  /\ poolLock # None => pc[poolLock] \in EvictPoints

LockInv == Placed /\ RuntimeLocks /\ PoolLock

(* A step of f leaves the other fetches where they are. *)
Only(f) ==
  /\ FetchTypes' /\ PlacedAt(f)'
  /\ \A g \in Fetchers \ {f} :
       pc'[g] = pc[g] /\ rt'[g] = rt[g] /\ victim'[g] = victim[g] /\ want'[g] = want[g]

LEMMA OthersStayPlaced ==
  ASSUME Placed, NEW f \in Fetchers, Only(f)
  PROVE  \A g \in Fetchers : PlacedAt(g)'
BY DEF Placed, Only, PlacedAt

(* f goes from one place without a lock to another. *)
LEMMA Outside ==
  ASSUME Placed, RuntimeLocks, NEW f \in Fetchers, Only(f), lock' = lock,
         pc[f] \notin Guarded, pc'[f] \notin Guarded
  PROVE  RuntimeLocks'
<1>1. ASSUME NEW g \in Fetchers, pc'[g] \in Guarded PROVE lock'[Mine(g)'] = g
  BY <1>1 DEF RuntimeLocks, Only, Mine
<1>2. ASSUME NEW i \in Runtimes, NEW g \in Fetchers, lock'[i] = g
      PROVE  pc'[g] \in Guarded /\ Mine(g)' = i
  <2>1. pc[g] \in Guarded /\ Mine(g) = i /\ g # f
    BY <1>2 DEF RuntimeLocks
  <2> QED BY <2>1 DEF Only, Mine
<1> QED BY <1>1, <1>2 DEF RuntimeLocks

(* f takes a free lock. *)
LEMMA Enters ==
  ASSUME Placed, RuntimeLocks, NEW f \in Fetchers, Only(f), NEW i \in Runtimes, lock[i] = None,
         lock' = [lock EXCEPT ![i] = f], pc[f] \notin Guarded, pc'[f] \in Guarded, Mine(f)' = i
  PROVE  RuntimeLocks'
<1>1. lock'[i] = f /\ \A j \in Runtimes \ {i} : lock'[j] = lock[j]
  BY DEF Placed, PoolTypes
<1>2. ASSUME NEW g \in Fetchers, pc'[g] \in Guarded PROVE lock'[Mine(g)'] = g
  <2>1. CASE g = f
    BY <1>1, <2>1
  <2>2. CASE g # f
    <3>1. lock[Mine(g)] = g /\ Mine(g)' = Mine(g)
      BY <1>2, <2>2 DEF RuntimeLocks, Only, Mine
    <3>2. Mine(g) \in Runtimes /\ None \notin Fetchers
      BY <1>2, <2>2, BrowserPoolAssumption
      DEF Placed, PlacedAt, Only, Mine, Guarded, ClosePoints, EvictPoints
    <3> QED BY <1>1, <3>1, <3>2
  <2> QED BY <2>1, <2>2
<1>3. ASSUME NEW j \in Runtimes, NEW g \in Fetchers, lock'[j] = g
      PROVE  pc'[g] \in Guarded /\ Mine(g)' = j
  <2>1. CASE j = i
    BY <1>1, <1>3, <2>1
  <2>2. CASE j # i
    <3>1. pc[g] \in Guarded /\ Mine(g) = j /\ g # f
      BY <1>1, <1>3, <2>2 DEF RuntimeLocks
    <3> QED BY <3>1 DEF Only, Mine
  <2> QED BY <2>1, <2>2
<1> QED BY <1>2, <1>3 DEF RuntimeLocks

(* f gives its lock back. *)
LEMMA Leaves ==
  ASSUME Placed, RuntimeLocks, NEW f \in Fetchers, Only(f), pc[f] \in Guarded,
         lock' = [lock EXCEPT ![Mine(f)] = None], pc'[f] \notin Guarded
  PROVE  RuntimeLocks'
<1>1. Mine(f) \in Runtimes /\ None \notin Fetchers /\ lock[Mine(f)] = f
  BY BrowserPoolAssumption
  DEF Placed, PlacedAt, RuntimeLocks, Mine, Guarded, ClosePoints, EvictPoints
<1>2. lock'[Mine(f)] = None /\ \A j \in Runtimes \ {Mine(f)} : lock'[j] = lock[j]
  BY <1>1 DEF Placed, PoolTypes
<1>3. ASSUME NEW g \in Fetchers, pc'[g] \in Guarded PROVE lock'[Mine(g)'] = g
  <2>1. g # f /\ pc[g] \in Guarded /\ Mine(g)' = Mine(g)
    BY <1>3 DEF Only, Mine
  <2>2. lock[Mine(g)] = g /\ Mine(g) \in Runtimes
    BY <2>1 DEF Placed, PlacedAt, RuntimeLocks, Mine, Guarded, ClosePoints, EvictPoints
  <2> QED BY <1>1, <1>2, <2>1, <2>2
<1>4. ASSUME NEW j \in Runtimes, NEW g \in Fetchers, lock'[j] = g
      PROVE  pc'[g] \in Guarded /\ Mine(g)' = j
  <2>1. j # Mine(f) /\ lock[j] = g
    BY <1>1, <1>2, <1>4
  <2>2. pc[g] \in Guarded /\ Mine(g) = j /\ g # f
    BY <2>1 DEF RuntimeLocks
  <2> QED BY <2>2 DEF Only, Mine
<1> QED BY <1>3, <1>4 DEF RuntimeLocks

(* f goes on inside its critical section, or nobody goes anywhere. *)
LEMMA Stays ==
  ASSUME Placed, RuntimeLocks, NEW f \in Fetchers, Only(f), lock' = lock,
         pc[f] \in Guarded, pc'[f] \in Guarded, Mine(f)' = Mine(f)
  PROVE  RuntimeLocks'
<1>1. ASSUME NEW g \in Fetchers, pc'[g] \in Guarded PROVE lock'[Mine(g)'] = g
  BY <1>1 DEF RuntimeLocks, Only, Mine
<1>2. ASSUME NEW i \in Runtimes, NEW g \in Fetchers, lock'[i] = g
      PROVE  pc'[g] \in Guarded /\ Mine(g)' = i
  <2>1. pc[g] \in Guarded /\ Mine(g) = i
    BY <1>2 DEF RuntimeLocks
  <2> QED BY <2>1 DEF Only, Mine
<1> QED BY <1>1, <1>2 DEF RuntimeLocks

(* The pool's lock goes to f, stays or is given back with its eviction. *)
LEMMA PoolLockMoves ==
  ASSUME PoolLock, PoolTypes, NEW f \in Fetchers, Only(f),
         \/ poolLock' = poolLock /\ (pc'[f] \in EvictPoints) = (pc[f] \in EvictPoints)
         \/ poolLock = None /\ poolLock' = f /\ pc'[f] \in EvictPoints
         \/ pc[f] \in EvictPoints /\ poolLock' = None /\ pc'[f] \notin EvictPoints
  PROVE  PoolLock' /\ poolLock' \in Fetchers \cup {None}
<1>1. None \notin Fetchers
  BY BrowserPoolAssumption
<1>2. CASE poolLock' = poolLock /\ (pc'[f] \in EvictPoints) = (pc[f] \in EvictPoints)
  BY <1>2 DEF PoolLock, PoolTypes, Only
<1>3. CASE poolLock = None /\ poolLock' = f /\ pc'[f] \in EvictPoints
  BY <1>1, <1>3 DEF PoolLock, Only
<1>4. CASE pc[f] \in EvictPoints /\ poolLock' = None /\ pc'[f] \notin EvictPoints
  BY <1>1, <1>4 DEF PoolLock, Only
<1> QED BY <1>2, <1>3, <1>4

-----------------------------------------------------------------------------
(* Where the pieces of a step take their fetch.                            *)

LEMMA Goes ==
  ASSUME FetchTypes, NEW f \in Fetchers, NEW p \in Points, Goto(f, p)
  PROVE  pc' \in [Fetchers -> Points] /\ pc'[f] = p /\ \A g \in Fetchers \ {f} : pc'[g] = pc[g]
BY DEF FetchTypes, Goto

LEMMA LeaveMoves ==
  ASSUME FetchTypes, NEW f \in Fetchers, Leave(f)
  PROVE  Only(f) /\ pc'[f] = "idle"
<1>1. pc' \in [Fetchers -> Points] /\ pc'[f] = "idle" /\ \A g \in Fetchers \ {f} : pc'[g] = pc[g]
  BY Goes DEF Leave, Points
<1>2. /\ want' \in [Fetchers -> Keys \cup {None}] /\ rt' \in [Fetchers -> Runtimes \cup {None}]
      /\ victim' \in [Fetchers -> Runtimes \cup {None}]
      /\ \A g \in Fetchers \ {f} : rt'[g] = rt[g] /\ victim'[g] = victim[g] /\ want'[g] = want[g]
  BY DEF FetchTypes, Leave
<1> QED BY <1>1, <1>2 DEF Only, FetchTypes, PlacedAt, EvictPoints

(* A fetch that keeps what it refers to and goes where that is enough. *)
LEMMA PlaceMoves ==
  ASSUME FetchTypes, NEW f \in Fetchers, PlacedAt(f), NEW p \in Points, Goto(f, p),
         UNCHANGED <<want, rt, victim>>,
         p \in EvictPoints => pc[f] \in EvictPoints,
         p \notin EvictPoints => p = "idle" \/ pc[f] \notin EvictPoints \cup {"wantpool", "idle"},
         p # "wantpool"
  PROVE  Only(f) /\ pc'[f] = p
<1>1. pc' \in [Fetchers -> Points] /\ pc'[f] = p /\ \A g \in Fetchers \ {f} : pc'[g] = pc[g]
  BY Goes
<1> QED BY <1>1 DEF Only, FetchTypes, PlacedAt

Entered == {"opening", "queued"}

LEMMA EnqueueGoes ==
  ASSUME NEW f, NEW i, Enqueue(f, i)
  PROVE  \E p \in Entered : Goto(f, p)
BY DEF Enqueue, Entered

LEMMA ArriveMoves ==
  ASSUME FetchTypes, NEW f \in Fetchers, NEW i \in Runtimes, Arrive(f, i)
  PROVE  Only(f) /\ pc'[f] \in Entered \cup {"ensure"}
<1>1. PICK p \in Entered \cup {"ensure"} : Goto(f, p)
  BY EnqueueGoes DEF Arrive
<1>2. p \in Points /\ p \notin EvictPoints \cup {"wantpool", "idle"}
  BY DEF Entered, Points, EnsurePoints, BootPoints, EvictPoints
<1>3. pc' \in [Fetchers -> Points] /\ pc'[f] = p /\ \A g \in Fetchers \ {f} : pc'[g] = pc[g]
  BY <1>1, <1>2, Goes
<1>4. /\ want' \in [Fetchers -> Keys \cup {None}] /\ rt' \in [Fetchers -> Runtimes \cup {None}]
      /\ victim' \in [Fetchers -> Runtimes \cup {None}] /\ rt'[f] = i
      /\ \A g \in Fetchers \ {f} : rt'[g] = rt[g] /\ victim'[g] = victim[g] /\ want'[g] = want[g]
  BY DEF FetchTypes, Arrive
<1> QED BY <1>2, <1>3, <1>4 DEF Only, FetchTypes, PlacedAt

LEMMA EnsuredMoves ==
  ASSUME FetchTypes, NEW f \in Fetchers, PlacedAt(f), Ensured(f),
         pc[f] \in {"ensure", "launch"}
  PROVE  Only(f) /\ pc'[f] \in Entered \cup {"context"}
<1>1. PICK p \in Entered \cup {"context"} : Goto(f, p)
  BY EnqueueGoes DEF Ensured
<1>2. p \in Points /\ p \notin EvictPoints \cup {"wantpool", "idle"}
  BY DEF Entered, Points, EnsurePoints, BootPoints, EvictPoints
<1>3. pc[f] \notin EvictPoints \cup {"wantpool", "idle"} /\ UNCHANGED <<want, rt, victim>>
  BY DEF EvictPoints, Ensured
<1> QED BY <1>1, <1>2, <1>3, PlaceMoves

LEMMA PopMoves ==
  ASSUME Placed, NEW f \in Fetchers, NEW v \in Runtimes, NEW rest \in SUBSET Runtimes,
         PopVictim(f, v, rest), want[f] \in Keys
  PROVE  /\ Only(f) /\ pc'[f] = "evictlock" /\ lock' = lock
         /\ pool' \in [Keys -> Runtimes \cup {None}] /\ victims' \subseteq Runtimes
<1>1. pc' \in [Fetchers -> Points] /\ pc'[f] = "evictlock" /\ \A g \in Fetchers \ {f} : pc'[g] = pc[g]
  BY Goes DEF PopVictim, Placed, Points, EvictPoints
<1>2. /\ victim' \in [Fetchers -> Runtimes \cup {None}] /\ victim'[f] = v
      /\ \A g \in Fetchers \ {f} : victim'[g] = victim[g]
      /\ UNCHANGED <<want, rt, lock>>
  BY DEF Placed, FetchTypes, PopVictim, runtimeVars
<1>3. pool' \in [Keys -> Runtimes \cup {None}] /\ victims' \subseteq Runtimes
  BY DEF Placed, PoolTypes, PopVictim
<1> QED BY <1>1, <1>2, <1>3 DEF Placed, Only, FetchTypes, PlacedAt, EvictPoints

(* The lock of a runtime that nobody refers to was free. *)
LEMMA GetOrCreateMoves ==
  ASSUME Placed, RuntimeLocks, NEW f \in Fetchers, NEW k \in Keys, GetOrCreate(f, k),
         \A g \in Fetchers : pc[g] # "evictclose"
  PROVE  /\ Only(f) /\ pc'[f] \in Entered \cup {"ensure"} /\ lock' = lock
         /\ pool' \in [Keys -> Runtimes \cup {None}]
<1>1. CASE pool[k] # None /\ Arrive(f, pool[k]) /\ UNCHANGED <<pool, lock>>
  <2>1. pool[k] \in Runtimes
    BY <1>1 DEF Placed, PoolTypes
  <2> QED BY <1>1, <2>1, ArriveMoves DEF Placed, PoolTypes
<1>2. ASSUME NEW i \in Runtimes, Unreferenced(i), pool' = [pool EXCEPT ![k] = i],
             lock' = [lock EXCEPT ![i] = None], rt' = [rt EXCEPT ![f] = i],
             Goto(f, "ensure"), want' = [want EXCEPT ![f] = None],
             victim' = [victim EXCEPT ![f] = None]
      PROVE  /\ Only(f) /\ pc'[f] \in Entered \cup {"ensure"} /\ lock' = lock
             /\ pool' \in [Keys -> Runtimes \cup {None}]
  <2>1. pc' \in [Fetchers -> Points] /\ pc'[f] = "ensure" /\ \A g \in Fetchers \ {f} : pc'[g] = pc[g]
    BY <1>2, Goes DEF Placed, Points, EnsurePoints
  <2>2. /\ want' \in [Fetchers -> Keys \cup {None}] /\ rt' \in [Fetchers -> Runtimes \cup {None}]
        /\ victim' \in [Fetchers -> Runtimes \cup {None}] /\ rt'[f] = i
        /\ \A g \in Fetchers \ {f} : rt'[g] = rt[g] /\ victim'[g] = victim[g] /\ want'[g] = want[g]
    BY <1>2 DEF Placed, FetchTypes
  <2>3. Only(f)
    BY <2>1, <2>2 DEF Only, FetchTypes, PlacedAt, EvictPoints
  <2>4. lock[i] = None
    <3>1. ASSUME lock[i] # None PROVE FALSE
      <4>1. lock[i] \in Fetchers /\ Mine(lock[i]) = i
        BY <3>1 DEF Placed, PoolTypes, RuntimeLocks
      <4>2. rt[lock[i]] = i
        BY <4>1 DEF Mine
      <4> QED BY <1>2, <4>1, <4>2 DEF Unreferenced, Users
    <3> QED BY <3>1
  <2>5. lock' = lock
    BY <1>2, <2>4 DEF Placed, PoolTypes
  <2> QED BY <1>2, <2>1, <2>3, <2>5 DEF Placed, PoolTypes
<1> QED BY <1>1, <1>2 DEF GetOrCreate

-----------------------------------------------------------------------------
(* One lemma for each kind of step.                                        *)

(* The parts put together: f moved, the tables kept their types, the locks hold. *)
LEMMA Together ==
  ASSUME LockInv, NEW f \in Fetchers, Only(f), RuntimeLocks',
         pool' \in [Keys -> Runtimes \cup {None}], victims' \subseteq Runtimes,
         lock' \in [Runtimes -> Fetchers \cup {None}],
         \/ poolLock' = poolLock /\ (pc'[f] \in EvictPoints) = (pc[f] \in EvictPoints)
         \/ poolLock = None /\ poolLock' = f /\ pc'[f] \in EvictPoints
         \/ pc[f] \in EvictPoints /\ poolLock' = None /\ pc'[f] \notin EvictPoints
  PROVE  LockInv'
<1>1. PoolLock' /\ poolLock' \in Fetchers \cup {None}
  BY PoolLockMoves DEF LockInv, Placed
<1>2. \A g \in Fetchers : PlacedAt(g)'
  BY OthersStayPlaced DEF LockInv
<1>3. FetchTypes'
  BY DEF Only
<1> QED BY <1>1, <1>2, <1>3 DEF LockInv, Placed, PoolTypes

(* Steps outside all locks, or that fall back to idle there. *)
LEMMA WalksOn ==
  ASSUME LockInv, NEW f \in Fetchers, Only(f), UNCHANGED <<pool, poolLock, victims, lock>>,
         pc[f] \notin Guarded \cup EvictPoints, pc'[f] \notin Guarded \cup EvictPoints
  PROVE  LockInv'
BY Outside, Together DEF LockInv, Placed, PoolTypes

LEMMA GetKeeps ==
  ASSUME LockInv, NEW f \in Fetchers, NEW k \in Keys, Get(f, k)
  PROVE  LockInv'
<1>1. pc[f] = "idle" /\ UNCHANGED <<pool, poolLock, victims, lock>>
  BY DEF Get, poolVars
<1>2. CASE pool[k] # None /\ Arrive(f, pool[k])
  <2>1. pool[k] \in Runtimes
    BY <1>2 DEF LockInv, Placed, PoolTypes
  <2>2. Only(f) /\ pc'[f] \in Entered \cup {"ensure"}
    BY <1>2, <2>1, ArriveMoves DEF LockInv, Placed
  <2> QED BY <1>1, <2>2, WalksOn DEF Guarded, ClosePoints, EvictPoints, Entered
<1>3. CASE Goto(f, "wantpool") /\ want' = [want EXCEPT ![f] = k] /\ UNCHANGED <<rt, victim>>
  <2>1. pc' \in [Fetchers -> Points] /\ pc'[f] = "wantpool" /\ \A g \in Fetchers \ {f} : pc'[g] = pc[g]
    BY <1>3, Goes DEF LockInv, Placed, Points
  <2>2. Only(f)
    BY <1>3, <2>1 DEF LockInv, Placed, Only, FetchTypes, PlacedAt, EvictPoints
  <2> QED BY <1>1, <2>1, <2>2, WalksOn DEF Guarded, ClosePoints, EvictPoints
<1> QED BY <1>2, <1>3 DEF Get

LEMMA EnterPoolKeeps ==
  ASSUME LockInv, NEW f \in Fetchers, EnterPool(f)
  PROVE  LockInv'
<1>1. pc[f] = "wantpool" /\ poolLock = None /\ want[f] \in Keys
  BY DEF EnterPool, LockInv, Placed, PlacedAt, EvictPoints
<1>2. \A g \in Fetchers : pc[g] # "evictclose"
  BY <1>1, BrowserPoolAssumption DEF LockInv, PoolLock, EvictPoints
<1>3. CASE GetOrCreate(f, want[f]) /\ UNCHANGED <<poolLock, victims>>
  <2>1. /\ Only(f) /\ pc'[f] \in Entered \cup {"ensure"} /\ lock' = lock
        /\ pool' \in [Keys -> Runtimes \cup {None}]
    BY <1>1, <1>2, <1>3, GetOrCreateMoves DEF LockInv
  <2>2. pc[f] \notin Guarded \cup EvictPoints /\ pc'[f] \notin Guarded \cup EvictPoints
    BY <1>1, <2>1 DEF Guarded, ClosePoints, EvictPoints, Entered
  <2>3. RuntimeLocks'
    BY <2>1, <2>2, Outside DEF LockInv
  <2> QED BY <1>3, <2>1, <2>2, <2>3, Together DEF LockInv, Placed, PoolTypes
<1>4. ASSUME NEW S \in Selections, NEW v \in S, PopVictim(f, v, S \ {v}), poolLock' = f
      PROVE  LockInv'
  <2>1. S \subseteq Runtimes
    BY DEF Selections, Pooled, LockInv, Placed, PoolTypes
  <2>2. /\ Only(f) /\ pc'[f] = "evictlock" /\ lock' = lock
        /\ pool' \in [Keys -> Runtimes \cup {None}] /\ victims' \subseteq Runtimes
    BY <1>1, <1>4, <2>1, PopMoves DEF LockInv
  <2>3. RuntimeLocks'
    BY <1>1, <2>2, Outside DEF LockInv, Guarded, ClosePoints
  <2> QED BY <1>1, <1>4, <2>2, <2>3, Together DEF LockInv, Placed, PoolTypes, EvictPoints
<1> QED BY <1>3, <1>4 DEF EnterPool

LEMMA EvictNextKeeps ==
  ASSUME LockInv, NEW f \in Fetchers, EvictNext(f)
  PROVE  LockInv'
<1>1. pc[f] = "evictnext" /\ want[f] \in Keys /\ poolLock = f
  BY DEF EvictNext, LockInv, Placed, PlacedAt, PoolLock, EvictPoints
<1>2. \A g \in Fetchers : pc[g] # "evictclose"
  BY <1>1 DEF LockInv, PoolLock, EvictPoints
<1>3. ASSUME NEW v \in victims, PopVictim(f, v, victims \ {v}), poolLock' = poolLock
      PROVE  LockInv'
  <2>1. v \in Runtimes /\ victims \ {v} \in SUBSET Runtimes
    BY DEF LockInv, Placed, PoolTypes
  <2>2. /\ Only(f) /\ pc'[f] = "evictlock" /\ lock' = lock
        /\ pool' \in [Keys -> Runtimes \cup {None}] /\ victims' \subseteq Runtimes
    BY <1>1, <1>3, <2>1, PopMoves DEF LockInv
  <2>3. RuntimeLocks'
    BY <1>1, <2>2, Outside DEF LockInv, Guarded, ClosePoints
  <2> QED BY <1>1, <1>3, <2>2, <2>3, Together DEF LockInv, Placed, PoolTypes, EvictPoints
<1>4. CASE GetOrCreate(f, want[f]) /\ poolLock' = None /\ UNCHANGED victims
  <2>1. /\ Only(f) /\ pc'[f] \in Entered \cup {"ensure"} /\ lock' = lock
        /\ pool' \in [Keys -> Runtimes \cup {None}]
    BY <1>1, <1>2, <1>4, GetOrCreateMoves DEF LockInv
  <2>2. pc'[f] \notin Guarded \cup EvictPoints
    BY <2>1 DEF Guarded, ClosePoints, EvictPoints, Entered
  <2>3. RuntimeLocks'
    BY <1>1, <2>1, <2>2, Outside DEF LockInv, Guarded, ClosePoints
  <2> QED BY <1>1, <1>4, <2>1, <2>2, <2>3, Together DEF LockInv, Placed, PoolTypes, EvictPoints
<1> QED BY <1>3, <1>4 DEF EvictNext

LEMMA TakesLock ==
  ASSUME LockInv, NEW f \in Fetchers, Only(f), NEW i \in Runtimes, lock[i] = None,
         lock' = [lock EXCEPT ![i] = f], UNCHANGED <<pool, poolLock, victims>>,
         pc[f] \notin Guarded, pc'[f] \in Guarded, Mine(f)' = i,
         (pc'[f] \in EvictPoints) = (pc[f] \in EvictPoints)
  PROVE  LockInv'
<1>1. RuntimeLocks'
  BY Enters DEF LockInv
<1>2. lock' \in [Runtimes -> Fetchers \cup {None}]
  BY DEF LockInv, Placed, PoolTypes
<1> QED BY <1>1, <1>2, Together DEF LockInv, Placed, PoolTypes

LEMMA GivesBack ==
  ASSUME LockInv, NEW f \in Fetchers, Only(f), pc[f] \in Guarded, pc'[f] \notin Guarded,
         lock' = [lock EXCEPT ![Mine(f)] = None], UNCHANGED <<pool, poolLock, victims>>,
         (pc'[f] \in EvictPoints) = (pc[f] \in EvictPoints)
  PROVE  LockInv'
<1>1. RuntimeLocks'
  BY Leaves DEF LockInv
<1>2. lock' \in [Runtimes -> Fetchers \cup {None}]
  BY DEF LockInv, Placed, PoolTypes
<1> QED BY <1>1, <1>2, Together DEF LockInv, Placed, PoolTypes

LEMMA EvictLockKeeps ==
  ASSUME LockInv, NEW f \in Fetchers, EvictLock(f)
  PROVE  LockInv'
<1>1. /\ pc[f] = "evictlock" /\ lock[victim[f]] = None /\ victim[f] \in Runtimes
      /\ UNCHANGED <<pool, poolLock, victims, want, rt, victim>>
  BY DEF EvictLock, LockInv, Placed, PlacedAt, EvictPoints, poolVars
<1>2. CASE Goto(f, "evictnext") /\ UNCHANGED lock
  <2>1. Only(f) /\ pc'[f] = "evictnext"
    BY <1>1, <1>2, PlaceMoves DEF LockInv, Placed, Points, EvictPoints
  <2>2. RuntimeLocks'
    BY <1>1, <1>2, <2>1, Outside DEF LockInv, Guarded, ClosePoints
  <2> QED BY <1>1, <1>2, <2>1, <2>2, Together DEF LockInv, Placed, PoolTypes, EvictPoints
<1>3. CASE Goto(f, "evictclose") /\ lock' = [lock EXCEPT ![victim[f]] = f]
  <2>1. Only(f) /\ pc'[f] = "evictclose"
    BY <1>1, <1>3, PlaceMoves DEF LockInv, Placed, Points, EvictPoints
  <2>2. Mine(f)' = victim[f]
    BY <1>1, <2>1 DEF Mine
  <2>3. pc[f] \notin Guarded /\ pc'[f] \in Guarded /\ (pc'[f] \in EvictPoints) = (pc[f] \in EvictPoints)
    BY <1>1, <1>3, <2>1 DEF EvictPoints, Guarded, ClosePoints
  <2> QED BY <1>1, <1>3, <2>1, <2>2, <2>3, TakesLock
<1> QED BY <1>2, <1>3 DEF EvictLock

LEMMA EvictClosedKeeps ==
  ASSUME LockInv, NEW f \in Fetchers, EvictClosed(f)
  PROVE  LockInv'
<1>1. /\ pc[f] = "evictclose" /\ Goto(f, "evictnext") /\ lock' = [lock EXCEPT ![Mine(f)] = None]
      /\ UNCHANGED <<pool, poolLock, victims, want, rt, victim>>
  BY DEF EvictClosed, Mine, poolVars
<1>2. Only(f) /\ pc'[f] = "evictnext"
  BY <1>1, PlaceMoves DEF LockInv, Placed, Points, EvictPoints
<1>3. pc[f] \in Guarded /\ pc'[f] \notin Guarded /\ (pc'[f] \in EvictPoints) = (pc[f] \in EvictPoints)
  BY <1>1, <1>2 DEF EvictPoints, Guarded, ClosePoints
<1> QED BY <1>1, <1>2, <1>3, GivesBack

LEMMA EnsureLockKeeps ==
  ASSUME LockInv, NEW f \in Fetchers, EnsureLock(f)
  PROVE  LockInv'
<1>1. /\ pc[f] = "ensure" /\ lock[rt[f]] = None /\ rt[f] \in Runtimes
      /\ UNCHANGED <<pool, poolLock, victims>>
  BY DEF EnsureLock, LockInv, Placed, PlacedAt, EvictPoints, poolVars
<1>2. CASE Ensured(f) /\ UNCHANGED lock
  <2>1. Only(f) /\ pc'[f] \in Entered \cup {"context"}
    BY <1>1, <1>2, EnsuredMoves DEF LockInv, Placed
  <2> QED BY <1>1, <1>2, <2>1, WalksOn DEF Guarded, ClosePoints, EvictPoints, Entered
<1>3. ASSUME NEW p \in {"launch", "recycle"}, Goto(f, p), lock' = [lock EXCEPT ![rt[f]] = f],
             UNCHANGED <<want, rt, victim>>
      PROVE  LockInv'
  <2>1. Only(f) /\ pc'[f] = p
    BY <1>1, <1>3, PlaceMoves DEF LockInv, Placed, Points, EvictPoints, EnsurePoints
  <2>2. Mine(f)' = rt[f] /\ p \in Guarded
    BY <1>3, <2>1 DEF Mine, Guarded, ClosePoints
  <2>3. pc[f] \notin Guarded /\ pc'[f] \in Guarded /\ (pc'[f] \in EvictPoints) = (pc[f] \in EvictPoints)
    BY <1>1, <1>3, <2>1 DEF EvictPoints, Guarded, ClosePoints
  <2> QED BY <1>1, <1>3, <2>1, <2>2, <2>3, TakesLock
<1> QED BY <1>2, <1>3 DEF EnsureLock

LEMMA RecycledKeeps ==
  ASSUME LockInv, NEW f \in Fetchers, Recycled(f)
  PROVE  LockInv'
<1>1. /\ pc[f] = "recycle" /\ Goto(f, "launch")
      /\ UNCHANGED <<pool, poolLock, victims, lock, want, rt, victim>>
  BY DEF Recycled, poolVars
<1>2. Only(f) /\ pc'[f] = "launch"
  BY <1>1, PlaceMoves DEF LockInv, Placed, Points, EvictPoints, EnsurePoints
<1>3. RuntimeLocks'
  BY <1>1, <1>2, Stays DEF LockInv, Guarded, ClosePoints, Mine
<1> QED BY <1>1, <1>2, <1>3, Together DEF LockInv, Placed, PoolTypes, EvictPoints

LEMMA LaunchedKeeps ==
  ASSUME LockInv, NEW f \in Fetchers, Launched(f) \/ LaunchFails(f)
  PROVE  LockInv'
<1>1. /\ pc[f] = "launch" /\ lock' = [lock EXCEPT ![Mine(f)] = None]
      /\ UNCHANGED <<pool, poolLock, victims>>
  BY DEF Launched, LaunchFails, Mine, poolVars
<1>2. CASE Ensured(f)
  <2>1. Only(f) /\ pc'[f] \in Entered \cup {"context"}
    BY <1>1, <1>2, EnsuredMoves DEF LockInv, Placed
  <2>2. pc[f] \in Guarded /\ pc'[f] \notin Guarded /\ (pc'[f] \in EvictPoints) = (pc[f] \in EvictPoints)
    BY <1>1, <2>1 DEF EvictPoints, Guarded, ClosePoints, Entered
  <2> QED BY <1>1, <2>1, <2>2, GivesBack
<1>3. CASE Leave(f)
  <2>1. Only(f) /\ pc'[f] = "idle"
    BY <1>3, LeaveMoves DEF LockInv, Placed
  <2>2. pc[f] \in Guarded /\ pc'[f] \notin Guarded /\ (pc'[f] \in EvictPoints) = (pc[f] \in EvictPoints)
    BY <1>1, <2>1 DEF EvictPoints, Guarded, ClosePoints
  <2> QED BY <1>1, <2>1, <2>2, GivesBack
<1> QED BY <1>2, <1>3 DEF Launched, LaunchFails, Abandon, Unwind

LEMMA DisconnectKeeps ==
  ASSUME LockInv, NEW f \in Fetchers, DisconnectLock(f) \/ DisconnectClosed(f)
  PROVE  LockInv'
<1>1. UNCHANGED <<pool, poolLock, victims, want, rt, victim>>
  BY DEF DisconnectLock, DisconnectClosed, poolVars
<1>2. CASE pc[f] = "relock" /\ Goto(f, "ensure") /\ UNCHANGED lock
  <2>1. Only(f) /\ pc'[f] = "ensure"
    BY <1>1, <1>2, PlaceMoves DEF LockInv, Placed, Points, EvictPoints, EnsurePoints
  <2> QED BY <1>1, <1>2, <2>1, WalksOn DEF Guarded, ClosePoints, EvictPoints
<1>3. CASE /\ pc[f] = "relock" /\ lock[rt[f]] = None
           /\ Goto(f, "reclose") /\ lock' = [lock EXCEPT ![rt[f]] = f]
  <2>1. Only(f) /\ pc'[f] = "reclose"
    BY <1>1, <1>3, PlaceMoves DEF LockInv, Placed, Points, EvictPoints, BootPoints
  <2>2. Mine(f)' = rt[f] /\ rt[f] \in Runtimes
    BY <1>1, <1>3, <2>1 DEF Mine, LockInv, Placed, PlacedAt, EvictPoints
  <2>3. pc[f] \notin Guarded /\ pc'[f] \in Guarded /\ (pc'[f] \in EvictPoints) = (pc[f] \in EvictPoints)
    BY <1>1, <1>3, <2>1 DEF EvictPoints, Guarded, ClosePoints
  <2> QED BY <1>1, <1>3, <2>1, <2>2, <2>3, TakesLock
<1>4. CASE pc[f] = "reclose" /\ Goto(f, "ensure") /\ lock' = [lock EXCEPT ![rt[f]] = None]
  <2>1. Only(f) /\ pc'[f] = "ensure"
    BY <1>1, <1>4, PlaceMoves DEF LockInv, Placed, Points, EvictPoints, EnsurePoints
  <2>2. pc[f] \in Guarded /\ pc'[f] \notin Guarded /\ (pc'[f] \in EvictPoints) = (pc[f] \in EvictPoints)
    BY <1>4, <2>1 DEF EvictPoints, Guarded, ClosePoints
  <2>3. lock' = [lock EXCEPT ![Mine(f)] = None]
    BY <1>4 DEF Mine
  <2> QED BY <1>1, <2>1, <2>2, <2>3, GivesBack
<1> QED BY <1>2, <1>3, <1>4 DEF DisconnectLock, DisconnectClosed

(* The steps of page() take no lock. *)
LEMMA PageKeeps ==
  ASSUME LockInv, NEW f \in Fetchers,
         \/ Acquire(f) \/ OpenContext(f) \/ Opened(f) \/ OpenFails(f)
         \/ UseEnds(f) \/ Persisted(f) \/ ContextClosed(f)
  PROVE  LockInv'
<1>1. /\ pc[f] \in {"queued", "opening", "context", "using", "persist", "ctxclose"}
      /\ UNCHANGED <<pool, poolLock, victims, lock>>
  BY DEF Acquire, OpenContext, Opened, OpenFails, UseEnds, Persisted, ContextClosed, poolVars,
     runtimeVars
<1>2. CASE Leave(f)
  <2>1. Only(f) /\ pc'[f] = "idle"
    BY <1>2, LeaveMoves DEF LockInv, Placed
  <2> QED BY <1>1, <2>1, WalksOn DEF EvictPoints, Guarded, ClosePoints
<1>3. ASSUME NEW p \in {"opening", "context", "using", "relock", "persist", "ctxclose"},
             Goto(f, p), UNCHANGED <<want, rt, victim>>
      PROVE  LockInv'
  <2>1. Only(f) /\ pc'[f] = p
    BY <1>1, <1>3, PlaceMoves DEF LockInv, Placed, Points, EvictPoints, BootPoints
  <2> QED BY <1>1, <1>3, <2>1, WalksOn DEF EvictPoints, Guarded, ClosePoints
<1>4. CASE Acquire(f)
  BY <1>2, <1>3, <1>4 DEF Acquire
<1>5. CASE OpenContext(f)
  BY <1>2, <1>3, <1>5 DEF OpenContext, Unwind
<1>6. CASE Opened(f)
  BY <1>3, <1>6 DEF Opened
<1>7. CASE OpenFails(f)
  BY <1>2, <1>3, <1>7 DEF OpenFails, Unwind
<1>8. CASE UseEnds(f) \/ Persisted(f)
  BY <1>3, <1>8 DEF UseEnds, Persisted
<1>9. CASE ContextClosed(f)
  BY <1>2, <1>9 DEF ContextClosed
<1> QED BY <1>4, <1>5, <1>6, <1>7, <1>8, <1>9

(* A cancelled fetch gives back both locks, where it has them. *)
LEMMA CancelKeeps ==
  ASSUME LockInv, NEW f \in Fetchers, Cancel(f)
  PROVE  LockInv'
<1>1. Only(f) /\ pc'[f] = "idle"
  BY LeaveMoves DEF Cancel, Abandon, Unwind, LockInv, Placed
<1>2. RuntimeLocks' /\ lock' \in [Runtimes -> Fetchers \cup {None}]
  <2>1. CASE pc[f] \in Guarded
    <3>1. lock' = [lock EXCEPT ![Mine(f)] = None]
      BY <2>1 DEF Cancel, InLock, Mine, Guarded, ClosePoints, EvictPoints
    <3> QED BY <1>1, <2>1, <3>1, Leaves DEF LockInv, Placed, PoolTypes, Guarded, ClosePoints
  <2>2. CASE pc[f] \notin Guarded
    <3>1. lock' = lock
      BY <2>2 DEF Cancel, InLock, Guarded
    <3> QED BY <1>1, <2>2, <3>1, Outside DEF LockInv, Placed, PoolTypes, Guarded, ClosePoints
  <2> QED BY <2>1, <2>2
<1>3. pool' = pool /\ victims' \subseteq Runtimes
  BY DEF Cancel, LockInv, Placed, PoolTypes
<1>4. \/ poolLock' = poolLock /\ pc[f] \notin EvictPoints
      \/ poolLock' = None /\ pc[f] \in EvictPoints
  BY DEF Cancel
<1> QED BY <1>1, <1>2, <1>3, <1>4, Together DEF LockInv, Placed, PoolTypes, EvictPoints

LEMMA LockInit == Init => LockInv
<1> SUFFICES ASSUME Init PROVE LockInv
  OBVIOUS
<1>1. Placed
  BY DEF Init, Placed, FetchTypes, PoolTypes, PlacedAt, Points, EvictPoints
<1>2. RuntimeLocks /\ PoolLock
  BY BrowserPoolAssumption DEF Init, RuntimeLocks, PoolLock, Guarded, ClosePoints, EvictPoints
<1> QED BY <1>1, <1>2 DEF LockInv

LEMMA LockStep == LockInv /\ [Next]_vars => LockInv'
<1> SUFFICES ASSUME LockInv, [Next]_vars PROVE LockInv'
  OBVIOUS
<1>1. CASE UNCHANGED <<pool, poolLock, victims, lock, pc, want, rt, victim>>
  BY <1>1 DEF LockInv, Placed, FetchTypes, PoolTypes, PlacedAt, RuntimeLocks, PoolLock, Mine
<1>2. ASSUME NEW f \in Fetchers, NEW k \in Keys, Get(f, k) PROVE LockInv'
  BY <1>2, GetKeeps
<1>3. ASSUME NEW f \in Fetchers, Take(f) PROVE LockInv'
  BY <1>3, EnterPoolKeeps, EvictLockKeeps, EnsureLockKeeps, DisconnectKeeps, PageKeeps DEF Take
<1>4. ASSUME NEW f \in Fetchers, Proceed(f) PROVE LockInv'
  BY <1>4, EvictClosedKeeps, EvictNextKeeps, RecycledKeeps, LaunchedKeeps, DisconnectKeeps,
     PageKeeps DEF Proceed
<1>5. ASSUME NEW f \in Fetchers, Cancel(f) PROVE LockInv'
  BY <1>5, CancelKeeps
<1>6. ASSUME NEW f \in Fetchers, Disconnects(f) PROVE LockInv'
  BY <1>1, <1>6 DEF Disconnects, poolVars
<1>7. ASSUME NEW i \in Runtimes, BrowserDies(i) \/ Expire(i) PROVE LockInv'
  BY <1>1, <1>7 DEF BrowserDies, Expire, poolVars, fetchVars
<1>8. CASE UNCHANGED vars
  BY <1>1, <1>8 DEF vars, poolVars, runtimeVars, fetchVars
<1> QED BY <1>2, <1>3, <1>4, <1>5, <1>6, <1>7, <1>8 DEF Next

-----------------------------------------------------------------------------
(* Whoever launches a browser finds none there: only the holder of the lock  *)
(* brings one up, and it leaves "launch" by doing so.                        *)

BrowserState == {"none", "up", "dead"}

LaunchInv ==
  /\ browser \in [Runtimes -> BrowserState]
  /\ \A f \in Fetchers : pc[f] = "launch" => browser[rt[f]] = "none"

(* The steps of f that end anywhere but at "launch", and bring up no browser. *)
LEMMA LaunchersUndisturbed ==
  ASSUME LaunchInv, LockInv, NEW f \in Fetchers,
         \A g \in Fetchers \ {f} : pc'[g] = pc[g] /\ rt'[g] = rt[g],
         pc'[f] # "launch", browser' \in [Runtimes -> BrowserState],
         \A i \in Runtimes : browser[i] = "none" => browser'[i] = "none"
  PROVE  LaunchInv'
<1> SUFFICES ASSUME NEW g \in Fetchers, pc'[g] = "launch" PROVE browser'[rt'[g]] = "none"
  BY DEF LaunchInv
<1>1. g # f /\ pc[g] = "launch" /\ rt'[g] = rt[g]
  OBVIOUS
<1>2. rt[g] \in Runtimes /\ browser[rt[g]] = "none"
  BY <1>1 DEF LaunchInv, LockInv, Placed, PlacedAt, EvictPoints
<1> QED BY <1>1, <1>2

(* Nobody moves, or f does without any change of the browsers. *)
LEMMA BrowsersStay ==
  ASSUME LaunchInv, LockInv, NEW f \in Fetchers, UNCHANGED browser,
         \A g \in Fetchers \ {f} : pc'[g] = pc[g] /\ rt'[g] = rt[g], pc'[f] # "launch"
  PROVE  LaunchInv'
BY LaunchersUndisturbed DEF LaunchInv

LEMMA FetchGoes ==
  ASSUME Placed, NEW f \in Fetchers, NEW p, Goto(f, p)
  PROVE  pc'[f] = p /\ \A g \in Fetchers \ {f} : pc'[g] = pc[g]
BY DEF Placed, FetchTypes, Goto

LEMMA LeaveGoes ==
  ASSUME Placed, NEW f \in Fetchers, Leave(f)
  PROVE  pc'[f] = "idle" /\ \A g \in Fetchers \ {f} : pc'[g] = pc[g] /\ rt'[g] = rt[g]
BY DEF Placed, FetchTypes, Leave, Goto

LEMMA ArriveGoes ==
  ASSUME Placed, NEW f \in Fetchers, NEW i, Arrive(f, i)
  PROVE  pc'[f] # "launch" /\ \A g \in Fetchers \ {f} : pc'[g] = pc[g] /\ rt'[g] = rt[g]
<1>1. \E p \in Entered \cup {"ensure"} : Goto(f, p)
  BY EnqueueGoes DEF Arrive
<1>2. pc'[f] # "launch" /\ \A g \in Fetchers \ {f} : pc'[g] = pc[g]
  BY <1>1, FetchGoes DEF Entered
<1>3. \A g \in Fetchers \ {f} : rt'[g] = rt[g]
  BY DEF Arrive, Placed, FetchTypes
<1> QED BY <1>2, <1>3

LEMMA EnsuredGoes ==
  ASSUME Placed, NEW f \in Fetchers, Ensured(f)
  PROVE  pc'[f] # "launch" /\ UNCHANGED rt /\ \A g \in Fetchers \ {f} : pc'[g] = pc[g]
<1>1. \E p \in Entered \cup {"context"} : Goto(f, p)
  BY EnqueueGoes DEF Ensured
<1> QED BY <1>1, FetchGoes DEF Entered, Ensured

LEMMA CreationKeepsLaunch ==
  ASSUME LaunchInv, LockInv, NEW f \in Fetchers, NEW k \in Keys, GetOrCreate(f, k)
  PROVE  LaunchInv'
<1>1. CASE Arrive(f, pool[k]) /\ UNCHANGED browser
  BY <1>1, ArriveGoes, BrowsersStay DEF LockInv
<1>2. ASSUME NEW i \in Runtimes, browser' = [browser EXCEPT ![i] = "none"],
             Goto(f, "ensure"), rt' = [rt EXCEPT ![f] = i]
      PROVE  LaunchInv'
  <2>1. pc'[f] = "ensure" /\ \A g \in Fetchers \ {f} : pc'[g] = pc[g]
    BY <1>2, FetchGoes DEF LockInv
  <2>2. \A g \in Fetchers \ {f} : rt'[g] = rt[g]
    BY <1>2 DEF LockInv, Placed, FetchTypes
  <2>3. /\ browser' \in [Runtimes -> BrowserState]
        /\ \A j \in Runtimes : browser[j] = "none" => browser'[j] = "none"
    BY <1>2 DEF LaunchInv, BrowserState
  <2> QED BY <2>1, <2>2, <2>3, LaunchersUndisturbed
<1> QED BY <1>1, <1>2 DEF GetOrCreate

(* Steps that close a browser, or launch none. *)
LEMMA ClosingKeepsLaunch ==
  ASSUME LaunchInv, LockInv, NEW f \in Fetchers, NEW i, Closed(i), UNCHANGED rt,
         \A g \in Fetchers \ {f} : pc'[g] = pc[g], pc'[f] = "launch" => rt[f] = i /\ i \in Runtimes
  PROVE  LaunchInv'
<1>1. /\ browser' \in [Runtimes -> BrowserState]
      /\ \A j \in Runtimes : browser[j] = "none" => browser'[j] = "none"
      /\ i \in Runtimes => browser'[i] = "none"
  BY DEF Closed, LaunchInv, BrowserState
<1> SUFFICES ASSUME NEW g \in Fetchers, pc'[g] = "launch" PROVE browser'[rt'[g]] = "none"
  BY <1>1 DEF LaunchInv
<1>2. CASE g = f
  BY <1>1, <1>2
<1>3. CASE g # f
  <2>1. pc[g] = "launch" /\ rt'[g] = rt[g]
    BY <1>3
  <2>2. rt[g] \in Runtimes /\ browser[rt[g]] = "none"
    BY <2>1 DEF LaunchInv, LockInv, Placed, PlacedAt, EvictPoints
  <2> QED BY <1>1, <2>1, <2>2
<1> QED BY <1>2, <1>3

LEMMA EnsureKeepsLaunch ==
  ASSUME LaunchInv, LockInv, NEW f \in Fetchers, EnsureLock(f)
  PROVE  LaunchInv'
<1>1. UNCHANGED browser
  BY DEF EnsureLock
<1>2. CASE Ensured(f)
  BY <1>1, <1>2, EnsuredGoes, BrowsersStay DEF LockInv
<1>3. CASE Goto(f, IF browser[rt[f]] = "none" THEN "launch" ELSE "recycle") /\ UNCHANGED rt
  <2>1. /\ \A g \in Fetchers \ {f} : pc'[g] = pc[g]
        /\ pc'[f] = IF browser[rt[f]] = "none" THEN "launch" ELSE "recycle"
    BY <1>3, FetchGoes DEF LockInv
  <2> SUFFICES ASSUME NEW g \in Fetchers, pc'[g] = "launch" PROVE browser[rt[g]] = "none"
    BY <1>1, <1>3 DEF LaunchInv
  <2> QED BY <2>1 DEF LaunchInv
<1> QED BY <1>2, <1>3 DEF EnsureLock

(* The one step that brings a browser up: nobody else launches there. *)
LEMMA LaunchedKeepsLaunch ==
  ASSUME LaunchInv, LockInv, NEW f \in Fetchers, Launched(f)
  PROVE  LaunchInv'
<1>1. /\ pc[f] = "launch" /\ UNCHANGED rt /\ pc'[f] # "launch"
      /\ \A g \in Fetchers \ {f} : pc'[g] = pc[g]
  BY EnsuredGoes DEF Launched, LockInv
<1>2. browser' = [browser EXCEPT ![rt[f]] = "up"]
  BY DEF Launched
<1>3. browser' \in [Runtimes -> BrowserState]
  BY <1>2 DEF LaunchInv, BrowserState
<1> SUFFICES ASSUME NEW g \in Fetchers, pc'[g] = "launch" PROVE browser'[rt'[g]] = "none"
  BY <1>3 DEF LaunchInv
<1>4. g # f /\ pc[g] = "launch" /\ rt'[g] = rt[g]
  BY <1>1
<1>5. rt[g] \in Runtimes /\ rt[f] \in Runtimes
  BY <1>1, <1>4 DEF LockInv, Placed, PlacedAt, EvictPoints
<1>6. lock[rt[f]] = f /\ lock[rt[g]] = g
  BY <1>1, <1>4 DEF LockInv, RuntimeLocks, Guarded, Mine
<1>7. rt[g] # rt[f] /\ browser[rt[g]] = "none"
  BY <1>4, <1>6 DEF LaunchInv
<1> QED BY <1>2, <1>4, <1>5, <1>7 DEF LaunchInv

(* A browser that loses its connection was up. *)
LEMMA DyingKeepsLaunch ==
  ASSUME LaunchInv, LockInv, NEW i, browser[i] = "up", browser' = [browser EXCEPT ![i] = "dead"],
         UNCHANGED <<pc, rt>>
  PROVE  LaunchInv'
<1>1. browser' \in [Runtimes -> BrowserState]
  BY DEF LaunchInv, BrowserState
<1> SUFFICES ASSUME NEW g \in Fetchers, pc[g] = "launch" PROVE browser'[rt[g]] = "none"
  BY <1>1 DEF LaunchInv
<1>2. rt[g] \in Runtimes /\ browser[rt[g]] = "none"
  BY DEF LaunchInv, LockInv, Placed, PlacedAt, EvictPoints
<1> QED BY <1>2 DEF LaunchInv

LEMMA LaunchStep == LaunchInv /\ LockInv /\ [Next]_vars => LaunchInv'
<1> SUFFICES ASSUME LaunchInv, LockInv, [Next]_vars PROVE LaunchInv'
  OBVIOUS
<1>0. Placed
  BY DEF LockInv
<1>1. CASE UNCHANGED <<browser, pc, rt>>
  BY <1>1 DEF LaunchInv
<1>2. ASSUME NEW f \in Fetchers, Leave(f), UNCHANGED browser PROVE LaunchInv'
  BY <1>0, <1>2, LeaveGoes, BrowsersStay
<1>3. ASSUME NEW f \in Fetchers, NEW p \in Points \ {"launch"}, Goto(f, p), UNCHANGED <<rt, browser>>
      PROVE  LaunchInv'
  BY <1>0, <1>3, FetchGoes, BrowsersStay
<1>4. ASSUME NEW f \in Fetchers, NEW k \in Keys, Get(f, k) PROVE LaunchInv'
  <2>1. CASE Arrive(f, pool[k])
    BY <1>0, <1>4, <2>1, ArriveGoes, BrowsersStay DEF Get
  <2>2. CASE Goto(f, "wantpool") /\ UNCHANGED rt
    BY <1>3, <1>4, <2>2 DEF Get, Points
  <2> QED BY <1>4, <2>1, <2>2 DEF Get
<1>5. ASSUME NEW f \in Fetchers, EnterPool(f) \/ EvictNext(f) PROVE LaunchInv'
  <2>1. want[f] \in Keys
    BY <1>0, <1>5 DEF EnterPool, EvictNext, Placed, PlacedAt, EvictPoints
  <2>2. ASSUME NEW v, NEW rest, PopVictim(f, v, rest) PROVE LaunchInv'
    BY <1>3, <2>2 DEF PopVictim, runtimeVars, Points, EvictPoints
  <2> QED BY <1>5, <2>1, <2>2, CreationKeepsLaunch DEF EnterPool, EvictNext
<1>6. ASSUME NEW f \in Fetchers, EvictLock(f) \/ DisconnectLock(f) PROVE LaunchInv'
  BY <1>3, <1>6 DEF EvictLock, DisconnectLock, Points, EvictPoints, EnsurePoints, BootPoints
<1>7. ASSUME NEW f \in Fetchers, EvictClosed(f) \/ DisconnectClosed(f) \/ Recycled(f) PROVE LaunchInv'
  <2>1. /\ UNCHANGED rt /\ \A g \in Fetchers \ {f} : pc'[g] = pc[g]
        /\ pc[f] = "recycle" \/ pc'[f] # "launch"
    BY <1>0, <1>7, FetchGoes DEF EvictClosed, DisconnectClosed, Recycled
  <2>2. \/ Closed(victim[f]) /\ pc'[f] # "launch"
        \/ Closed(rt[f]) /\ pc'[f] # "launch"
        \/ Closed(rt[f]) /\ rt[f] \in Runtimes
    BY <1>0, <1>7, <2>1 DEF EvictClosed, DisconnectClosed, Recycled, Placed, PlacedAt, EvictPoints
  <2> QED BY <2>1, <2>2, ClosingKeepsLaunch
<1>8. ASSUME NEW f \in Fetchers,
             \/ LaunchFails(f) \/ Acquire(f) \/ OpenContext(f) \/ Opened(f) \/ OpenFails(f)
             \/ UseEnds(f) \/ Persisted(f) \/ ContextClosed(f)
      PROVE  LaunchInv'
  <2>1. UNCHANGED browser
    BY <1>8 DEF LaunchFails, Acquire, OpenContext, Opened, OpenFails, UseEnds, Persisted,
                ContextClosed, runtimeVars
  <2>2. \/ Leave(f)
        \/ \E p \in Points \ {"launch"} : Goto(f, p) /\ UNCHANGED rt
    BY <1>8 DEF LaunchFails, Acquire, OpenContext, Opened, OpenFails, UseEnds, Persisted,
                ContextClosed, Abandon, Unwind, Points, BootPoints
  <2> QED BY <1>2, <1>3, <2>1, <2>2
<1>9. ASSUME NEW f \in Fetchers, Cancel(f) PROVE LaunchInv'
  BY <1>2, <1>9 DEF Cancel, Abandon, Unwind
<1>10. ASSUME NEW f \in Fetchers, Disconnects(f) PROVE LaunchInv'
  BY <1>10, DyingKeepsLaunch DEF Disconnects
<1>11. ASSUME NEW i \in Runtimes, BrowserDies(i) \/ Expire(i) PROVE LaunchInv'
  BY <1>1, <1>11, DyingKeepsLaunch DEF BrowserDies, Expire, fetchVars
<1>12. ASSUME NEW f \in Fetchers, Take(f) \/ Proceed(f) PROVE LaunchInv'
  BY <1>5, <1>6, <1>7, <1>8, <1>12, EnsureKeepsLaunch, LaunchedKeepsLaunch DEF Take, Proceed
<1>13. CASE UNCHANGED vars
  BY <1>1, <1>13 DEF vars, runtimeVars, fetchVars
<1> QED BY <1>4, <1>9, <1>10, <1>11, <1>12, <1>13 DEF Next

LEMMA LaunchInit == Init => LaunchInv
BY DEF Init, LaunchInv, BrowserState

(* browser_runtime.py: no exception, failed launch, dead driver or cancellation
   leaves a lock behind, no two fetches are inside one critical section, and no
   browser is launched over another. *)
THEOREM LocksAreMatched == Spec => []LocksMatch
<1>1. LockInv /\ LaunchInv => LocksMatch
  <2> SUFFICES ASSUME LockInv, LaunchInv PROVE LocksMatch
    OBVIOUS
  <2>1. \A f \in Fetchers :
          /\ InLock(f) => lock[IF pc[f] = "evictclose" THEN victim[f] ELSE rt[f]] = f
          /\ pc[f] \in EvictPoints => poolLock = f
    BY DEF LockInv, RuntimeLocks, PoolLock, InLock, Guarded, Mine
  <2>2. ASSUME NEW i \in Runtimes, lock[i] # None PROVE InLock(lock[i])
    <3>1. lock[i] \in Fetchers
      BY <2>2 DEF LockInv, Placed, PoolTypes
    <3> QED BY <3>1 DEF LockInv, RuntimeLocks, InLock, Guarded
  <2>3. poolLock # None => pc[poolLock] \in EvictPoints
    BY DEF LockInv, PoolLock
  <2>4. \A f \in Fetchers : pc[f] = "launch" => browser[rt[f]] = "none"
    BY DEF LaunchInv
  <2> QED BY <2>1, <2>2, <2>3, <2>4 DEF LocksMatch
<1> QED BY LockInit, LockStep, LaunchInit, LaunchStep, <1>1, PTL DEF Spec

-----------------------------------------------------------------------------
(* The counts.  A step moves one fetch; each of the three sets a runtime     *)
(* counts gains or loses at most that fetch, and the step that moves it also *)
(* adds or takes one, unless a cancellation skips it.                        *)

One(b) == IF b THEN 1 ELSE 0

ActiveAt(i)  == {f \in Users(i) : Active(f)}
QueuedAt(i)  == {f \in Users(i) : pc[f] = "queued"}
HoldingAt(i) == {f \in Users(i) : Holding(f)}

Tally(i) ==
  /\ active[i] = Cardinality(ActiveAt(i))
  /\ queued[i] = Cardinality(QueuedAt(i))
  /\ permits[i] + Cardinality(HoldingAt(i)) = MaxContexts

CountTypes ==
  /\ active \in [Runtimes -> Int] /\ queued \in [Runtimes -> Int]
  /\ permits \in [Runtimes -> Int] /\ attempt \in [Fetchers -> 0..1] /\ cancels \in Nat

(* Who comes to _ensure from the pool is in its first attempt and has no permit;
   who comes from a disconnect is in its second and keeps the permit. *)
Fresh(f) ==
  /\ pc[f] \in EvictPoints \cup {"idle", "wantpool"} => attempt[f] = 0
  /\ pc[f] \in {"relock", "reclose"} => attempt[f] = 1

CountInv ==
  /\ CountTypes /\ \A f \in Fetchers : Fresh(f)
  /\ cancels = 0 => \A i \in Runtimes : Tally(i)

(* The step's change of each count is what the move of f makes of its set. *)
Balanced(f) ==
  \A i \in Runtimes :
    /\ active'[i] + One(f \in ActiveAt(i)) = active[i] + One(f \in ActiveAt(i)')
    /\ queued'[i] + One(f \in QueuedAt(i)) = queued[i] + One(f \in QueuedAt(i)')
    /\ permits'[i] + One(f \in HoldingAt(i)') = permits[i] + One(f \in HoldingAt(i))

Alone(f) == \A g \in Fetchers \ {f} : pc'[g] = pc[g] /\ rt'[g] = rt[g] /\ attempt'[g] = attempt[g]

LEMMA OneApart ==
  ASSUME NEW A, NEW B, NEW f, IsFiniteSet(A), A \ {f} = B \ {f}
  PROVE  /\ IsFiniteSet(B) /\ Cardinality(A) \in Nat /\ Cardinality(B) \in Nat
         /\ Cardinality(B) + One(f \in A) = Cardinality(A) + One(f \in B)
<1> DEFINE C == A \ {f}
<1>1. IsFiniteSet(C) /\ Cardinality(C) \in Nat /\ Cardinality(A) \in Nat
  BY FS_RemoveElement, FS_CardinalityType
<1>2. Cardinality(A) = Cardinality(C) + One(f \in A)
  BY <1>1, FS_RemoveElement DEF One
<1>3. B = IF f \in B THEN C \cup {f} ELSE C
  OBVIOUS
<1>4. /\ IsFiniteSet(C \cup {f}) /\ Cardinality(C \cup {f}) = Cardinality(C) + 1
  BY <1>1, FS_AddElement
<1>5. IsFiniteSet(B) /\ Cardinality(B) = Cardinality(C) + One(f \in B)
  BY <1>1, <1>3, <1>4 DEF One
<1> HIDE DEF C
<1> QED BY <1>1, <1>2, <1>5 DEF One

LEMMA CountedAreFetchers ==
  ASSUME NEW i
  PROVE  IsFiniteSet(ActiveAt(i)) /\ IsFiniteSet(QueuedAt(i)) /\ IsFiniteSet(HoldingAt(i))
<1>1. /\ ActiveAt(i) \in SUBSET Fetchers /\ QueuedAt(i) \in SUBSET Fetchers
      /\ HoldingAt(i) \in SUBSET Fetchers
  BY DEF ActiveAt, QueuedAt, HoldingAt, Users
<1> QED BY <1>1, FS_Subset, BrowserPoolAssumption

LEMMA BalanceKeeps ==
  ASSUME CountInv, NEW f \in Fetchers, Alone(f), CountTypes', Fresh(f)',
         cancels' = cancels, cancels = 0 => Balanced(f)
  PROVE  CountInv'
<1>1. \A g \in Fetchers : Fresh(g)'
  BY DEF CountInv, Alone, Fresh
<1> SUFFICES ASSUME cancels = 0, NEW i \in Runtimes PROVE Tally(i)'
  BY <1>1 DEF CountInv
<1>2. /\ ActiveAt(i) \ {f} = ActiveAt(i)' \ {f}
      /\ QueuedAt(i) \ {f} = QueuedAt(i)' \ {f}
      /\ HoldingAt(i) \ {f} = HoldingAt(i)' \ {f}
  BY DEF Alone, ActiveAt, QueuedAt, HoldingAt, Users, Active, Holding, Booting
<1>3. Cardinality(ActiveAt(i)') \in Int /\ Cardinality(ActiveAt(i)') + One(f \in ActiveAt(i))
        = Cardinality(ActiveAt(i)) + One(f \in ActiveAt(i)')
  BY <1>2, CountedAreFetchers, OneApart
<1>4. Cardinality(QueuedAt(i)') \in Int /\ Cardinality(QueuedAt(i)') + One(f \in QueuedAt(i))
        = Cardinality(QueuedAt(i)) + One(f \in QueuedAt(i)')
  BY <1>2, CountedAreFetchers, OneApart
<1>5. /\ Cardinality(HoldingAt(i)) \in Int /\ Cardinality(HoldingAt(i)') \in Int
      /\ Cardinality(HoldingAt(i)') + One(f \in HoldingAt(i))
           = Cardinality(HoldingAt(i)) + One(f \in HoldingAt(i)')
  BY <1>2, CountedAreFetchers, OneApart
<1>6. Tally(i) /\ Balanced(f) /\ MaxContexts \in Int
  BY BrowserPoolAssumption DEF CountInv
<1>7. /\ active'[i] \in Int /\ queued'[i] \in Int /\ permits'[i] \in Int
      /\ permits[i] \in Int
  BY DEF CountTypes, CountInv
<1>8. active'[i] = Cardinality(ActiveAt(i)')
  BY <1>3, <1>6, <1>7 DEF Balanced, Tally, One
<1>9. queued'[i] = Cardinality(QueuedAt(i)')
  BY <1>4, <1>6, <1>7 DEF Balanced, Tally, One
<1>10. permits'[i] + Cardinality(HoldingAt(i)') = MaxContexts
  BY <1>5, <1>6, <1>7 DEF Balanced, Tally, One
<1> QED BY <1>8, <1>9, <1>10 DEF Tally

(* The pieces of a step. *)

CountDefs(f, i) ==
  /\ f \in ActiveAt(i) <=> rt[f] = i /\ Active(f)
  /\ f \in QueuedAt(i) <=> rt[f] = i /\ pc[f] = "queued"
  /\ f \in HoldingAt(i) <=> rt[f] = i /\ Holding(f)

LEMMA Membership ==
  ASSUME NEW f \in Fetchers, NEW i
  PROVE  CountDefs(f, i) /\ CountDefs(f, i)'
BY DEF CountDefs, ActiveAt, QueuedAt, HoldingAt, Users

(* Places whose fetch no count has. *)
Uncounted(f) ==
  \/ pc[f] \in EvictPoints \cup {"idle", "wantpool"}
  \/ pc[f] \in EnsurePoints /\ attempt[f] = 0

LEMMA UncountedIsNowhere ==
  ASSUME NEW f \in Fetchers
  PROVE  /\ Uncounted(f) => ~Active(f) /\ ~Holding(f) /\ pc[f] # "queued"
         /\ Uncounted(f)' => ~Active(f)' /\ ~Holding(f)' /\ pc'[f] # "queued"
BY DEF Uncounted, Active, Holding, Booting, BootPoints, EnsurePoints, EvictPoints

LEMMA UncountedBalance ==
  ASSUME CountTypes, NEW f \in Fetchers, Uncounted(f), Uncounted(f)',
         UNCHANGED <<active, queued, permits>>
  PROVE  Balanced(f)
BY UncountedIsNowhere, Membership DEF CountDefs, Balanced, One

(* f stays in the same counts of the same runtime. *)
LEMMA StayBalance ==
  ASSUME CountTypes, NEW f \in Fetchers, rt'[f] = rt[f], Active(f)' = Active(f),
         Holding(f)' = Holding(f), (pc'[f] = "queued") = (pc[f] = "queued"),
         UNCHANGED <<active, queued, permits>>
  PROVE  Balanced(f)
BY Membership DEF CountDefs, Balanced, One

LEMMA LeaveAlone ==
  ASSUME Placed, CountTypes, NEW f \in Fetchers, Leave(f)
  PROVE  /\ Alone(f) /\ pc'[f] = "idle" /\ rt'[f] = None /\ attempt'[f] = 0
         /\ attempt' \in [Fetchers -> 0..1] /\ Fresh(f)' /\ Uncounted(f)'
BY DEF Placed, FetchTypes, CountTypes, Leave, Goto, Alone, Fresh, Uncounted

LEMMA GotoAlone ==
  ASSUME Placed, NEW f \in Fetchers, NEW p, Goto(f, p), UNCHANGED <<rt, attempt>>
  PROVE  Alone(f) /\ pc'[f] = p
BY DEF Placed, FetchTypes, Goto, Alone

LEMMA EnqueueBalance ==
  ASSUME Placed, CountTypes, NEW f \in Fetchers, NEW i \in Runtimes, Enqueue(f, i),
         rt'[f] = i, Uncounted(f)
  PROVE  /\ Balanced(f) /\ pc'[f] \in Entered
         /\ active' \in [Runtimes -> Int] /\ queued' \in [Runtimes -> Int]
         /\ permits' \in [Runtimes -> Int]
<1>1. ~Active(f) /\ ~Holding(f) /\ pc[f] # "queued"
  BY UncountedIsNowhere
<1>2. CASE /\ Goto(f, "opening") /\ permits' = [permits EXCEPT ![i] = @ - 1]
           /\ active' = [active EXCEPT ![i] = @ + 1] /\ UNCHANGED queued
  <2>1. pc'[f] = "opening"
    BY <1>2, FetchGoes
  <2>2. Active(f)' /\ Holding(f)'
    BY <2>1 DEF Active, Holding, Booting, BootPoints
  <2>3. Balanced(f)
    BY <1>1, <1>2, <2>1, <2>2, Membership DEF CountTypes, CountDefs, Balanced, One
  <2> QED BY <1>2, <2>1, <2>3 DEF CountTypes, Entered
<1>3. CASE /\ Goto(f, "queued") /\ queued' = [queued EXCEPT ![i] = @ + 1]
           /\ UNCHANGED <<permits, active>>
  <2>1. pc'[f] = "queued"
    BY <1>3, FetchGoes
  <2>2. ~Active(f)' /\ ~Holding(f)'
    BY <2>1 DEF Active, Holding, Booting, BootPoints, EnsurePoints
  <2>3. Balanced(f)
    BY <1>1, <1>3, <2>1, <2>2, Membership DEF CountTypes, CountDefs, Balanced, One
  <2> QED BY <1>3, <2>1, <2>3 DEF CountTypes, Entered
<1> QED BY <1>2, <1>3 DEF Enqueue

LEMMA ArriveCounts ==
  ASSUME Placed, CountInv, NEW f \in Fetchers, NEW i \in Runtimes, Arrive(f, i),
         pc[f] \in EvictPoints \cup {"idle", "wantpool"}, UNCHANGED cancels
  PROVE  CountInv'
<1>1. Uncounted(f) /\ attempt[f] = 0 /\ CountTypes
  BY DEF CountInv, Fresh, Uncounted
<1>2. pc'[f] \in Entered \cup {"ensure"} /\ \A g \in Fetchers \ {f} : pc'[g] = pc[g]
  BY EnqueueGoes, FetchGoes DEF Arrive
<1>3. /\ rt'[f] = i /\ UNCHANGED attempt /\ \A g \in Fetchers \ {f} : rt'[g] = rt[g]
  BY DEF Arrive, Placed, FetchTypes
<1>4. Alone(f) /\ Fresh(f)'
  BY <1>1, <1>2, <1>3 DEF Alone, Fresh, Entered
<1>5. CASE Enqueue(f, i)
  <2>1. /\ Balanced(f) /\ active' \in [Runtimes -> Int] /\ queued' \in [Runtimes -> Int]
        /\ permits' \in [Runtimes -> Int]
    BY <1>1, <1>3, <1>5, EnqueueBalance
  <2> QED BY <1>1, <1>3, <1>4, <2>1, BalanceKeeps DEF CountTypes
<1>6. CASE Goto(f, "ensure") /\ UNCHANGED <<permits, active, queued>>
  <2>1. Uncounted(f)'
    BY <1>1, <1>3, <1>6, FetchGoes DEF Uncounted, EnsurePoints
  <2>2. Balanced(f) /\ CountTypes'
    BY <1>1, <1>3, <1>6, <2>1, UncountedBalance DEF CountTypes
  <2> QED BY <1>4, <2>2, BalanceKeeps
<1> QED BY <1>5, <1>6 DEF Arrive

(* Where nobody refers to a runtime nothing is counted, and creating it anew
   changes no count. *)
LEMMA CreationCounts ==
  ASSUME Placed, CountInv, NEW f \in Fetchers, NEW k \in Keys, GetOrCreate(f, k),
         pc[f] \in EvictPoints \cup {"idle", "wantpool"}, UNCHANGED cancels
  PROVE  CountInv'
<1>1. CASE pool[k] # None /\ Arrive(f, pool[k])
  <2>1. pool[k] \in Runtimes
    BY <1>1 DEF Placed, PoolTypes
  <2> QED BY <1>1, <2>1, ArriveCounts
<1>2. ASSUME NEW i \in Runtimes, Unreferenced(i), rt' = [rt EXCEPT ![f] = i],
             permits' = [permits EXCEPT ![i] = MaxContexts],
             active' = [active EXCEPT ![i] = 0], queued' = [queued EXCEPT ![i] = 0],
             Goto(f, "ensure"), UNCHANGED attempt
      PROVE  CountInv'
  <2>1. /\ pc'[f] = "ensure" /\ rt'[f] = i
        /\ \A g \in Fetchers \ {f} : pc'[g] = pc[g] /\ rt'[g] = rt[g]
    BY <1>2, FetchGoes DEF Placed, FetchTypes
  <2>2. CountTypes /\ attempt[f] = 0 /\ MaxContexts \in Int
    BY BrowserPoolAssumption DEF CountInv, Fresh
  <2>3. Alone(f) /\ Fresh(f)' /\ CountTypes'
    BY <1>2, <2>1, <2>2 DEF Alone, Fresh, CountTypes, EvictPoints
  <2>4. Uncounted(f) /\ Uncounted(f)'
    BY <1>2, <2>1, <2>2 DEF Uncounted, EnsurePoints
  <2>5. ASSUME cancels = 0 PROVE UNCHANGED <<active, queued, permits>>
    <3>1. Tally(i)
      BY <2>5 DEF CountInv
    <3>2. ActiveAt(i) = {} /\ QueuedAt(i) = {} /\ HoldingAt(i) = {}
      BY <1>2 DEF Unreferenced, ActiveAt, QueuedAt, HoldingAt
    <3>3. active[i] = 0 /\ queued[i] = 0 /\ permits[i] = MaxContexts
      BY <2>2, <3>1, <3>2, FS_EmptySet DEF Tally, CountTypes
    <3> QED BY <1>2, <2>2, <3>3 DEF CountTypes
  <2> QED BY <1>2, <2>2, <2>3, <2>4, <2>5, UncountedBalance, BalanceKeeps
<1> QED BY <1>1, <1>2 DEF GetOrCreate

(* f stays where no count has it. *)
LEMMA WalkCounts ==
  ASSUME Placed, CountInv, NEW f \in Fetchers, NEW p, Goto(f, p), UNCHANGED rt,
         UNCHANGED <<active, queued, permits, attempt, cancels>>,
         \/ p \in EvictPoints \cup {"idle", "wantpool"} /\ pc[f] \in EvictPoints \cup {"idle", "wantpool"}
         \/ p \in EnsurePoints /\ pc[f] \in EnsurePoints
         \/ p \in {"context", "using", "reclose"} /\ pc[f] \in BootPoints /\ (p = "reclose" => attempt[f] = 1)
         \/ p = "ensure" /\ pc[f] \in BootPoints /\ attempt[f] = 1
         \/ p = "ctxclose" /\ pc[f] = "persist"
  PROVE  CountInv'
<1>1. pc'[f] = p /\ Alone(f) /\ CountTypes /\ CountTypes'
  BY GotoAlone DEF CountInv, CountTypes
<1>2. Fresh(f)'
  BY <1>1 DEF CountInv, Fresh, EvictPoints, EnsurePoints, BootPoints
<1>3. /\ Active(f)' = Active(f) /\ Holding(f)' = Holding(f)
      /\ (pc'[f] = "queued") = (pc[f] = "queued")
  BY <1>1 DEF Active, Holding, Booting, BootPoints, EnsurePoints, EvictPoints
<1> QED BY <1>1, <1>2, <1>3, StayBalance, BalanceKeeps

(* f had a permit and a context's count, and gives both back. *)
LEMMA UnwindCounts ==
  ASSUME Placed, CountInv, NEW f \in Fetchers, Unwind(f), Booting(f), UNCHANGED <<queued, cancels>>
  PROVE  CountInv'
<1>1. CountTypes /\ None \notin Runtimes /\ rt[f] \in Runtimes
  BY BrowserPoolAssumption
  DEF CountInv, Placed, PlacedAt, Booting, BootPoints, EnsurePoints, EvictPoints
<1>2. /\ Alone(f) /\ Fresh(f)' /\ attempt' \in [Fetchers -> 0..1] /\ Uncounted(f)'
      /\ rt'[f] = None
  BY <1>1, LeaveAlone DEF Unwind
<1>3. CountTypes'
  BY <1>1, <1>2 DEF CountTypes, Unwind
<1>4. Active(f) /\ Holding(f) /\ pc[f] # "queued"
  BY DEF Active, Holding, Booting, BootPoints, EnsurePoints
<1>5. /\ active' = [active EXCEPT ![rt[f]] = @ - 1]
      /\ permits' = [permits EXCEPT ![rt[f]] = @ + 1]
  BY DEF Unwind
<1>6. Balanced(f)
  BY <1>1, <1>2, <1>4, <1>5, UncountedIsNowhere, Membership DEF CountTypes, CountDefs, Balanced, One
<1> QED BY <1>2, <1>3, <1>6, BalanceKeeps

(* f leaves from where no count had it. *)
LEMMA LeaveCounts ==
  ASSUME Placed, CountInv, NEW f \in Fetchers, Leave(f), Uncounted(f),
         UNCHANGED <<active, queued, permits, cancels>>
  PROVE  CountInv'
<1>1. CountTypes
  BY DEF CountInv
<1>2. Alone(f) /\ Fresh(f)' /\ attempt' \in [Fetchers -> 0..1] /\ Uncounted(f)'
  BY <1>1, LeaveAlone
<1>3. Balanced(f) /\ CountTypes'
  BY <1>1, <1>2, UncountedBalance DEF CountTypes
<1> QED BY <1>2, <1>3, BalanceKeeps

LEMMA EnsuredCounts ==
  ASSUME Placed, CountInv, NEW f \in Fetchers, Ensured(f), pc[f] \in {"ensure", "launch"},
         UNCHANGED cancels
  PROVE  CountInv'
<1>1. CountTypes /\ rt[f] \in Runtimes /\ pc[f] \in EnsurePoints
  BY DEF CountInv, Placed, PlacedAt, EvictPoints, EnsurePoints
<1>2. CASE attempt[f] = 1 /\ Goto(f, "context") /\ UNCHANGED <<permits, active, queued, rt, attempt>>
  <2>1. pc'[f] = "context" /\ Alone(f) /\ CountTypes'
    BY <1>1, <1>2, GotoAlone DEF CountTypes
  <2>2. /\ Active(f) /\ Holding(f) /\ Active(f)' /\ Holding(f)' /\ Fresh(f)'
        /\ pc[f] # "queued"
    BY <1>1, <1>2, <2>1
    DEF Active, Holding, Booting, BootPoints, EnsurePoints, Fresh, EvictPoints
  <2>3. Balanced(f)
    BY <1>1, <1>2, <2>1, <2>2, StayBalance
  <2> QED BY <2>1, <2>2, <2>3, BalanceKeeps
<1>3. CASE attempt[f] # 1 /\ Enqueue(f, rt[f]) /\ UNCHANGED <<rt, attempt>>
  <2>1. attempt[f] = 0 /\ Uncounted(f)
    BY <1>1, <1>3 DEF CountTypes, Uncounted
  <2>2. /\ Balanced(f) /\ active' \in [Runtimes -> Int] /\ queued' \in [Runtimes -> Int]
        /\ permits' \in [Runtimes -> Int] /\ pc'[f] \in Entered
    BY <1>1, <1>3, <2>1, EnqueueBalance DEF Placed, FetchTypes
  <2>3. Alone(f)
    BY <1>3, EnqueueGoes, GotoAlone
  <2>4. Fresh(f)' /\ CountTypes'
    BY <1>1, <1>3, <2>2 DEF Fresh, CountTypes, Entered, EvictPoints
  <2> QED BY <2>2, <2>3, <2>4, BalanceKeeps
<1> QED BY <1>2, <1>3 DEF Ensured

(* One lemma for each kind of step. *)
LEMMA PoolCounts ==
  ASSUME Placed, CountInv, NEW f \in Fetchers,
         (\E k \in Keys : Get(f, k)) \/ EnterPool(f) \/ EvictLock(f) \/ EvictClosed(f) \/ EvictNext(f)
  PROVE  CountInv'
<1>1. UNCHANGED cancels /\ pc[f] \in EvictPoints \cup {"idle", "wantpool"}
  BY DEF Get, EnterPool, EvictLock, EvictClosed, EvictNext, EvictPoints
<1>2. ASSUME NEW p \in EvictPoints \cup {"wantpool"}, Goto(f, p), UNCHANGED rt,
             UNCHANGED <<countVars, attempt>>
      PROVE  CountInv'
  BY <1>1, <1>2, WalkCounts DEF countVars
<1>3. ASSUME NEW k \in Keys, Get(f, k) PROVE CountInv'
  <2>1. CASE pool[k] # None /\ Arrive(f, pool[k])
    <3>1. pool[k] \in Runtimes
      BY <2>1 DEF Placed, PoolTypes
    <3> QED BY <1>1, <2>1, <3>1, ArriveCounts
  <2> QED BY <1>2, <1>3, <2>1 DEF Get
<1>4. ASSUME NEW v, NEW rest, PopVictim(f, v, rest) PROVE CountInv'
  BY <1>2, <1>4 DEF PopVictim, runtimeVars, EvictPoints
<1>5. CASE EnterPool(f) \/ EvictNext(f)
  <2>1. want[f] \in Keys
    BY <1>5 DEF EnterPool, EvictNext, Placed, PlacedAt, EvictPoints
  <2> QED BY <1>1, <1>4, <1>5, <2>1, CreationCounts DEF EnterPool, EvictNext
<1>6. CASE EvictLock(f) \/ EvictClosed(f)
  BY <1>2, <1>6 DEF EvictLock, EvictClosed, EvictPoints
<1> QED BY <1>3, <1>5, <1>6

LEMMA EnsureCounts ==
  ASSUME Placed, CountInv, NEW f \in Fetchers,
         \/ EnsureLock(f) \/ Recycled(f) \/ Launched(f) \/ LaunchFails(f)
         \/ DisconnectLock(f) \/ DisconnectClosed(f)
  PROVE  CountInv'
<1>1. UNCHANGED cancels
  BY DEF EnsureLock, Recycled, Launched, LaunchFails, DisconnectLock, DisconnectClosed
<1>2. ASSUME NEW p, Goto(f, p), UNCHANGED <<countVars, rt, attempt>>,
             pc[f] \in EnsurePoints, p \in EnsurePoints
      PROVE  CountInv'
  BY <1>1, <1>2, WalkCounts DEF countVars
<1>3. CASE EnsureLock(f)
  BY <1>1, <1>2, <1>3, EnsuredCounts DEF EnsureLock, EnsurePoints
<1>4. CASE Recycled(f)
  BY <1>2, <1>4 DEF Recycled, EnsurePoints
<1>5. CASE Launched(f)
  BY <1>1, <1>5, EnsuredCounts DEF Launched
<1>6. CASE LaunchFails(f)
  <2>1. CASE Booting(f)
    BY <1>1, <1>6, <2>1, UnwindCounts DEF LaunchFails, Abandon
  <2>2. CASE ~Booting(f)
    <3>1. Uncounted(f)
      BY <1>6, <2>2 DEF LaunchFails, Booting, Uncounted, EnsurePoints, CountInv, CountTypes
    <3> QED BY <1>1, <1>6, <2>2, <3>1, LeaveCounts DEF LaunchFails, Abandon, countVars
  <2> QED BY <2>1, <2>2
<1>7. CASE DisconnectLock(f) \/ DisconnectClosed(f)
  <2>1. pc[f] \in {"relock", "reclose"} /\ attempt[f] = 1 /\ UNCHANGED <<countVars, rt, attempt>>
    BY <1>7 DEF DisconnectLock, DisconnectClosed, CountInv, Fresh
  <2>2. Goto(f, "reclose") \/ Goto(f, "ensure")
    BY <1>7 DEF DisconnectLock, DisconnectClosed
  <2>3. CASE Goto(f, "reclose")
    BY <1>1, <2>1, <2>3, WalkCounts DEF countVars, BootPoints
  <2>4. CASE Goto(f, "ensure")
    BY <1>1, <2>1, <2>4, WalkCounts DEF countVars, BootPoints
  <2> QED BY <2>2, <2>3, <2>4
<1> QED BY <1>3, <1>4, <1>5, <1>6, <1>7

(* A permit that arrives for a browser that is gone is not taken. *)
LEMMA AcquireCounts ==
  ASSUME Placed, CountInv, NEW f \in Fetchers, Acquire(f)
  PROVE  CountInv'
<1>1. /\ pc[f] = "queued" /\ UNCHANGED cancels /\ CountTypes /\ rt[f] \in Runtimes
      /\ queued' = [queued EXCEPT ![rt[f]] = @ - 1] /\ None \notin Runtimes
  BY BrowserPoolAssumption DEF Acquire, CountInv, Placed, PlacedAt, EvictPoints
<1>2. ~Active(f) /\ ~Holding(f)
  BY <1>1 DEF Active, Holding, Booting, BootPoints, EnsurePoints
<1>3. CASE Leave(f) /\ UNCHANGED <<permits, active>>
  <2>1. /\ Alone(f) /\ Fresh(f)' /\ attempt' \in [Fetchers -> 0..1] /\ Uncounted(f)'
        /\ rt'[f] = None
    BY <1>1, <1>3, LeaveAlone
  <2>2. CountTypes'
    BY <1>1, <1>3, <2>1 DEF CountTypes
  <2>3. Balanced(f)
    BY <1>1, <1>2, <1>3, <2>1, UncountedIsNowhere, Membership
    DEF CountTypes, CountDefs, Balanced, One
  <2> QED BY <1>1, <2>1, <2>2, <2>3, BalanceKeeps
<1>4. CASE /\ Goto(f, "opening") /\ permits' = [permits EXCEPT ![rt[f]] = @ - 1]
           /\ active' = [active EXCEPT ![rt[f]] = @ + 1] /\ UNCHANGED <<rt, attempt>>
  <2>1. Alone(f) /\ pc'[f] = "opening" /\ CountTypes'
    BY <1>1, <1>4, GotoAlone DEF CountTypes
  <2>2. Active(f)' /\ Holding(f)' /\ Fresh(f)'
    BY <2>1 DEF Active, Holding, Booting, BootPoints, Fresh, EvictPoints
  <2>3. Balanced(f)
    BY <1>1, <1>2, <1>4, <2>1, <2>2, Membership DEF CountTypes, CountDefs, Balanced, One
  <2> QED BY <1>1, <2>1, <2>2, <2>3, BalanceKeeps
<1> QED BY <1>3, <1>4 DEF Acquire

LEMMA OpenCounts ==
  ASSUME Placed, CountInv, NEW f \in Fetchers, OpenContext(f) \/ Opened(f) \/ OpenFails(f)
  PROVE  CountInv'
<1>1. /\ pc[f] \in {"opening", "context"} /\ UNCHANGED <<cancels, queued>> /\ Booting(f)
      /\ CountTypes
  BY DEF OpenContext, Opened, OpenFails, countVars, Unwind, Booting, BootPoints, CountInv
<1>2. CASE Unwind(f)
  BY <1>1, <1>2, UnwindCounts
<1>3. ASSUME NEW p \in {"context", "using"}, Goto(f, p),
             UNCHANGED <<active, permits, rt, attempt>>
      PROVE  CountInv'
  BY <1>1, <1>3, WalkCounts DEF BootPoints
<1>4. CASE Goto(f, "relock") /\ attempt' = [attempt EXCEPT ![f] = 1]
           /\ UNCHANGED <<active, permits, rt>>
  <2>1. pc'[f] = "relock" /\ \A g \in Fetchers \ {f} : pc'[g] = pc[g]
    BY <1>4, FetchGoes
  <2>2. CountTypes' /\ attempt'[f] = 1 /\ \A g \in Fetchers \ {f} : attempt'[g] = attempt[g]
    BY <1>1, <1>4 DEF CountTypes
  <2>3. Alone(f) /\ Fresh(f)' /\ rt'[f] = rt[f]
    BY <1>4, <2>1, <2>2 DEF Alone, Fresh, EvictPoints
  <2>4. /\ Active(f) /\ Active(f)' /\ Holding(f) /\ Holding(f)'
        /\ pc[f] # "queued" /\ pc'[f] # "queued"
    BY <1>1, <2>1 DEF Active, Holding, Booting, BootPoints
  <2>5. Balanced(f)
    BY <1>1, <1>4, <2>3, <2>4, StayBalance
  <2> QED BY <1>1, <2>2, <2>3, <2>5, BalanceKeeps
<1> QED BY <1>2, <1>3, <1>4 DEF OpenContext, Opened, OpenFails, countVars

LEMMA EndCounts ==
  ASSUME Placed, CountInv, NEW f \in Fetchers, UseEnds(f) \/ Persisted(f) \/ ContextClosed(f)
  PROVE  CountInv'
<1>1. UNCHANGED <<cancels, queued>> /\ CountTypes /\ rt[f] \in Runtimes /\ None \notin Runtimes
  BY BrowserPoolAssumption
  DEF UseEnds, Persisted, ContextClosed, runtimeVars, countVars, CountInv, Placed, PlacedAt, EvictPoints
<1>2. CASE UseEnds(f)
  <2>1. Alone(f) /\ pc'[f] = "persist" /\ pc[f] = "using" /\ rt'[f] = rt[f]
    BY <1>2, GotoAlone DEF UseEnds
  <2>2. Active(f) /\ Holding(f) /\ ~Active(f)' /\ Holding(f)' /\ Fresh(f)' /\ CountTypes'
    BY <1>1, <1>2, <2>1
    DEF UseEnds, CountTypes, Active, Holding, Booting, BootPoints, EnsurePoints, Fresh, EvictPoints
  <2>3. Balanced(f)
    BY <1>1, <1>2, <2>1, <2>2, Membership DEF UseEnds, CountTypes, CountDefs, Balanced, One
  <2> QED BY <1>1, <2>1, <2>2, <2>3, BalanceKeeps
<1>3. CASE Persisted(f)
  BY <1>1, <1>3, WalkCounts DEF Persisted, runtimeVars, countVars
<1>4. CASE ContextClosed(f)
  <2>1. /\ Alone(f) /\ Fresh(f)' /\ attempt' \in [Fetchers -> 0..1] /\ Uncounted(f)'
        /\ rt'[f] = None /\ pc[f] = "ctxclose"
    BY <1>1, <1>4, LeaveAlone DEF ContextClosed
  <2>2. ~Active(f) /\ Holding(f) /\ pc[f] # "queued" /\ CountTypes'
    BY <1>1, <1>4, <2>1
    DEF ContextClosed, CountTypes, Active, Holding, Booting, BootPoints, EnsurePoints
  <2>3. Balanced(f)
    BY <1>1, <1>4, <2>1, <2>2, UncountedIsNowhere, Membership
    DEF ContextClosed, CountTypes, CountDefs, Balanced, One
  <2> QED BY <1>1, <2>1, <2>2, <2>3, BalanceKeeps
<1> QED BY <1>2, <1>3, <1>4

(* After a cancellation only the types are claimed. *)
LEMMA CancelCounts ==
  ASSUME Placed, CountInv, NEW f \in Fetchers, Cancel(f)
  PROVE  CountInv'
<1>1. CountTypes /\ cancels' = cancels + 1 /\ cancels' # 0 /\ cancels' \in Nat
  BY DEF Cancel, CountInv, CountTypes
<1>2. Leave(f)
  BY DEF Cancel, Abandon, Unwind
<1>3. Alone(f) /\ Fresh(f)' /\ attempt' \in [Fetchers -> 0..1]
  BY <1>1, <1>2, LeaveAlone
<1>4. CountTypes'
  BY <1>1, <1>3 DEF Cancel, Abandon, Unwind, countVars, CountTypes
<1>5. \A g \in Fetchers : Fresh(g)'
  BY <1>3 DEF Alone, Fresh, CountInv
<1> QED BY <1>1, <1>4, <1>5 DEF CountInv

LEMMA CountInit == Init => CountInv
<1> SUFFICES ASSUME Init PROVE CountInv
  OBVIOUS
<1>1. CountTypes /\ \A f \in Fetchers : Fresh(f)
  BY BrowserPoolAssumption DEF Init, CountTypes, Fresh
<1>2. ASSUME NEW i \in Runtimes PROVE Tally(i)
  <2>1. ActiveAt(i) = {} /\ QueuedAt(i) = {} /\ HoldingAt(i) = {}
    BY BrowserPoolAssumption DEF Init, ActiveAt, QueuedAt, HoldingAt, Users
  <2> QED BY <2>1, FS_EmptySet, BrowserPoolAssumption DEF Init, Tally
<1> QED BY <1>1, <1>2 DEF CountInv

LEMMA CountStep == CountInv /\ LockInv /\ [Next]_vars => CountInv'
<1> SUFFICES ASSUME CountInv, LockInv, [Next]_vars PROVE CountInv'
  OBVIOUS
<1>0. Placed
  BY DEF LockInv
<1>1. CASE UNCHANGED <<pc, rt, attempt, active, queued, permits, cancels>>
  <2>1. \A i : ActiveAt(i)' = ActiveAt(i) /\ QueuedAt(i)' = QueuedAt(i) /\ HoldingAt(i)' = HoldingAt(i)
    BY <1>1 DEF ActiveAt, QueuedAt, HoldingAt, Users, Active, Holding, Booting
  <2> QED BY <1>1, <2>1 DEF CountInv, CountTypes, Fresh, Tally
<1>2. ASSUME NEW f \in Fetchers, (\E k \in Keys : Get(f, k)) \/ Take(f) \/ Proceed(f)
      PROVE  CountInv'
  BY <1>0, <1>2, PoolCounts, EnsureCounts, AcquireCounts, OpenCounts, EndCounts DEF Take, Proceed
<1>3. ASSUME NEW f \in Fetchers, Cancel(f) PROVE CountInv'
  BY <1>0, <1>3, CancelCounts
<1>4. ASSUME NEW f \in Fetchers, Disconnects(f) PROVE CountInv'
  BY <1>1, <1>4 DEF Disconnects, countVars
<1>5. ASSUME NEW i \in Runtimes, BrowserDies(i) \/ Expire(i) PROVE CountInv'
  BY <1>1, <1>5 DEF BrowserDies, Expire, countVars, fetchVars
<1>6. CASE UNCHANGED vars
  BY <1>1, <1>6 DEF vars, runtimeVars, countVars, fetchVars
<1> QED BY <1>2, <1>3, <1>4, <1>5, <1>6 DEF Next

(* browser_runtime.py: _active_contexts, _queue_depth and the semaphore agree
   with the fetches that are there, whichever step of page() fails or is retried,
   until a cancellation skips a release. *)
THEOREM CountsAreExact == Spec => []CountsTally
<1>1. CountInv => CountsTally
  BY DEF CountInv, Tally, CountsTally, ActiveAt, QueuedAt, HoldingAt
<1> QED BY LockInit, LockStep, CountInit, CountStep, <1>1, PTL DEF Spec

-----------------------------------------------------------------------------
(* The size of the pool.  Each lane has a runtime of its own; an eviction that *)
(* has popped all it selected leaves less than the limit, or only busy         *)
(* runtimes, each with a fetch of its own other than the one that evicts.      *)

Room(n) == n < MaxEntries \/ n < Cardinality(Fetchers)

OneLane == \A k, l \in Keys : pool[k] = pool[l] /\ pool[k] # None => k = l

SizeInv ==
  /\ OneLane /\ IsFiniteSet(Pooled) /\ victims \subseteq Pooled
  /\ poolLock = None => victims = {}
  /\ cancels = 0 => /\ PoolBounded
                    /\ poolLock # None => Room(Cardinality(Pooled) - Cardinality(victims))

LEMMA PopShrinks ==
  ASSUME Placed, OneLane, NEW v \in Pooled, pool' = [pool EXCEPT ![KeyOf(v)] = None]
  PROVE  Pooled' = Pooled \ {v} /\ OneLane'
<1>1. KeyOf(v) \in Keys /\ pool[KeyOf(v)] = v /\ v # None
  BY DEF Pooled, KeyOf
<1>2. pool'[KeyOf(v)] = None /\ \A k \in Keys \ {KeyOf(v)} : pool'[k] = pool[k] /\ pool[k] # v
  BY <1>1 DEF Placed, PoolTypes, OneLane
<1> QED BY <1>1, <1>2 DEF Pooled, OneLane

LEMMA CreateGrows ==
  ASSUME Placed, OneLane, NEW k \in Keys, NEW i \in Runtimes \ Pooled, pool[k] = None,
         pool' = [pool EXCEPT ![k] = i]
  PROVE  Pooled' = Pooled \cup {i} /\ OneLane'
<1>1. pool'[k] = i /\ \A l \in Keys \ {k} : pool'[l] = pool[l]
  BY DEF Placed, PoolTypes
<1>2. i # None /\ \A l \in Keys : pool[l] # i
  BY BrowserPoolAssumption DEF Pooled
<1> QED BY <1>1, <1>2 DEF Pooled, OneLane

(* The runtimes an eviction must spare are fewer than the fetches. *)
LEMMA BusyAreFewer ==
  ASSUME CountInv, cancels = 0, NEW f \in Fetchers, Uncounted(f),
         NEW B \in SUBSET Runtimes, \A i \in B : ~Idle(i)
  PROVE  Cardinality(B) < Cardinality(Fetchers)
<1> DEFINE G == Fetchers \ {f}
           R == {rt[g] : g \in G}
           h == [g \in G |-> rt[g]]
<1>1. /\ IsFiniteSet(G) /\ Cardinality(G) = Cardinality(Fetchers) - 1
      /\ Cardinality(Fetchers) \in Nat
  BY BrowserPoolAssumption, FS_RemoveElement, FS_CardinalityType
<1>2. h \in Surjection(G, R)
  BY DEF Surjection
<1>3. IsFiniteSet(R) /\ Cardinality(R) <= Cardinality(G)
  <2> HIDE DEF G, R, h
  <2> QED BY <1>1, <1>2, FS_Surjection
<1>4. ASSUME NEW i \in B PROVE i \in R
  <2>1. Tally(i) /\ (active[i] # 0 \/ queued[i] # 0)
    BY DEF CountInv, Idle
  <2>2. ActiveAt(i) # {} \/ QueuedAt(i) # {}
    BY <2>1, FS_EmptySet DEF Tally
  <2>3. f \notin ActiveAt(i) /\ f \notin QueuedAt(i)
    BY UncountedIsNowhere, Membership DEF CountDefs
  <2>4. PICK g \in Fetchers : rt[g] = i /\ g # f
    BY <2>2, <2>3 DEF ActiveAt, QueuedAt, Users
  <2> QED BY <2>4
<1>5. B \in SUBSET R
  BY <1>4
<1>6. Cardinality(B) <= Cardinality(R) /\ Cardinality(B) \in Nat /\ Cardinality(R) \in Nat
  <2> HIDE DEF R
  <2> QED BY <1>3, <1>5, FS_Subset, FS_CardinalityType
<1> HIDE DEF G, R, h
<1> QED BY <1>1, <1>3, <1>6

(* What an eviction selects makes room. *)
LEMMA SelectionMakesRoom ==
  ASSUME Placed, CountInv, IsFiniteSet(Pooled), NEW f \in Fetchers, Uncounted(f),
         NEW S \in Selections
  PROVE  /\ S \subseteq Pooled /\ IsFiniteSet(S)
         /\ cancels = 0 => Room(Cardinality(Pooled) - Cardinality(S))
<1>1. S \in SUBSET Pooled /\ Pooled \subseteq Runtimes
  BY DEF Selections, Pooled, Placed, PoolTypes
<1>2. IsFiniteSet(S)
  BY <1>1, FS_Subset
<1>3. Cardinality(Pooled \ S) = Cardinality(Pooled) - Cardinality(S)
  <2>1. Pooled \cap S = S
    BY <1>1
  <2> QED BY <2>1, FS_Difference
<1>4. ASSUME cancels = 0, S = {i \in Pooled : Idle(i)}
      PROVE  Cardinality(Pooled \ S) < Cardinality(Fetchers)
  <2>1. Pooled \ S \in SUBSET Runtimes /\ \A i \in Pooled \ S : ~Idle(i)
    BY <1>1, <1>4
  <2> QED BY <1>4, <2>1, BusyAreFewer
<1>5. Cardinality(Pooled) - Cardinality(S) < MaxEntries \/ S = {i \in Pooled : Idle(i)}
  BY DEF Selections
<1> QED BY <1>1, <1>2, <1>3, <1>4, <1>5 DEF Room

LEMMA CreationKeepsSize ==
  ASSUME Placed, SizeInv, NEW f \in Fetchers, NEW k \in Keys, GetOrCreate(f, k),
         cancels = 0 /\ pool[k] = None => Room(Cardinality(Pooled)),
         cancels' = cancels, poolLock' = None, victims' = {}
  PROVE  SizeInv'
<1>1. CASE UNCHANGED pool
  <2>1. Pooled' = Pooled
    BY <1>1 DEF Pooled
  <2> QED BY <1>1, <2>1 DEF SizeInv, OneLane, PoolBounded
<1>2. ASSUME NEW i \in Runtimes, Unreferenced(i), pool' = [pool EXCEPT ![k] = i], pool[k] = None
      PROVE  SizeInv'
  <2>1. Pooled' = Pooled \cup {i} /\ OneLane' /\ i \notin Pooled
    BY <1>2, CreateGrows DEF SizeInv, Unreferenced
  <2>2. IsFiniteSet(Pooled') /\ Cardinality(Pooled') = Cardinality(Pooled) + 1
    BY <2>1, FS_AddElement DEF SizeInv
  <2>3. Cardinality(Pooled) \in Nat /\ MaxEntries \in Nat /\ Cardinality(Fetchers) \in Nat
    BY FS_CardinalityType, BrowserPoolAssumption DEF SizeInv
  <2>4. PoolBounded'
    BY <1>2, <2>2, <2>3 DEF PoolBounded, Room
  <2> QED BY <2>1, <2>2, <2>4 DEF SizeInv
<1> QED BY <1>1, <1>2 DEF GetOrCreate

LEMMA PopKeepsSize ==
  ASSUME Placed, SizeInv, NEW f \in Fetchers, NEW S \in SUBSET Pooled, NEW v \in S,
         PopVictim(f, v, S \ {v}), cancels' = cancels, poolLock' # None,
         cancels = 0 => Room(Cardinality(Pooled) - Cardinality(S))
  PROVE  SizeInv'
<1>1. Pooled' = Pooled \ {v} /\ OneLane' /\ victims' = S \ {v}
  BY PopShrinks DEF SizeInv, PopVictim
<1>2. IsFiniteSet(S) /\ IsFiniteSet(Pooled)
  BY FS_Subset DEF SizeInv
<1>3. /\ IsFiniteSet(Pooled') /\ Cardinality(Pooled') = Cardinality(Pooled) - 1
      /\ Cardinality(victims') = Cardinality(S) - 1
      /\ Cardinality(Pooled) \in Nat /\ Cardinality(S) \in Nat
  BY <1>1, <1>2, FS_RemoveElement, FS_CardinalityType
<1>4. Cardinality(Pooled') - Cardinality(victims') = Cardinality(Pooled) - Cardinality(S)
  BY <1>3
<1>5. ASSUME cancels = 0 PROVE PoolBounded'
  <2>1. MaxEntries \in Nat /\ Cardinality(Fetchers) \in Nat
    BY FS_CardinalityType, BrowserPoolAssumption
  <2> QED BY <1>3, <1>5, <2>1 DEF SizeInv, PoolBounded
<1> QED BY <1>1, <1>3, <1>4, <1>5 DEF SizeInv

LEMMA SizeInit == Init => SizeInv
<1> SUFFICES ASSUME Init PROVE SizeInv
  OBVIOUS
<1>1. Pooled = {}
  BY DEF Init, Pooled
<1> QED BY <1>1, FS_EmptySet, BrowserPoolAssumption DEF Init, SizeInv, OneLane, PoolBounded

LEMMA SizeStep == SizeInv /\ CountInv /\ LockInv /\ [Next]_vars => SizeInv'
<1> SUFFICES ASSUME SizeInv, CountInv, LockInv, [Next]_vars PROVE SizeInv'
  OBVIOUS
<1>0. Placed
  BY DEF LockInv
<1>1. CASE UNCHANGED <<pool, poolLock, victims, cancels>>
  <2>1. Pooled' = Pooled
    BY <1>1 DEF Pooled
  <2> QED BY <1>1, <2>1 DEF SizeInv, OneLane, PoolBounded
<1>2. ASSUME NEW f \in Fetchers, EnterPool(f) PROVE SizeInv'
  <2>1. /\ poolLock = None /\ cancels' = cancels /\ want[f] \in Keys /\ Uncounted(f)
        /\ victims = {}
    BY <1>0, <1>2 DEF EnterPool, Placed, PlacedAt, Uncounted, SizeInv
  <2>2. CASE /\ pool[want[f]] # None /\ GetOrCreate(f, want[f])
             /\ UNCHANGED <<poolLock, victims>>
    BY <1>0, <2>1, <2>2, CreationKeepsSize
  <2>3. ASSUME NEW S \in Selections, S = {}, GetOrCreate(f, want[f]), UNCHANGED <<poolLock, victims>>
        PROVE  SizeInv'
    <3>1. Cardinality(Pooled) \in Nat /\ Cardinality(S) = 0
      BY <2>3, FS_CardinalityType, FS_EmptySet DEF SizeInv
    <3>2. cancels = 0 => Room(Cardinality(Pooled))
      BY <1>0, <2>1, <3>1, SelectionMakesRoom DEF SizeInv, Room
    <3> QED BY <1>0, <2>1, <2>3, <3>2, CreationKeepsSize
  <2>4. ASSUME NEW S \in Selections, NEW v \in S, PopVictim(f, v, S \ {v}), poolLock' = f
        PROVE  SizeInv'
    <3>1. S \in SUBSET Pooled /\ (cancels = 0 => Room(Cardinality(Pooled) - Cardinality(S)))
      BY <1>0, <2>1, SelectionMakesRoom DEF SizeInv
    <3> QED BY <1>0, <2>1, <2>4, <3>1, PopKeepsSize, BrowserPoolAssumption
  <2> QED BY <1>2, <2>2, <2>3, <2>4 DEF EnterPool
<1>3. ASSUME NEW f \in Fetchers, EvictNext(f) PROVE SizeInv'
  <2>1. poolLock = f /\ poolLock # None /\ cancels' = cancels /\ want[f] \in Keys
    BY <1>0, <1>3, BrowserPoolAssumption DEF EvictNext, LockInv, PoolLock, Placed, PlacedAt, EvictPoints
  <2>2. ASSUME NEW v \in victims, PopVictim(f, v, victims \ {v}), UNCHANGED poolLock
        PROVE  SizeInv'
    BY <1>0, <2>1, <2>2, PopKeepsSize DEF SizeInv
  <2>3. CASE victims = {} /\ GetOrCreate(f, want[f]) /\ poolLock' = None /\ UNCHANGED victims
    <3>1. Cardinality(Pooled) \in Nat /\ Cardinality(victims) = 0
      BY <2>3, FS_CardinalityType, FS_EmptySet DEF SizeInv
    <3>2. cancels = 0 => Room(Cardinality(Pooled))
      BY <2>1, <3>1 DEF SizeInv, Room
    <3> QED BY <1>0, <2>1, <2>3, <3>2, CreationKeepsSize
  <2> QED BY <1>3, <2>2, <2>3 DEF EvictNext
<1>4. ASSUME NEW f \in Fetchers, Cancel(f) PROVE SizeInv'
  <2>1. /\ UNCHANGED pool /\ cancels' # 0 /\ Pooled' = Pooled
        /\ \/ UNCHANGED <<poolLock, victims>>
           \/ poolLock' = None /\ victims' = {}
    BY <1>4 DEF Cancel, CountInv, CountTypes, Pooled
  <2> QED BY <2>1 DEF SizeInv, OneLane
<1>5. ASSUME NEW f \in Fetchers,
             \/ \E k \in Keys : Get(f, k)
             \/ EvictLock(f) \/ EnsureLock(f) \/ DisconnectLock(f) \/ Acquire(f)
      PROVE  SizeInv'
  BY <1>1, <1>5 DEF Get, EvictLock, EnsureLock, DisconnectLock, Acquire, poolVars
<1>6. ASSUME NEW f \in Fetchers,
             \/ EvictClosed(f) \/ Recycled(f) \/ Launched(f) \/ LaunchFails(f)
             \/ OpenContext(f) \/ Opened(f) \/ OpenFails(f) \/ DisconnectClosed(f)
             \/ UseEnds(f) \/ Persisted(f) \/ ContextClosed(f) \/ Disconnects(f)
      PROVE  SizeInv'
  BY <1>1, <1>6 DEF EvictClosed, Recycled, Launched, LaunchFails, OpenContext, Opened, OpenFails,
     DisconnectClosed, UseEnds, Persisted, ContextClosed, Disconnects, poolVars
<1>7. ASSUME NEW i \in Runtimes, BrowserDies(i) \/ Expire(i) PROVE SizeInv'
  BY <1>1, <1>7 DEF BrowserDies, Expire, poolVars
<1>8. CASE UNCHANGED vars
  BY <1>1, <1>8 DEF vars, poolVars
<1> QED BY <1>2, <1>3, <1>4, <1>5, <1>6, <1>7, <1>8 DEF Next, Take, Proceed

(* browser_runtime.py: the pool outgrows browser_runtime_pool_max_entries only
   by runtimes that fetches keep busy: an eviction that goes on over several
   closes still makes room for the new entry, and nobody fills it meanwhile. *)
THEOREM PoolStaysBounded == Spec => []PoolBounded
<1>1. SizeInv => PoolBounded
  BY DEF SizeInv, PoolBounded
<1> QED BY LockInit, LockStep, CountInit, CountStep, SizeInit, SizeStep, <1>1, PTL DEF Spec
=============================================================================
