----------------------------- MODULE HostPacing -----------------------------
(***************************************************************************)
(* rate_limiter: the table of the time from which each host may be asked   *)
(* again, shared by all fetches of the backend, and bounded in size.  A    *)
(* fetch takes the next slot of its host and sleeps until it comes; what   *)
(* it meets may push the host's slots back.                                *)
(***************************************************************************)
EXTENDS Integers, FiniteSets

CONSTANTS
  Hosts, Fetches, NoHost,
  Interval,     \* acquire_host_min_interval_ms
  Protected,    \* the interval after a block: _host_interval_ms(protected=True)
  Ttl,          \* pacing_host_cache_ttl_seconds
  Limit,        \* pacing_host_cache_max_entries
  MaxTime       \* bound on the clock

ASSUME PacingAssumption ==
  /\ {Interval, Protected, Ttl, MaxTime} \subseteq Nat
  /\ Limit \in Nat \ {0}
  /\ Protected >= Interval
  /\ NoHost \notin Hosts

VARIABLES
  now,
  allowed,      \* _HOST_NEXT_ALLOWED_AT, Unknown for a host without an entry
  fetch,        \* a fetch: the host it waits for or asks, and when it may ask
  since,        \* observer: the ends of the host's last slot and of its last backoff
  early         \* observer: hosts whose entry was dropped before its time came

pacingVars == <<now, allowed, fetch, since, early>>

Unknown == -1
Later(a, b) == IF a >= b THEN a ELSE b
Idle == [step |-> "idle", host |-> NoHost, due |-> 0]

-----------------------------------------------------------------------------
(* _prune_expired_hosts *)
Pruned(table) == [h \in Hosts |-> IF now > table[h] + Ttl THEN Unknown ELSE table[h]]

Known(table) == {h \in Hosts : table[h] # Unknown}

(* _trim_host_cache: the entry whose time comes first goes, at most one at a time. *)
Trimmed(table) ==
  IF Cardinality(Known(table)) <= Limit THEN {table}
  ELSE {[g \in Hosts |-> IF g = d THEN Unknown ELSE table[g]] :
          d \in {k \in Known(table) : \A j \in Known(table) : table[k] <= table[j]}}

(* The host's time, from which the table lets it be asked. *)
NextAllowed(table, h) == IF table[h] = Unknown THEN now ELSE table[h]

Store(table) ==
  /\ allowed' \in Trimmed(table)
  /\ early' = early \cup {h \in Hosts : table[h] > now /\ allowed'[h] = Unknown}

-----------------------------------------------------------------------------
(* Faulty variant: a slot that is already taken does not count. *)
Slot_FromNow(table, h) == now

Slot(table, h) == Later(now, NextAllowed(table, h))

(* wait_for_host_slot, up to its sleep. *)
TakeSlot(f) ==
  /\ fetch[f].step = "idle"
  /\ \E h \in Hosts :
       LET table == Pruned(allowed)
           due   == Slot(table, h) IN
       /\ fetch' = [fetch EXCEPT ![f] = [step |-> "waiting", host |-> h, due |-> due]]
       /\ Store([table EXCEPT ![h] = due + Interval])
       /\ since' = [since EXCEPT ![h].slot = due + Interval]
  /\ UNCHANGED now

(* The sleep ends; the fetch asks its host. *)
Ask(f) ==
  /\ fetch[f].step = "waiting" /\ now >= fetch[f].due
  /\ fetch' = [fetch EXCEPT ![f].step = "asking", ![f].due = 0]
  /\ UNCHANGED <<now, allowed, since, early>>

Answered(f) ==
  /\ fetch[f].step = "asking"
  /\ fetch' = [fetch EXCEPT ![f] = Idle]
  /\ UNCHANGED <<now, allowed, since, early>>

(* Faulty variant: only the slot already taken counts. *)
Backoff_None(table, h) == NextAllowed(table, h)

Backoff(table, h) == Later(NextAllowed(table, h), now + Protected)

(* The host blocks: apply_protected_host_backoff. *)
Blocked(f) ==
  /\ fetch[f].step = "asking"
  /\ LET h     == fetch[f].host
         table == Pruned(allowed) IN
     /\ Store([table EXCEPT ![h] = Backoff(table, h)])
     /\ since' = [since EXCEPT ![h].block = now + Protected]
     /\ fetch' = [fetch EXCEPT ![f] = Idle]
  /\ UNCHANGED now

(* reset_pacing_state: the table is emptied, as when it drops an entry early. *)
Reset ==
  /\ allowed' = [h \in Hosts |-> Unknown]
  /\ early' = early \cup {h \in Hosts : allowed[h] > now}
  /\ UNCHANGED <<now, fetch, since>>

Tick ==
  /\ now < MaxTime
  /\ now' = now + 1
  /\ UNCHANGED <<allowed, fetch, since, early>>

PacingInit ==
  /\ now = 0
  /\ allowed = [h \in Hosts |-> Unknown]
  /\ fetch = [f \in Fetches |-> Idle]
  /\ since = [h \in Hosts |-> [slot |-> 0, block |-> 0]]
  /\ early = {}

PacingNext ==
  \/ \E f \in Fetches : TakeSlot(f) \/ Ask(f) \/ Answered(f) \/ Blocked(f)
  \/ Reset \/ Tick

PacingSpec == PacingInit /\ [][PacingNext]_pacingVars

-----------------------------------------------------------------------------
(* Properties *)

(* The table has an entry per known host, at most Limit of them. *)
PacingTypeOK ==
  /\ now \in 0..MaxTime
  /\ allowed \in [Hosts -> Nat \cup {Unknown}]
  /\ Cardinality(Known(allowed)) <= Limit
  /\ fetch \in [Fetches -> [step: {"idle", "waiting", "asking"}, host: Hosts \cup {NoHost}, due: Nat]]
  /\ since \in [Hosts -> [slot: Nat, block: Nat]]
  /\ early \subseteq Hosts

Takes(f) == fetch[f].step = "idle" /\ fetch'[f].step = "waiting"

(* Slots of a host are an interval apart, whatever fetches take them in which
   order and however entries expire, unless the full table dropped the host's
   entry while its time had not come (wait_for_host_slot, _trim_host_cache). *)
SlotsApart ==
  [][\A f \in Fetches : Takes(f) /\ fetch'[f].host \notin early
       => fetch'[f].due >= since[fetch'[f].host].slot]_pacingVars

(* After a block no slot of the host is given out that begins before the
   protected interval is over, with the same exception.  Fetches that took a slot
   before the block still go at their time (apply_protected_host_backoff). *)
BlockHoldsBack ==
  [][\A f \in Fetches : Takes(f) /\ fetch'[f].host \notin early
       => fetch'[f].due >= since[fetch'[f].host].block]_pacingVars

=============================================================================
