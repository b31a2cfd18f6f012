----------------------------- MODULE Page_proofs -----------------------------
(***************************************************************************)
(* Theorems about what is taken from a page in the browser.  The capture   *)
(* of its responses keeps count of them, stays within its budget and loses *)
(* none in an orderly close, for any workers, responses, lengths and       *)
(* limits; the traversal of a listing keeps what it counts and adds no     *)
(* page twice, and a target it has reached comes through to the HTML.      *)
(***************************************************************************)
EXTENDS BrowserCapture, Traversal, FiniteSetTheorems, SequenceTheorems, TLAPS

-----------------------------------------------------------------------------
(* The capture of a page's responses: the queue's count and the budget. *)

States == {"absent", "idle", "reading", "done"}

(* What both claims rest on: a worker reads only responses; the queue holds
   responses and sentinels; no worker reads before the capture is attached. *)
CrewInv ==
  /\ queue \in Seq(Responses \cup {STOP}) /\ unfinished \in Int
  /\ worker \in [Workers -> States]
  /\ holds \in [Workers -> Responses \cup {Nothing}]
  /\ \A w \in Reading : holds[w] \in Responses
  /\ closer = "none" => worker = [w \in Workers |-> "absent"]

TallyInv == CrewInv /\ UnfinishedTallies

(* Moving one worker changes the number of those that read by at most one. *)
LEMMA ReadingCounts ==
  ASSUME worker \in [Workers -> States]
  PROVE  IsFiniteSet(Reading) /\ Cardinality(Reading) \in Nat
<1>1. IsFiniteSet(Workers) /\ Reading \subseteq Workers
  BY CaptureAssumption DEF Reading
<1> QED BY <1>1, FS_Subset, FS_CardinalityType

LEMMA WorkerMoves ==
  ASSUME worker \in [Workers -> States], NEW w \in Workers, NEW s \in States,
         worker' = [worker EXCEPT ![w] = s]
  PROVE  /\ worker' \in [Workers -> States]
         /\ Reading' = IF s = "reading" THEN Reading \cup {w} ELSE Reading \ {w}
         /\ s = "reading" /\ worker[w] # "reading" => Cardinality(Reading') = Cardinality(Reading) + 1
         /\ s # "reading" /\ worker[w] = "reading" => Cardinality(Reading') = Cardinality(Reading) - 1
         /\ (s = "reading") = (worker[w] = "reading") => Cardinality(Reading') = Cardinality(Reading)
<1>1. worker' \in [Workers -> States]
  OBVIOUS
<1>2. Reading' = IF s = "reading" THEN Reading \cup {w} ELSE Reading \ {w}
  BY DEF Reading
<1>3. (w \in Reading) = (worker[w] = "reading")
  BY DEF Reading
<1>4. IsFiniteSet(Reading) /\ Cardinality(Reading) \in Nat
  BY ReadingCounts
<1>5. CASE s = "reading" /\ worker[w] # "reading"
  <2>1. Reading' = Reading \cup {w} /\ w \notin Reading
    BY <1>2, <1>3, <1>5
  <2>2. Cardinality(Reading') = Cardinality(Reading) + 1
    BY <1>4, <2>1, FS_AddElement
  <2> QED BY <1>1, <1>2, <1>5, <2>2
<1>6. CASE s # "reading" /\ worker[w] = "reading"
  <2>1. Reading' = Reading \ {w} /\ w \in Reading
    BY <1>2, <1>3, <1>6
  <2>2. Cardinality(Reading') = Cardinality(Reading) - 1
    BY <1>4, <2>1, FS_RemoveElement
  <2> QED BY <1>1, <1>2, <1>6, <2>2
<1>7. CASE (s = "reading") = (worker[w] = "reading")
  <2>1. Reading' = Reading
    BY <1>2, <1>3, <1>7
  <2> QED BY <1>1, <1>2, <1>7, <2>1
<1> QED BY <1>5, <1>6, <1>7

LEMMA TallyInit == Init => TallyInv
<1> SUFFICES ASSUME Init PROVE TallyInv
  OBVIOUS
<1>1. Reading = {}
  BY DEF Init, Reading
<1>2. queue = <<>> /\ Len(queue) = 0 /\ unfinished = 0 /\ Cardinality(Reading) = 0
  BY <1>1, FS_EmptySet DEF Init
<1>3. CrewInv
  BY <1>1, <1>2 DEF Init, CrewInv, States
<1> QED BY <1>2, <1>3 DEF TallyInv, UnfinishedTallies

(* Steps of the listener and of close that leave the workers alone. *)
LEMMA SameCrew ==
  ASSUME CrewInv, UNCHANGED <<worker, holds>>, closer' = "none" => closer = "none",
         queue' \in Seq(Responses \cup {STOP}), unfinished' \in Int
  PROVE  CrewInv' /\ Reading' = Reading
<1>1. Reading' = Reading
  BY DEF Reading
<1> QED BY <1>1 DEF CrewInv

LEMMA QueueLength ==
  ASSUME CrewInv
  PROVE  /\ Len(queue) \in Nat
         /\ \A x \in Responses \cup {STOP} :
              Append(queue, x) \in Seq(Responses \cup {STOP}) /\ Len(Append(queue, x)) = Len(queue) + 1
         /\ queue # <<>> => /\ Head(queue) \in Responses \cup {STOP}
                           /\ Tail(queue) \in Seq(Responses \cup {STOP})
                           /\ Len(Tail(queue)) = Len(queue) - 1
  BY DEF CrewInv

(* A worker takes an item: it is still counted if it is read, and not if it is
   refused or a sentinel. *)
LEMMA GetTallies ==
  ASSUME TallyInv, NEW w \in Workers, Get(w)
  PROVE  TallyInv'
<1> DEFINE r == Head(queue)
<1>1. /\ CrewInv /\ Cardinality(Reading) \in Nat /\ Len(queue) \in Nat
      /\ unfinished = Len(queue) + Cardinality(Reading)
  BY ReadingCounts, QueueLength DEF TallyInv, UnfinishedTallies, CrewInv
<1>2. /\ queue' = Tail(queue) /\ r \in Responses \cup {STOP}
      /\ queue' \in Seq(Responses \cup {STOP}) /\ Len(queue') = Len(queue) - 1
  BY <1>1, QueueLength DEF Get
<1>3. worker[w] = "idle" /\ closer' = closer
  BY DEF Get, ending
<1>4. closer # "none"
  BY <1>1, <1>3 DEF CrewInv
<1> HIDE DEF r
<1>5. CASE worker' = [worker EXCEPT ![w] = "done"] /\ unfinished' = unfinished - 1 /\ holds' = holds
  <2>1. Cardinality(Reading') = Cardinality(Reading) /\ Reading' = Reading \ {w}
        /\ worker' \in [Workers -> States]
    BY <1>1, <1>3, <1>5, WorkerMoves DEF CrewInv, States
  <2>2. CrewInv'
    BY <1>1, <1>2, <1>3, <1>4, <1>5, <2>1 DEF CrewInv
  <2>3. unfinished' = Len(queue') + Cardinality(Reading')
    BY <1>1, <1>2, <1>5, <2>1
  <2> QED BY <2>2, <2>3 DEF TallyInv, UnfinishedTallies
<1>6. CASE /\ r # STOP /\ worker' = [worker EXCEPT ![w] = "reading"]
           /\ holds' = [holds EXCEPT ![w] = r] /\ unfinished' = unfinished
  <2>1. Cardinality(Reading') = Cardinality(Reading) + 1 /\ Reading' = Reading \cup {w}
        /\ worker' \in [Workers -> States]
    BY <1>1, <1>3, <1>6, WorkerMoves DEF CrewInv, States
  <2>3. holds' \in [Workers -> Responses \cup {Nothing}]
        /\ \A v \in Reading' : holds'[v] \in Responses
    BY <1>1, <1>2, <1>6, <2>1 DEF CrewInv
  <2>4. CrewInv'
    BY <1>1, <1>2, <1>3, <1>4, <1>6, <2>1, <2>3 DEF CrewInv
  <2>5. unfinished' = Len(queue') + Cardinality(Reading')
    BY <1>1, <1>2, <1>6, <2>1
  <2> QED BY <2>4, <2>5 DEF TallyInv, UnfinishedTallies
<1>7. CASE UNCHANGED <<worker, holds>> /\ unfinished' = unfinished - 1
  <2>1. CrewInv' /\ Reading' = Reading
    BY <1>1, <1>2, <1>3, <1>7, SameCrew
  <2> QED BY <1>1, <1>2, <1>7, <2>1 DEF TallyInv, UnfinishedTallies
<1> QED BY <1>5, <1>6, <1>7 DEF Get, r

(* A worker that is through, or told to stop, is counted down with its response. *)
LEMMA LeavesTallies ==
  ASSUME TallyInv, NEW w \in Workers, NEW s \in {"idle", "done"}, worker[w] \in {"idle", "reading"},
         worker' = [worker EXCEPT ![w] = s], holds' = [holds EXCEPT ![w] = Nothing],
         unfinished' = IF worker[w] = "reading" THEN unfinished - 1 ELSE unfinished,
         UNCHANGED <<queue, closer>>
  PROVE  TallyInv'
<1>1. /\ CrewInv /\ Cardinality(Reading) \in Nat /\ Len(queue) \in Nat
      /\ unfinished = Len(queue) + Cardinality(Reading)
  BY ReadingCounts, QueueLength DEF TallyInv, UnfinishedTallies, CrewInv
<1>2. closer # "none"
  BY <1>1 DEF CrewInv
<1>3. /\ worker' \in [Workers -> States] /\ Reading' = Reading \ {w}
      /\ worker[w] = "reading" => Cardinality(Reading') = Cardinality(Reading) - 1
      /\ worker[w] # "reading" => Cardinality(Reading') = Cardinality(Reading)
  BY <1>1, WorkerMoves DEF CrewInv, States
<1>4. CrewInv'
  BY <1>1, <1>2, <1>3 DEF CrewInv
<1>5. unfinished' = Len(queue') + Cardinality(Reading')
  BY <1>1, <1>3
<1> QED BY <1>4, <1>5 DEF TallyInv, UnfinishedTallies

(* Steps of the listener and of close: what enters or leaves the queue is counted. *)
LEMMA QueueTallies ==
  ASSUME TallyInv, UNCHANGED <<worker, holds>>, closer' = "none" => closer = "none",
         queue' \in Seq(Responses \cup {STOP}),
         unfinished' = unfinished + Len(queue') - Len(queue)
  PROVE  TallyInv'
<1>1. /\ CrewInv /\ Cardinality(Reading) \in Nat /\ Len(queue) \in Nat /\ Len(queue') \in Nat
      /\ unfinished = Len(queue) + Cardinality(Reading)
  BY ReadingCounts, QueueLength DEF TallyInv, UnfinishedTallies, CrewInv
<1>2. CrewInv' /\ Reading' = Reading
  BY <1>1, SameCrew
<1> QED BY <1>1, <1>2 DEF TallyInv, UnfinishedTallies

LEMMA TallyStep == TallyInv /\ [Next]_vars => TallyInv'
<1> SUFFICES ASSUME TallyInv, [Next]_vars PROVE TallyInv'
  OBVIOUS
<1>1. /\ CrewInv /\ Len(queue) \in Nat /\ queue \in Seq(Responses \cup {STOP})
      /\ unfinished = Len(queue) + Cardinality(Reading)
  BY QueueLength DEF TallyInv, UnfinishedTallies, CrewInv
<1>2. CASE UNCHANGED <<queue, unfinished, worker, holds>> /\ (closer' = "none" => closer = "none")
  BY <1>1, <1>2, QueueTallies DEF CrewInv
<1>3. CASE Attach
  <2>1. closer = "none" /\ worker' = [w \in Workers |-> "idle"] /\ closer' = "open"
        /\ UNCHANGED <<queue, unfinished, holds>>
    BY <1>3 DEF Attach
  <2>2. Reading = {} /\ Reading' = {}
    BY <1>1, <2>1 DEF CrewInv, Reading
  <2>3. CrewInv'
    BY <1>1, <2>1, <2>2 DEF CrewInv, States
  <2> QED BY <1>1, <2>1, <2>2, <2>3 DEF TallyInv, UnfinishedTallies
<1>4. ASSUME NEW r \in Responses, Respond(r) PROVE TallyInv'
  <2>1. UNCHANGED <<worker, holds, closer>>
    BY <1>4 DEF Respond, crew, ending
  <2>2. CASE queue' = Append(queue, r) /\ unfinished' = unfinished + 1
    BY <1>1, <2>1, <2>2, QueueLength, QueueTallies DEF CrewInv
  <2> QED BY <1>2, <1>4, <2>1, <2>2 DEF Respond
<1>5. ASSUME NEW w \in Workers, Work(w) PROVE TallyInv'
  <2>1. CASE Get(w)
    BY <2>1, GetTallies
  <2>2. ASSUME NEW f, Through(w, f) PROVE TallyInv'
    BY <2>2, LeavesTallies DEF Through, ending
  <2>3. CASE Unwind(w)
    BY <2>3, LeavesTallies DEF Unwind, ending
  <2> QED BY <1>5, <2>1, <2>2, <2>3 DEF Work, Unread, Keep, Break
<1>6. CASE PutStop
  <2>1. UNCHANGED <<worker, holds>> /\ closer' # "none" /\ queue' = Append(queue, STOP)
        /\ unfinished' = unfinished + 1
    BY <1>6 DEF PutStop, crew, WithStop
  <2> QED BY <1>1, <2>1, QueueLength, QueueTallies DEF CrewInv
<1>7. CASE JoinTimesOut
  <2>1. UNCHANGED <<worker, holds>> /\ closer' # "none" /\ queue' = <<>>
        /\ unfinished' = unfinished - Len(queue)
    BY <1>7 DEF JoinTimesOut, DrainedCount
  <2>2. queue' \in Seq(Responses \cup {STOP}) /\ Len(queue') = 0
    BY <2>1
  <2> QED BY <1>1, <2>1, <2>2, ReadingCounts, QueueTallies DEF CrewInv
<1>8. CASE Close \/ Join \/ Joined \/ Shut \/ PutTimesOut \/ SumUp \/ Unwound \/ CancelClose
  BY <1>2, <1>8 DEF Close, Join, Joined, Shut, PutTimesOut, SumUp, Unwound, CancelClose, crew, CutShort
<1>9. CASE UNCHANGED vars
  BY <1>2, <1>9 DEF vars, crew, ending
<1> QED BY <1>3, <1>4, <1>5, <1>6, <1>7, <1>8, <1>9 DEF Next, CloseStep

(* _capture_worker, close: whatever is cancelled, drained or fails to decode, the
   queue's count is what waits in it and what is read, so a join is never left
   waiting for nothing and task_done is never called too often. *)
THEOREM CountTallies == Spec => []UnfinishedTallies
<1>1. TallyInv => UnfinishedTallies
  BY DEF TallyInv
<1> QED BY TallyInit, TallyStep, <1>1, PTL DEF Spec

-----------------------------------------------------------------------------
(* A response being read has its place reserved until it is stored or let go; a
   worker that is cancelled, or whose decoder fails, never gives its place back. *)
Fates == {"unseen", "ignored", "dropped", "queued", "reading", "refused", "closed", "too large",
          "timed out", "read error", "malformed", "stored", "oversized", "broken", "abandoned",
          "drained"}

BudgetInv ==
  /\ fate \in [Responses -> Fates]
  /\ pending \in Nat /\ reserved \in Nat /\ captured \in Nat
  /\ Cardinality(Reading) <= pending
  /\ Cardinality(Stored) + pending <= MaxPayloads
  /\ captured <= MaxBytes

LEMMA StoredCounts == IsFiniteSet(Stored) /\ Cardinality(Stored) \in Nat
<1>1. IsFiniteSet(Responses) /\ Stored \subseteq Responses
  BY CaptureAssumption DEF Stored, Having
<1> QED BY <1>1, FS_Subset, FS_CardinalityType

LEMMA FewerStored ==
  ASSUME Stored' \subseteq Stored
  PROVE  Cardinality(Stored') \in Nat /\ Cardinality(Stored') <= Cardinality(Stored)
BY StoredCounts, FS_Subset, FS_CardinalityType

LEMMA BudgetInit == Init => BudgetInv
<1> SUFFICES ASSUME Init PROVE BudgetInv
  OBVIOUS
<1>1. Reading = {} /\ Stored = {}
  BY DEF Init, Reading, Stored, Having
<1>2. Cardinality(Reading) = 0 /\ Cardinality(Stored) = 0
  BY <1>1, FS_EmptySet
<1>3. fate \in [Responses -> Fates] /\ pending = 0 /\ reserved = 0 /\ captured = 0
  BY DEF Init, Fates
<1> QED BY <1>2, <1>3, CaptureAssumption DEF BudgetInv

(* Steps that reserve and store nothing. *)
LEMMA NothingNew ==
  ASSUME BudgetInv, UNCHANGED <<pending, reserved, captured>>, fate' \in [Responses -> Fates],
         Cardinality(Reading') <= Cardinality(Reading), Cardinality(Reading') \in Int,
         Cardinality(Reading) \in Nat, Stored' \subseteq Stored
  PROVE  BudgetInv'
<1>1. Cardinality(Stored') \in Nat /\ Cardinality(Stored') <= Cardinality(Stored)
      /\ Cardinality(Stored) \in Nat
  BY FewerStored, StoredCounts
<1>2. MaxPayloads \in Nat /\ MaxBytes \in Nat
  BY CaptureAssumption
<1> QED BY <1>1, <1>2 DEF BudgetInv

LEMMA GetWithin ==
  ASSUME CrewInv, BudgetInv, NEW w \in Workers, Get(w)
  PROVE  BudgetInv'
<1> DEFINE r == Head(queue)
<1>1. Cardinality(Reading) \in Nat /\ Cardinality(Stored) \in Nat /\ MaxPayloads \in Nat
  BY ReadingCounts, StoredCounts, CaptureAssumption DEF CrewInv
<1>2. r \in Responses \cup {STOP} /\ worker[w] = "idle"
  BY QueueLength DEF Get
<1> HIDE DEF r
<1>3. CASE /\ r # STOP /\ Admits(r) /\ worker' = [worker EXCEPT ![w] = "reading"]
           /\ fate' = [fate EXCEPT ![r] = "reading"] /\ captured' = captured
           /\ pending' = pending + 1 /\ reserved' = reserved + Declared[r]
  <2>1. Cardinality(Reading') = Cardinality(Reading) + 1
    BY <1>2, <1>3, WorkerMoves DEF CrewInv, States
  <2>2. fate' \in [Responses -> Fates] /\ Stored' \subseteq Stored
    BY <1>2, <1>3 DEF BudgetInv, Fates, Stored, Having
  <2>3. Declared[r] \in Nat
    BY <1>2, <1>3, CaptureAssumption
  <2>4. Cardinality(Stored) + pending < MaxPayloads
    BY <1>3 DEF Admits, Room
  <2> QED BY <1>1, <1>3, <2>1, <2>2, <2>3, <2>4, FewerStored DEF BudgetInv
<1>4. CASE worker' = [worker EXCEPT ![w] = "done"] /\ UNCHANGED <<fate, budget>>
  <2>1. Cardinality(Reading') = Cardinality(Reading)
    BY <1>2, <1>4, WorkerMoves DEF CrewInv, States
  <2> QED BY <1>1, <1>4, <2>1, NothingNew DEF BudgetInv, Stored, Having, budget
<1>5. CASE r # STOP /\ fate' = [fate EXCEPT ![r] = "refused"] /\ UNCHANGED <<worker, budget>>
  <2>1. Reading' = Reading
    BY <1>5 DEF Reading
  <2>2. fate' \in [Responses -> Fates] /\ Stored' \subseteq Stored
    BY <1>2, <1>5 DEF BudgetInv, Fates, Stored, Having
  <2> QED BY <1>1, <1>5, <2>1, <2>2, NothingNew DEF budget
<1> QED BY <1>3, <1>4, <1>5 DEF Get, r, budget

(* A worker that is through: its place is free before another is stored. *)
LEMMA ThroughWithin ==
  ASSUME CrewInv, BudgetInv, NEW w \in Workers, NEW f \in Fates, Through(w, f),
         reserved' \in Nat, pending' \in {pending, Minus(pending, 1)},
         \/ f # "stored" /\ captured' = captured
         \/ pending' = Minus(pending, 1) /\ captured' \in Nat /\ captured' <= MaxBytes
  PROVE  BudgetInv'
<1>1. /\ Cardinality(Reading) \in Nat /\ Cardinality(Stored) \in Nat
      /\ MaxPayloads \in Nat /\ MaxBytes \in Nat
  BY ReadingCounts, StoredCounts, CaptureAssumption DEF CrewInv
<1>2. worker[w] = "reading" /\ holds[w] \in Responses
  BY DEF Through, CrewInv, Reading
<1>3. Cardinality(Reading') = Cardinality(Reading) - 1 /\ Cardinality(Reading) > 0
  <2>1. Cardinality(Reading') = Cardinality(Reading) - 1
    BY <1>2, WorkerMoves DEF Through, CrewInv, States
  <2>2. Reading # {} /\ IsFiniteSet(Reading)
    BY <1>2, ReadingCounts DEF Reading, CrewInv
  <2> QED BY <1>1, <2>1, <2>2, FS_EmptySet
<1>4. pending \in Nat /\ pending > 0 /\ Minus(pending, 1) = pending - 1
  BY <1>1, <1>3 DEF BudgetInv, Minus
<1>5. fate' = [fate EXCEPT ![holds[w]] = f] /\ fate' \in [Responses -> Fates]
  BY <1>2 DEF Through, BudgetInv
<1>6. Stored' \subseteq Stored \cup {holds[w]} /\ (f # "stored" => Stored' \subseteq Stored)
  BY <1>2, <1>5 DEF Stored, Having, BudgetInv
<1>7. Cardinality(Stored') \in Nat /\ Cardinality(Stored') <= Cardinality(Stored) + 1
      /\ (f # "stored" => Cardinality(Stored') <= Cardinality(Stored))
  <2>1. /\ IsFiniteSet(Stored \cup {holds[w]})
        /\ Cardinality(Stored \cup {holds[w]}) \in Nat
        /\ Cardinality(Stored \cup {holds[w]}) <= Cardinality(Stored) + 1
    BY <1>1, StoredCounts, FS_AddElement, FS_CardinalityType
  <2>2. /\ IsFiniteSet(Stored') /\ Cardinality(Stored') <= Cardinality(Stored \cup {holds[w]})
    BY <1>6, <2>1, FS_Subset
  <2>3. Cardinality(Stored') \in Nat
    BY <2>2, FS_CardinalityType
  <2> QED BY <1>1, <1>6, <2>1, <2>2, <2>3, FewerStored
<1>8. pending' \in Nat /\ Cardinality(Reading') <= pending'
  BY <1>1, <1>3, <1>4 DEF BudgetInv
<1>9. Cardinality(Stored') + pending' <= MaxPayloads
  BY <1>1, <1>4, <1>7 DEF BudgetInv
<1>10. captured' \in Nat /\ captured' <= MaxBytes
  BY DEF BudgetInv
<1> QED BY <1>5, <1>8, <1>9, <1>10 DEF BudgetInv

LEMMA UnwindWithin ==
  ASSUME CrewInv, BudgetInv, NEW w \in Workers, Unwind(w)
  PROVE  BudgetInv'
<1>1. Cardinality(Reading) \in Nat
  BY ReadingCounts DEF CrewInv
<1>2. worker[w] \in {"idle", "reading"} /\ worker' = [worker EXCEPT ![w] = "done"]
  BY DEF Unwind
<1>3. Cardinality(Reading') \in Int /\ Cardinality(Reading') <= Cardinality(Reading)
  <2>1. /\ worker[w] = "reading" => Cardinality(Reading') = Cardinality(Reading) - 1
        /\ worker[w] # "reading" => Cardinality(Reading') = Cardinality(Reading)
    BY <1>2, WorkerMoves DEF CrewInv, States
  <2> QED BY <1>1, <2>1
<1>4. CASE worker[w] = "reading"
  <2>1. holds[w] \in Responses /\ fate' = [fate EXCEPT ![holds[w]] = "abandoned"]
    BY <1>4 DEF Unwind, CrewInv, Reading
  <2>2. fate' \in [Responses -> Fates] /\ Stored' \subseteq Stored
    BY <2>1 DEF BudgetInv, Fates, Stored, Having
  <2> QED BY <1>1, <1>3, <2>2, NothingNew DEF Unwind, budget
<1>5. CASE worker[w] # "reading"
  <2>1. fate' = fate
    BY <1>5 DEF Unwind
  <2> QED BY <1>1, <1>3, <2>1, NothingNew DEF Unwind, budget, BudgetInv, Stored, Having
<1> QED BY <1>4, <1>5

LEMMA ReleaseFrees ==
  ASSUME BudgetInv, NEW r \in Responses, Release(r)
  PROVE  pending' = Minus(pending, 1) /\ reserved' \in Nat
<1>1. Declared[r] \in Nat /\ pending' = Minus(pending, 1) /\ reserved' = Minus(reserved, Declared[r])
  BY CaptureAssumption DEF Release
<1> QED BY <1>1 DEF Minus, BudgetInv

LEMMA KeepWithin ==
  ASSUME CrewInv, BudgetInv, NEW w \in Workers, Keep(w)
  PROVE  BudgetInv'
<1> DEFINE r == holds[w]
<1>1. r \in Responses
  BY DEF Keep, CrewInv, Reading
<1>2. pending' = Minus(pending, 1) /\ reserved' \in Nat
  BY <1>1, ReleaseFrees DEF Keep
<1>3. CASE Fits(r) /\ Through(w, "stored") /\ captured' = captured + Actual[r]
  <2>1. captured' \in Nat /\ captured' <= MaxBytes
    BY <1>1, <1>3, CaptureAssumption DEF Fits, BudgetInv
  <2> QED BY <1>2, <1>3, <2>1, ThroughWithin DEF Fates
<1>4. CASE (Through(w, "oversized") \/ Through(w, "refused")) /\ captured' = captured
  BY <1>2, <1>4, ThroughWithin DEF Fates
<1> QED BY <1>3, <1>4 DEF Keep

LEMMA BudgetStep == CrewInv /\ BudgetInv /\ [Next]_vars => BudgetInv'
<1> SUFFICES ASSUME CrewInv, BudgetInv, [Next]_vars PROVE BudgetInv'
  OBVIOUS
<1>1. Cardinality(Reading) \in Nat
  BY ReadingCounts DEF CrewInv
<1>2. CASE UNCHANGED <<worker, fate, budget>>
  <2>1. Reading' = Reading /\ Stored' = Stored
    BY <1>2 DEF Reading, Stored, Having
  <2> QED BY <1>1, <1>2, <2>1, NothingNew DEF budget, BudgetInv
<1>3. CASE Attach
  <2>1. Reading' = {} /\ Reading = {}
    BY <1>3 DEF Attach, CrewInv, Reading
  <2>2. UNCHANGED <<fate, budget>>
    BY <1>3 DEF Attach
  <2> QED BY <1>1, <2>1, <2>2, NothingNew DEF budget, BudgetInv, Stored, Having
<1>4. ASSUME NEW r \in Responses, Respond(r) PROVE BudgetInv'
  <2>1. Reading' = Reading
    BY <1>4 DEF Respond, crew, Reading
  <2>2. fate' \in [Responses -> Fates] /\ Stored' \subseteq Stored
    BY <1>4 DEF Respond, BudgetInv, Fates, Stored, Having
  <2> QED BY <1>1, <1>4, <2>1, <2>2, NothingNew DEF Respond, budget
<1>5. ASSUME NEW w \in Workers, Work(w) PROVE BudgetInv'
  <2>1. CASE Get(w)
    BY <2>1, GetWithin
  <2>2. CASE Unread(w)
    <3>1. PICK f \in {"closed", "too large", "timed out", "read error", "malformed"} : Through(w, f)
      BY <2>2 DEF Unread
    <3>2. holds[w] \in Responses
      BY <3>1 DEF Through, CrewInv, Reading
    <3>3. pending' = Minus(pending, 1) /\ reserved' \in Nat /\ captured' = captured
      BY <2>2, <3>2, ReleaseFrees DEF Unread
    <3> QED BY <3>1, <3>3, ThroughWithin DEF Fates
  <2>3. CASE Keep(w)
    BY <2>3, KeepWithin
  <2>4. CASE Break(w)
    BY <2>4, ThroughWithin DEF Break, budget, Fates, BudgetInv
  <2>5. CASE Unwind(w)
    BY <2>5, UnwindWithin
  <2> QED BY <1>5, <2>1, <2>2, <2>3, <2>4, <2>5 DEF Work
<1>6. CASE JoinTimesOut
  <2>1. Reading' = Reading /\ UNCHANGED budget
    BY <1>6 DEF JoinTimesOut, Reading
  <2>2. fate' \in [Responses -> Fates] /\ Stored' \subseteq Stored
    BY <1>6 DEF JoinTimesOut, BudgetInv, Fates, Stored, Having
  <2> QED BY <1>1, <2>1, <2>2, NothingNew DEF budget
<1>7. CASE Close \/ Join \/ Joined \/ Shut \/ PutStop \/ PutTimesOut \/ SumUp \/ Unwound \/ CancelClose
  BY <1>2, <1>7 DEF Close, Join, Joined, Shut, PutStop, PutTimesOut, SumUp, Unwound, CancelClose, crew
<1>8. CASE UNCHANGED vars
  BY <1>2, <1>8 DEF vars, crew
<1> QED BY <1>3, <1>4, <1>5, <1>6, <1>7, <1>8 DEF Next, CloseStep

(* _reserve_capture_budget: the payloads stored and being read stay within their
   number and the bytes stored within theirs, however many workers decide on the
   budget while bodies are still being read. *)
THEOREM CaptureStaysWithin == Spec => []WithinBudget
<1>1. CrewInv /\ BudgetInv => WithinBudget
  <2> SUFFICES ASSUME CrewInv, BudgetInv PROVE WithinBudget
    OBVIOUS
  <2>1. Cardinality(Reading) \in Nat /\ Cardinality(Stored) \in Nat /\ MaxPayloads \in Nat
    BY ReadingCounts, StoredCounts, CaptureAssumption DEF CrewInv
  <2> QED BY <2>1 DEF BudgetInv, WithinBudget
<1>2. TallyInv => CrewInv
  BY DEF TallyInv
<1> QED BY TallyInit, TallyStep, BudgetInit, BudgetStep, <1>1, <1>2, PTL DEF Spec
-----------------------------------------------------------------------------
(* What an orderly close rests on: nobody is cancelled; what waits is in the
   queue and what is read has its reader; sentinels come after every response,
   and a worker ends only at a sentinel.                                     *)

Queued(x) == \E i \in 1 .. Len(queue) : queue[i] = x
OnlyStops == \A i \in 1 .. Len(queue) : queue[i] = STOP

InOrder ==
  /\ cancelled = {} /\ closer \notin {"again", "unwinding"}
  /\ closing <=> closer \in {"stopping", "gathering", "summed"}
  /\ \A i, k \in 1 .. Len(queue) : queue[i] = STOP /\ i <= k => closing /\ queue[k] = STOP
  /\ \A w \in Workers : /\ worker[w] = "done" => closing /\ OnlyStops
                        /\ worker[w] = "absent" => closer = "none"

InHand ==
  \A r \in Responses : /\ fate[r] \notin {"abandoned", "drained"}
                       /\ fate[r] = "queued" => Queued(r)
                       /\ fate[r] = "reading" => \E w \in Reading : holds[w] = r

Ended ==
  /\ stops \in Nat
  /\ closer = "stopping" /\ stops > 0 => Workers # {}
  /\ closer \in {"gathering", "summed"} => Workers # {}
  /\ closer = "summed" => Gone

OrderInv ==
  /\ DOMAIN fate = Responses /\ closing \in BOOLEAN
  /\ orderly => InOrder /\ InHand /\ Ended
LEMMA OrderInit == Init => OrderInv
<1> SUFFICES ASSUME Init PROVE OrderInv
  OBVIOUS
<1>1. queue = <<>> /\ Len(queue) = 0
  BY DEF Init
<1>2. InOrder
  BY <1>1 DEF Init, InOrder, OnlyStops
<1>3. InHand /\ Ended
  BY DEF Init, InHand, Ended
<1> QED BY <1>2, <1>3 DEF Init, OrderInv

(* A response that comes in joins the queue only before the capture is closing. *)
LEMMA RespondInOrder ==
  ASSUME CrewInv, OrderInv, orderly, NEW r \in Responses, Respond(r)
  PROVE  OrderInv'
<1>1. /\ UNCHANGED <<worker, holds, cancelled, closing, closer, stops, orderly>>
      /\ InOrder /\ InHand /\ Ended /\ DOMAIN fate = Responses
  BY DEF Respond, crew, ending, OrderInv
<1>2. Ended' /\ Reading' = Reading
  BY <1>1 DEF Ended, Gone, Reading
<1>3. CASE queue' = queue /\ fate' \in {[fate EXCEPT ![r] = f] : f \in {"ignored", "dropped"}}
  <2>1. DOMAIN fate' = Responses /\ InHand'
    BY <1>1, <1>2, <1>3 DEF InHand, Queued
  <2>2. InOrder'
    BY <1>1, <1>3 DEF InOrder, OnlyStops
  <2> QED BY <1>1, <1>2, <2>1, <2>2 DEF OrderInv
<1>4. CASE ~closing /\ queue' = Append(queue, r) /\ fate' = [fate EXCEPT ![r] = "queued"]
  <2>1. /\ Len(queue) \in Nat /\ Len(queue') = Len(queue) + 1 /\ queue'[Len(queue')] = r
        /\ \A i \in 1 .. Len(queue) : queue'[i] = queue[i]
    BY <1>4 DEF CrewInv
  <2>2. \A i \in 1 .. Len(queue') : queue'[i] # STOP
    <3>1. \A i \in 1 .. Len(queue) : queue[i] # STOP
      <4>1. ASSUME NEW i \in 1 .. Len(queue), queue[i] = STOP PROVE FALSE
        <5>1. i <= i
          OBVIOUS
        <5> QED BY <1>1, <1>4, <4>1, <5>1 DEF InOrder
      <4> QED BY <4>1
    <3>2. r # STOP
      BY CaptureAssumption
    <3>3. ASSUME NEW i \in 1 .. Len(queue') PROVE i \in 1 .. Len(queue) \/ i = Len(queue')
      BY <2>1, <3>3
    <3> QED BY <2>1, <3>1, <3>2, <3>3
  <2>3. InOrder'
    BY <1>1, <1>4, <2>2 DEF InOrder
  <2>4. Queued(r)' /\ \A x : Queued(x) => Queued(x)'
    BY <2>1 DEF Queued
  <2>5. DOMAIN fate' = Responses /\ InHand'
    BY <1>1, <1>2, <1>4, <2>4 DEF InHand
  <2> QED BY <1>1, <1>2, <2>3, <2>5 DEF OrderInv
<1> QED BY <1>3, <1>4 DEF Respond

(* A worker ends only at a sentinel, after which there are only sentinels. *)
LEMMA GetInOrder ==
  ASSUME CrewInv, OrderInv, orderly, NEW w \in Workers, Get(w)
  PROVE  OrderInv'
<1> DEFINE r == Head(queue)
<1>1. /\ UNCHANGED <<cancelled, closing, closer, stops, orderly>>
      /\ InOrder /\ InHand /\ Ended /\ DOMAIN fate = Responses
      /\ worker[w] = "idle" /\ worker \in [Workers -> States] /\ holds \in [Workers -> Responses \cup {Nothing}]
  BY DEF Get, ending, OrderInv, CrewInv
<1>2. /\ Len(queue) \in Nat \ {0} /\ Len(queue') = Len(queue) - 1 /\ r = queue[1]
      /\ \A i \in 1 .. Len(queue') : queue'[i] = queue[i + 1]
      /\ r \in Responses \cup {STOP}
  BY QueueLength DEF Get, CrewInv
<1>3. \A x : Queued(x) /\ x # r => Queued(x)'
  <2>1. ASSUME NEW x, NEW i \in 1 .. Len(queue), queue[i] = x, x # r PROVE Queued(x)'
    <3>1. i - 1 \in 1 .. Len(queue') /\ queue'[i - 1] = x
      BY <1>2, <2>1
    <3> QED BY <3>1 DEF Queued
  <2> QED BY <2>1 DEF Queued
<1>4. \A i, k \in 1 .. Len(queue') :
          queue'[i] = STOP /\ i <= k => closing /\ queue'[k] = STOP
  <2> SUFFICES ASSUME NEW i \in 1 .. Len(queue'), NEW k \in 1 .. Len(queue'),
                      queue'[i] = STOP, i <= k
               PROVE  closing /\ queue'[k] = STOP
    OBVIOUS
  <2>1. /\ i + 1 \in 1 .. Len(queue) /\ k + 1 \in 1 .. Len(queue) /\ i + 1 <= k + 1
        /\ queue[i + 1] = STOP /\ queue'[k] = queue[k + 1]
    BY <1>2
  <2> QED BY <1>1, <2>1 DEF InOrder
<1>5. OnlyStops => OnlyStops'
  BY <1>2 DEF OnlyStops
<1>6. closer # "none" /\ closer # "summed"
  BY <1>1 DEF CrewInv, Ended, Gone
<1> HIDE DEF r
<1>7. CASE /\ r = STOP /\ worker' = [worker EXCEPT ![w] = "done"]
           /\ UNCHANGED <<fate, holds>>
  <2>1. closing /\ OnlyStops
    <3>1. 1 \in 1 .. Len(queue) /\ queue[1] = STOP
      BY <1>2, <1>7
    <3>2. \A k \in 1 .. Len(queue) : 1 <= k
      BY <1>2
    <3> QED BY <1>1, <3>1, <3>2 DEF InOrder, OnlyStops
  <2>2. InOrder'
    BY <1>1, <1>4, <1>5, <1>6, <1>7, <2>1 DEF InOrder
  <2>3. Reading' = Reading
    BY <1>1, <1>7 DEF Reading
  <2>4. InHand'
    BY <1>1, <1>3, <1>7, <2>3, CaptureAssumption DEF InHand
  <2> QED BY <1>1, <1>6, <1>7, <2>2, <2>4 DEF OrderInv, Ended
<1>8. CASE /\ r # STOP /\ worker' = [worker EXCEPT ![w] = "reading"]
           /\ holds' = [holds EXCEPT ![w] = r] /\ fate' = [fate EXCEPT ![r] = "reading"]
  <2>1. InOrder'
    BY <1>1, <1>4, <1>5, <1>6, <1>8 DEF InOrder
  <2>2. Reading' = Reading \cup {w} /\ holds'[w] = r /\ \A v \in Reading : holds'[v] = holds[v]
    BY <1>1, <1>8 DEF Reading
  <2>3. InHand'
    BY <1>1, <1>3, <1>8, <2>2 DEF InHand
  <2> QED BY <1>1, <1>6, <1>8, <2>1, <2>3 DEF OrderInv, Ended
<1>9. CASE /\ r # STOP /\ fate' = [fate EXCEPT ![r] = "refused"]
           /\ UNCHANGED <<worker, holds>>
  <2>1. InOrder'
    BY <1>1, <1>4, <1>5, <1>6, <1>9 DEF InOrder
  <2>2. InHand'
    BY <1>1, <1>3, <1>9 DEF InHand, Reading
  <2> QED BY <1>1, <1>6, <1>9, <2>1, <2>2 DEF OrderInv, Ended
<1> QED BY <1>7, <1>8, <1>9 DEF Get, r

LEMMA ThroughInOrder ==
  ASSUME CrewInv, OrderInv, orderly, NEW w \in Workers,
         NEW f \in Fates \ {"queued", "reading", "abandoned", "drained"}, Through(w, f)
  PROVE  OrderInv'
<1>1. /\ UNCHANGED <<queue, cancelled, closing, closer, stops, orderly>>
      /\ InOrder /\ InHand /\ Ended /\ DOMAIN fate = Responses /\ worker[w] = "reading"
      /\ worker' = [worker EXCEPT ![w] = "idle"] /\ holds' = [holds EXCEPT ![w] = Nothing]
      /\ fate' = [fate EXCEPT ![holds[w]] = f] /\ holds[w] \in Responses
  BY DEF Through, ending, OrderInv, CrewInv, Reading
<1>2. worker \in [Workers -> States] /\ holds \in [Workers -> Responses \cup {Nothing}]
  BY DEF CrewInv
<1>3. InOrder'
  BY <1>1, <1>2 DEF InOrder, OnlyStops
<1>4. Reading' = Reading \ {w} /\ \A v \in Reading' : holds'[v] = holds[v]
  BY <1>1, <1>2 DEF Reading
<1>5. InHand'
  <2>1. ASSUME NEW r \in Responses, fate'[r] # f
        PROVE  r # holds[w] /\ fate'[r] = fate[r]
    BY <1>1, <2>1
  <2>2. ASSUME NEW r \in Responses, fate'[r] = "reading" PROVE \E v \in Reading' : holds'[v] = r
    <3>1. r # holds[w] /\ fate[r] = "reading"
      BY <2>1, <2>2
    <3>2. PICK v \in Reading : holds[v] = r
      BY <1>1, <3>1 DEF InHand
    <3> QED BY <1>4, <3>1, <3>2
  <2>3. ASSUME NEW r \in Responses, fate'[r] = "queued" PROVE Queued(r)'
    BY <1>1, <2>1, <2>3 DEF InHand, Queued
  <2>4. \A r \in Responses : fate'[r] \notin {"abandoned", "drained"}
    BY <1>1, <2>1 DEF InHand
  <2> QED BY <2>2, <2>3, <2>4 DEF InHand
<1>6. Ended'
  BY <1>1 DEF Ended, Gone
<1> QED BY <1>1, <1>3, <1>5, <1>6 DEF OrderInv

LEMMA CloseInOrder ==
  ASSUME CrewInv, OrderInv, orderly, CloseStep, orderly'
  PROVE  OrderInv'
<1>1. InOrder /\ InHand /\ Ended /\ DOMAIN fate = Responses
  BY DEF OrderInv
<1>2. CASE PutStop
  <2>1. /\ queue' = Append(queue, STOP) /\ closing
        /\ UNCHANGED <<worker, holds, cancelled, fate, closing>>
        /\ closer = "stopping" /\ stops > 0 /\ stops' = stops - 1
        /\ closer' \in {"stopping", "gathering"}
    BY <1>1, <1>2 DEF PutStop, WithStop, crew, InOrder
  <2>2. /\ Len(queue) \in Nat /\ Len(queue') = Len(queue) + 1 /\ queue'[Len(queue')] = STOP
        /\ \A i \in 1 .. Len(queue) : queue'[i] = queue[i]
    BY <2>1 DEF CrewInv
  <2>3. OnlyStops => OnlyStops'
    BY <2>2 DEF OnlyStops
  <2>4. InOrder'
    BY <1>1, <2>1, <2>2, <2>3 DEF InOrder
  <2>5. InHand'
    BY <1>1, <2>1, <2>2 DEF InHand, Queued, Reading
  <2>6. Ended'
    BY <1>1, <2>1 DEF Ended
  <2> QED BY <1>1, <2>1, <2>4, <2>5, <2>6 DEF OrderInv
<1>3. CASE Close \/ Join \/ Joined
  <2>1. /\ UNCHANGED <<queue, worker, holds, cancelled, fate, closing, stops>>
        /\ closer \in {"open", "yielding", "joining"}
        /\ closer' \in {"yielding", "joining", "joined"}
    BY <1>1, <1>3 DEF Close, Join, Joined, crew, InOrder
  <2> QED BY <1>1, <2>1 DEF OrderInv, InOrder, OnlyStops, InHand, Queued, Reading, Ended
<1>4. CASE Shut
  <2>1. /\ UNCHANGED <<queue, worker, holds, cancelled, fate>> /\ closer = "joined"
        /\ closer' = "stopping" /\ closing' = TRUE /\ stops' = Cardinality(Workers)
    BY <1>4 DEF Shut, crew
  <2>2. stops' \in Nat /\ (stops' > 0 => Workers # {})
    BY <2>1, CaptureAssumption, FS_CardinalityType, FS_EmptySet
  <2> QED BY <1>1, <2>1, <2>2 DEF OrderInv, InOrder, OnlyStops, InHand, Queued, Reading, Ended
<1>5. CASE SumUp
  <2>1. /\ UNCHANGED <<queue, worker, holds, cancelled, fate, closing, stops>>
        /\ closer = "gathering" /\ closer' = "summed" /\ Gone
    BY <1>5 DEF SumUp, crew
  <2> QED BY <1>1, <2>1 DEF OrderInv, InOrder, OnlyStops, InHand, Queued, Reading, Ended, Gone
<1>6. CASE PutTimesOut \/ JoinTimesOut \/ Unwound
  BY <1>1, <1>6 DEF PutTimesOut, JoinTimesOut, Unwound, InOrder
<1> QED BY <1>2, <1>3, <1>4, <1>5, <1>6 DEF CloseStep

LEMMA OrderStep == CrewInv /\ OrderInv /\ [Next]_vars => OrderInv'
<1> SUFFICES ASSUME CrewInv, OrderInv, [Next]_vars PROVE OrderInv'
  OBVIOUS
<1>1. DOMAIN fate' = Responses /\ closing' \in BOOLEAN
  BY DEF OrderInv, Next, CloseStep, Work, vars, budget, crew, ending, Attach, Respond, Get, Unread,
         Keep, Break, Through, Unwind, Close, Join, Joined, Shut, PutStop, PutTimesOut,
         JoinTimesOut, SumUp, Unwound, CancelClose
<1> SUFFICES ASSUME orderly' PROVE OrderInv'
  BY <1>1 DEF OrderInv
<1>2. orderly
  BY DEF Next, CloseStep, Work, vars, crew, ending, Attach, Respond, Get, Unread, Keep, Break,
         Through, Unwind, Close, Join, Joined, Shut, PutStop, PutTimesOut, JoinTimesOut, SumUp,
         Unwound, CancelClose
<1>3. CASE Attach
  <2>1. /\ closer = "none" /\ closer' = "open" /\ worker' = [w \in Workers |-> "idle"]
        /\ UNCHANGED <<queue, holds, cancelled, fate, closing, stops>>
        /\ Reading = {} /\ InOrder /\ InHand /\ Ended
    BY <1>2, <1>3 DEF Attach, OrderInv, CrewInv, Reading
  <2> QED BY <1>1, <2>1 DEF OrderInv, InOrder, OnlyStops, InHand, Queued, Reading, Ended
<1>4. ASSUME NEW w \in Workers, Work(w) PROVE OrderInv'
  <2>1. CASE Get(w)
    BY <1>2, <2>1, GetInOrder
  <2>2. CASE Unread(w) \/ Keep(w) \/ Break(w)
    <3>1. PICK f \in Fates \ {"queued", "reading", "abandoned", "drained"} : Through(w, f)
      BY <2>2 DEF Unread, Keep, Break, Fates
    <3> QED BY <1>2, <3>1, ThroughInOrder
  <2>3. CASE Unwind(w)
    BY <1>2, <2>3 DEF Unwind, OrderInv, InOrder
  <2> QED BY <1>4, <2>1, <2>2, <2>3 DEF Work
<1>5. CASE CancelClose
  BY <1>5 DEF CancelClose
<1>6. CASE UNCHANGED vars
  BY <1>6 DEF vars, crew, ending, OrderInv, InOrder, OnlyStops, InHand, Queued, Reading, Ended, Gone
<1> QED BY <1>2, <1>3, <1>4, <1>5, <1>6, RespondInOrder, CloseInOrder DEF Next

(* close: one that neither timed out nor was cancelled has seen every response to
   its end, however its sentinels, the workers and the listener interleave. *)
THEOREM OrderlyCloseIsComplete == Spec => []OrderlyCloseLosesNothing
<1>1. CrewInv /\ OrderInv => OrderlyCloseLosesNothing
  <2> SUFFICES ASSUME CrewInv, OrderInv, closer = "summed", orderly, NEW r \in Responses
               PROVE  fate[r] \notin {"queued", "reading", "abandoned", "drained"}
    BY DEF OrderlyCloseLosesNothing
  <2>1. InOrder /\ InHand /\ Gone /\ Workers # {}
    BY DEF OrderInv, Ended
  <2>2. \A w \in Workers : worker[w] = "done"
    BY <2>1 DEF Gone, InOrder
  <2>3. OnlyStops /\ Reading = {}
    BY <2>1, <2>2 DEF InOrder, Reading
  <2> QED BY <2>1, <2>3, CaptureAssumption DEF InHand, Queued, OnlyStops
<1>2. TallyInv => CrewInv
  BY DEF TallyInv
<1> QED BY TallyInit, TallyStep, OrderInit, OrderStep, <1>1, <1>2, PTL DEF Spec

-----------------------------------------------------------------------------
(* The traversal of a listing: what its variables hold. *)

Snapshots == [count: Nat, sign: Pages \X Nat]
PageType == [url: Pages, cards: SUBSET Cards, content: Nat, block: BOOLEAN]

TravTypes ==
  /\ mode \in {"scroll", "load_more", "paginate"}
  /\ page \in PageType /\ count \in Nat
  /\ previous \in Snapshots /\ current \in Snapshots
  /\ held \in SUBSET Cards /\ looked \in SUBSET Cards
  /\ excused \in SUBSET Cards /\ counted \in SUBSET Cards
  /\ visited \in SUBSET Pages /\ gathered \in SUBSET Pages
  /\ intended \in Pages \cup {None} /\ from \in Pages \cup {None} /\ heading \in Pages \cup {None}
  /\ slow \in BOOLEAN /\ overlap \in BOOLEAN

Over == {"stopped", "done", "raised"}

(* Turning pages, no navigation is under way but in a turn, or one that the
   traversal has stopped waiting for. *)
NothingHeading ==
  mode = "paginate" /\ ~slow /\ at \notin {"arrived"} \cup Over => heading = None

(* The steps of scroll and load_more, and those of paginate. *)
OnlyInPlace ==
  /\ at \in {"settling", "gaining", "last_gain", "last_gather"} => mode # "paginate"
  /\ at \in {"arrived", "look", "thin", "thin_gather"} => mode = "paginate"

-----------------------------------------------------------------------------
(* What was counted is kept, or was looked at last and is kept next. *)

Accounted == held \cup excused

KeptInPlace ==
  mode # "paginate" =>
    /\ at \notin {"last_gather", "raised"} =>
         count <= Cardinality(Accounted) /\ previous.count <= Cardinality(Accounted)
    /\ at = "last_gather" =>
         count <= Cardinality(looked) /\ previous.count <= Cardinality(looked)
    /\ at = "gather" => current.count <= Cardinality(looked)
    /\ at = "gaining" => current.count <= Cardinality(Accounted)

Unkept == {"count", "gather", "thin_gather"}

KeptOfPages ==
  mode = "paginate" /\ ~overlap /\ ~slow =>
    /\ at = "open" => count = 0
    /\ at \notin Unkept \cup {"raised"} => counted \subseteq Accounted
    /\ at \in Unkept => counted \subseteq Accounted \cup looked
    /\ at \notin {"gather", "thin_gather", "raised"} => count <= Cardinality(counted)
    /\ at = "gather" => count + current.count <= Cardinality(counted)
    /\ at = "thin_gather" => current.count <= Cardinality(counted)

-----------------------------------------------------------------------------
(* The pages that a turn can lead to. *)

NewPage == page.url \notin gathered \/ (intended = None /\ page.url = from)

PagesVisited ==
  mode = "paginate" =>
    /\ at = "arrived" /\ intended # None => intended \notin visited
    /\ ~slow => gathered \subseteq visited
    /\ ~slow /\ at \in {"loop", "thin", "look", "gather", "thin_gather"} => page.url \in visited
    /\ ~slow /\ at \in {"look", "gather"} => NewPage

-----------------------------------------------------------------------------
(* What a stop for the target tells, and what is delivered then. *)

StopTells ==
  at \in {"stopped", "done"} /\ stop = "target_records_reached" => TargetReached(count)

FragmentsDelivered ==
  at = "done" /\ stop = "target_records_reached" /\ progressed /\ ~richer => delivered = held

TravInv ==
  /\ TravTypes /\ NothingHeading /\ OnlyInPlace /\ KeptInPlace /\ KeptOfPages
  /\ PagesVisited /\ StopTells /\ FragmentsDelivered

-----------------------------------------------------------------------------
(* Cards, snapshots and fragments. *)

LEMMA CardSets ==
  ASSUME NEW A \in SUBSET Cards
  PROVE  IsFiniteSet(A) /\ Cardinality(A) \in Nat
BY TraversalAssumption, FS_Subset, FS_CardinalityType

LEMMA MoreCards ==
  ASSUME NEW A \in SUBSET Cards, NEW B \in SUBSET A
  PROVE  Cardinality(B) <= Cardinality(A)
BY CardSets, FS_Subset

LEMMA ApartCards ==
  ASSUME NEW A \in SUBSET Cards, NEW B \in SUBSET Cards, A \cap B = {}
  PROVE  Cardinality(A \cup B) = Cardinality(A) + Cardinality(B)
<1>1. IsFiniteSet(A) /\ IsFiniteSet(B) /\ Cardinality(A) \in Nat /\ Cardinality(B) \in Nat
  BY CardSets
<1>2. Cardinality(A \cup B) = Cardinality(A) + Cardinality(B) - Cardinality(A \cap B)
  BY <1>1, FS_Union
<1>3. Cardinality(A \cap B) = 0
  BY FS_EmptySet
<1> QED BY <1>1, <1>2, <1>3

LEMMA SnapshotIsOne ==
  ASSUME TravTypes
  PROVE  /\ Snapshot \in Snapshots
         /\ Snapshot.count = Cardinality(page.cards) /\ Snapshot.count \in Nat
<1>1. page.cards \in SUBSET Cards /\ page.url \in Pages /\ page.content \in Nat
  BY DEF TravTypes, PageType
<1>2. Cardinality(page.cards) \in Nat
  BY <1>1, CardSets
<1>3. Snapshot = [count |-> Cardinality(page.cards), sign |-> <<page.url, page.content>>]
  BY DEF Snapshot
<1> QED BY <1>1, <1>2, <1>3 DEF Snapshots

(* Every card of the page, and every one looked at, is kept or excused. *)
LEMMA Appended ==
  ASSUME TravTypes, AppendFragment
  PROVE  /\ held' \in SUBSET Cards /\ excused' \in SUBSET Cards /\ looked' \in SUBSET Cards
         /\ Accounted \cup looked \subseteq Accounted' /\ Accounted' \in SUBSET Cards
<1>1. page.cards \in SUBSET Cards /\ held \in SUBSET Cards /\ excused \in SUBSET Cards
      /\ looked \in SUBSET Cards
  BY DEF TravTypes, PageType
<1>2. PICK top \in SUBSET page.cards :
        held' = held \cup top \/ held' = held \cup page.cards \/ held' = held
  BY DEF AppendFragment, kept
<1>3. excused' = excused \cup ((page.cards \cup looked) \ held') /\ looked' = {}
  BY DEF AppendFragment
<1> QED BY <1>1, <1>2, <1>3 DEF Accounted

(* What was counted of what was looked at is accounted for when that is kept. *)
LEMMA LookedIsKept ==
  ASSUME TravTypes, AppendFragment
  PROVE  /\ Cardinality(looked) \in Nat /\ Cardinality(Accounted) \in Nat
         /\ Cardinality(Accounted') \in Nat
         /\ Cardinality(looked) <= Cardinality(Accounted')
         /\ Cardinality(Accounted) <= Cardinality(Accounted')
<1>1. /\ Accounted' \in SUBSET Cards /\ looked \in SUBSET Accounted'
      /\ Accounted \in SUBSET Accounted'
  BY Appended
<1>2. looked \in SUBSET Cards /\ Accounted \in SUBSET Cards
  BY DEF TravTypes, Accounted
<1> QED BY <1>1, <1>2, MoreCards, CardSets

LEMMA TravBegins == TraversalInit => TravInv
<1> SUFFICES ASSUME TraversalInit PROVE TravInv
  OBVIOUS
<1>1. Home \in Pages /\ On[Home] \subseteq Cards /\ None \notin Pages
  BY TraversalAssumption
<1>2. PICK C \in SUBSET On[Home] : page = [url |-> Home, cards |-> C, content |-> 0, block |-> FALSE]
  BY DEF TraversalInit
<1>3. page \in PageType
  BY <1>1, <1>2 DEF PageType
<1>4. Cardinality({}) = 0
  BY FS_EmptySet
<1>5. Unseen \in Snapshots /\ Unseen.count = 0
  BY <1>1 DEF Unseen, Snapshots
<1>6. TravTypes
  <2>1. count = 0 /\ previous \in Snapshots /\ current \in Snapshots
    BY <1>5 DEF TraversalInit
  <2>2. /\ held = {} /\ looked = {} /\ excused = {} /\ counted = {} /\ visited = {} /\ gathered = {}
        /\ intended = None /\ from = None /\ heading = None
        /\ slow = FALSE /\ overlap = FALSE /\ mode \in {"scroll", "load_more", "paginate"}
    BY DEF TraversalInit
  <2> QED BY <1>3, <2>1, <2>2 DEF TravTypes
<1>7. at = "open" /\ count = 0 /\ previous.count = 0 /\ heading = None /\ counted = {}
      /\ gathered = {} /\ held = {} /\ excused = {}
  BY <1>5 DEF TraversalInit
<1>8. Cardinality(Accounted) = 0
  BY <1>7, <1>4 DEF Accounted
<1> QED BY <1>4, <1>6, <1>7, <1>8
        DEF TravInv, NothingHeading, OnlyInPlace, KeptInPlace, KeptOfPages, Unkept, PagesVisited,
            StopTells, FragmentsDelivered

-----------------------------------------------------------------------------
(* What the page does by itself. *)

LEMMA ChangedPage ==
  ASSUME TravTypes, Changes
  PROVE  page' \in PageType /\ page'.url = page.url
<1>1. page \in PageType /\ page.content \in Nat /\ page.content + 1 \in Nat /\ page.url \in Pages
  BY DEF TravTypes, PageType
<1>2. PICK C \in SUBSET On[page.url], n \in {page.content, page.content + 1} :
        page' = [page EXCEPT !.cards = C, !.content = n]
  BY DEF Changes
<1>3. C \in SUBSET Cards /\ n \in Nat
  BY <1>1, TraversalAssumption
<1> QED BY <1>1, <1>2, <1>3 DEF PageType

LEMMA LoadedPage ==
  ASSUME TravTypes, NEW u \in Pages, Loads(u)
  PROVE  page' \in PageType
<1>1. PICK C \in SUBSET On[u], b \in BOOLEAN :
        page' = [url |-> u, cards |-> C, content |-> page.content, block |-> b]
  BY DEF Loads
<1>2. C \in SUBSET Cards /\ page \in PageType
  BY TraversalAssumption DEF TravTypes
<1> QED BY <1>1, <1>2 DEF PageType

LEMMA ArriveKeeps ==
  ASSUME TravInv, Arrive
  PROVE  TravInv'
<1> USE DEF TravInv, streaks, turn, kept, observed
<1>1. page' \in PageType /\ page'.url = page.url
  BY ChangedPage DEF Arrive
<1>2. /\ UNCHANGED <<mode, heading, at, stop, previous, current, count, progressed, visited,
                     intended, from, held, delivered, looked, excused, counted, overlap, slow,
                     gathered, richer>>
  BY DEF Arrive
<1>3. TravTypes' /\ NothingHeading' /\ OnlyInPlace'
  BY <1>1, <1>2 DEF TravTypes, NothingHeading, OnlyInPlace
<1>4. KeptInPlace' /\ KeptOfPages'
  BY <1>2 DEF KeptInPlace, KeptOfPages, Accounted
<1>5. PagesVisited' /\ StopTells' /\ FragmentsDelivered'
  BY <1>1, <1>2 DEF PagesVisited, NewPage, StopTells, FragmentsDelivered, TargetReached
<1> QED BY <1>3, <1>4, <1>5

LEMMA CommitKeeps ==
  ASSUME TravInv, Commit
  PROVE  TravInv'
<1> USE DEF TravInv, streaks, turn, kept, observed
<1>1. /\ UNCHANGED <<mode, at, stop, previous, current, count, progressed, visited,
                     intended, from, held, delivered, looked, excused, counted, overlap, slow,
                     gathered, richer>>
      /\ at \notin {"done", "raised"} /\ heading # None /\ heading' = None /\ Loads(heading)
  BY DEF Commit
<1>2. page' \in PageType
  <2>1. heading \in Pages
    BY <1>1 DEF TravTypes
  <2> QED BY <1>1, <2>1, LoadedPage
<1>3. mode = "paginate" => slow \/ at \in {"arrived", "stopped"}
  BY <1>1 DEF TravTypes, NothingHeading, Over
<1>4. TravTypes' /\ NothingHeading' /\ OnlyInPlace'
  BY <1>1, <1>2 DEF TravTypes, NothingHeading, OnlyInPlace
<1>5. KeptInPlace' /\ KeptOfPages'
  BY <1>1 DEF KeptInPlace, KeptOfPages, Accounted
<1>6. PagesVisited' /\ StopTells' /\ FragmentsDelivered'
  BY <1>1, <1>3 DEF PagesVisited, StopTells, FragmentsDelivered, TargetReached
<1> QED BY <1>4, <1>5, <1>6

LEMMA EndingKeeps ==
  ASSUME TravInv, Deadline \/ Raises \/ Finished \/ UNCHANGED traversalVars
  PROVE  TravInv'
<1> USE DEF TravInv, shown, streaks, turn, kept, observed
<1>1. /\ UNCHANGED <<mode, page, heading, stop, previous, current, count, progressed, visited,
                     intended, from, held, delivered, looked, excused, counted, overlap, slow,
                     gathered, richer>>
      /\ at' = at \/ at' = "raised"
  BY DEF Deadline, Raises, Finished, traversalVars
<1>2. TravTypes' /\ NothingHeading' /\ OnlyInPlace'
  BY <1>1 DEF TravTypes, NothingHeading, OnlyInPlace, Over
<1>3. KeptInPlace' /\ KeptOfPages'
  BY <1>1 DEF KeptInPlace, KeptOfPages, Unkept, Accounted
<1>4. PagesVisited' /\ StopTells' /\ FragmentsDelivered'
  BY <1>1 DEF PagesVisited, NewPage, StopTells, FragmentsDelivered, TargetReached
<1> QED BY <1>2, <1>3, <1>4

-----------------------------------------------------------------------------
(* The beginning. *)

LEMMA OpenKeeps ==
  ASSUME TravInv, Open
  PROVE  TravInv'
<1> USE DEF TravInv, shown, streaks, turn
<1>1. /\ UNCHANGED <<mode, page, heading, previous, current, count, progressed, visited, intended,
                     from, counted, overlap, slow, gathered, richer>>
      /\ at = "open" /\ mode # "paginate" /\ at' = "count" /\ AppendFragment
  BY DEF Open, GoOn
<1>2. /\ held' \in SUBSET Cards /\ excused' \in SUBSET Cards /\ looked' \in SUBSET Cards
  BY <1>1, Appended
<1>3. /\ Cardinality(Accounted) <= Cardinality(Accounted')
      /\ Cardinality(Accounted) \in Nat /\ Cardinality(Accounted') \in Nat
  BY <1>1, LookedIsKept
<1>4. TravTypes' /\ NothingHeading' /\ OnlyInPlace'
  BY <1>1, <1>2 DEF TravTypes, NothingHeading, OnlyInPlace, Over
<1>5. KeptInPlace' /\ KeptOfPages'
  BY <1>1, <1>3 DEF KeptInPlace, KeptOfPages, TravTypes, Snapshots
<1>6. PagesVisited' /\ StopTells' /\ FragmentsDelivered'
  BY <1>1 DEF PagesVisited, StopTells, FragmentsDelivered
<1> QED BY <1>4, <1>5, <1>6

LEMMA OpenFirstPageKeeps ==
  ASSUME TravInv, OpenFirstPage
  PROVE  TravInv'
<1> USE DEF TravInv, shown, streaks, turn, kept
<1>1. /\ UNCHANGED <<mode, page, heading, current, progressed, visited, intended,
                     from, held, excused, overlap, slow, gathered, richer>>
      /\ at = "open" /\ mode = "paginate" /\ at' = "count"
      /\ previous' = Snapshot /\ count' = Snapshot.count
      /\ counted' = page.cards /\ looked' = page.cards
  BY DEF OpenFirstPage, GoOn
<1>2. Snapshot \in Snapshots /\ Snapshot.count = Cardinality(page.cards) /\ Snapshot.count \in Nat
      /\ page.cards \in SUBSET Cards
  BY SnapshotIsOne DEF TravTypes, PageType
<1>3. TravTypes' /\ NothingHeading' /\ OnlyInPlace'
  BY <1>1, <1>2 DEF TravTypes, NothingHeading, OnlyInPlace, Over
<1>4. KeptInPlace' /\ KeptOfPages'
  BY <1>1, <1>2 DEF KeptInPlace, KeptOfPages, Unkept
<1>5. PagesVisited' /\ StopTells' /\ FragmentsDelivered'
  BY <1>1 DEF PagesVisited, StopTells, FragmentsDelivered
<1> QED BY <1>3, <1>4, <1>5

LEMMA CountKeeps ==
  ASSUME TravInv, Count
  PROVE  TravInv'
<1> USE DEF TravInv, shown, streaks, turn, kept
<1>1. /\ UNCHANGED <<mode, page, heading, current, progressed, visited, intended,
                     from, held, looked, counted, overlap, slow, gathered, richer>>
      /\ at = "count" /\ mode # "paginate"
      /\ \/ at' = "stopped" /\ TargetReached(Snapshot.count)
         \/ at' = "loop"
      /\ previous' = Snapshot /\ count' = Snapshot.count
      /\ excused' = excused \cup (page.cards \ held)
  BY DEF Count, GoOn, Stop
<1>2. /\ Snapshot \in Snapshots /\ Snapshot.count = Cardinality(page.cards) /\ Snapshot.count \in Nat
  BY SnapshotIsOne
<1>3. held \in SUBSET Cards /\ excused' \in SUBSET Cards
  BY <1>1 DEF TravTypes, PageType
<1>4. Cardinality(page.cards) <= Cardinality(Accounted')
  <2>1. Accounted' \in SUBSET Cards /\ page.cards \in SUBSET Accounted'
    BY <1>1, <1>3 DEF Accounted
  <2> QED BY <2>1, MoreCards
<1>5. TravTypes' /\ NothingHeading' /\ OnlyInPlace'
  BY <1>1, <1>2, <1>3 DEF TravTypes, NothingHeading, OnlyInPlace, Over
<1>6. KeptInPlace' /\ KeptOfPages'
  BY <1>1, <1>2, <1>4 DEF KeptInPlace, KeptOfPages
<1>7. PagesVisited' /\ StopTells' /\ FragmentsDelivered'
  BY <1>1 DEF PagesVisited, StopTells, FragmentsDelivered, TargetReached
<1> QED BY <1>5, <1>6, <1>7

LEMMA KeepFirstPageKeeps ==
  ASSUME TravInv, KeepFirstPage
  PROVE  TravInv'
<1> USE DEF TravInv, shown, streaks
<1>1. /\ UNCHANGED <<mode, page, heading, previous, current, count, progressed, intended,
                     from, counted, overlap, slow, richer>>
      /\ at = "count" /\ mode = "paginate" /\ AppendFragment
      /\ \/ at' = "stopped" /\ TargetReached(count)
         \/ at' = "loop"
      /\ visited' = {page.url} /\ gathered' = {page.url}
  BY DEF KeepFirstPage, GoOn, Stop
<1>2. /\ held' \in SUBSET Cards /\ excused' \in SUBSET Cards /\ looked' \in SUBSET Cards
      /\ Accounted \cup looked \subseteq Accounted'
  BY <1>1, Appended
<1>3. TravTypes' /\ NothingHeading' /\ OnlyInPlace'
  <2>1. page.url \in Pages
    BY DEF TravTypes, PageType
  <2> QED BY <1>1, <1>2, <2>1 DEF TravTypes, NothingHeading, OnlyInPlace, Over
<1>4. KeptInPlace' /\ KeptOfPages'
  BY <1>1, <1>2 DEF KeptInPlace, KeptOfPages, Unkept
<1>5. PagesVisited' /\ StopTells' /\ FragmentsDelivered'
  BY <1>1 DEF PagesVisited, StopTells, FragmentsDelivered, TargetReached
<1> QED BY <1>3, <1>4, <1>5

-----------------------------------------------------------------------------
(* Rounds. *)

(* Stopping, or going on without a look, changes nothing that is claimed. *)
LEMMA StopsKeep ==
  ASSUME TravInv, LimitReached \/ ClickFails \/ NotFound \/ OutOfTime
  PROVE  TravInv'
<1> USE DEF TravInv, shown, streaks, turn, kept, observed
<1>1. /\ UNCHANGED <<mode, page, heading, previous, current, count, progressed, visited, intended,
                     from, held, looked, excused, counted, overlap, slow, gathered, richer>>
      /\ at \in {"loop", "settling"}
      /\ \/ at' = "stopped" /\ stop' # "target_records_reached"
         \/ at = "loop" /\ at' = "last_gain" /\ mode = "load_more"
         \/ at = "loop" /\ at' = "thin" /\ mode = "paginate"
  BY DEF LimitReached, ClickFails, NotFound, OutOfTime, Round, Stop, GoOn, TravTypes
<1>2. TravTypes' /\ NothingHeading' /\ OnlyInPlace'
  BY <1>1 DEF TravTypes, NothingHeading, OnlyInPlace, Over
<1>3. KeptInPlace' /\ KeptOfPages'
  BY <1>1 DEF KeptInPlace, KeptOfPages, Unkept, Accounted
<1>4. PagesVisited' /\ StopTells' /\ FragmentsDelivered'
  BY <1>1 DEF PagesVisited, NewPage, StopTells, FragmentsDelivered
<1> QED BY <1>2, <1>3, <1>4

LEMMA ActKeeps ==
  ASSUME TravInv, Act
  PROVE  TravInv'
<1> USE DEF TravInv, streaks, turn, kept, observed
<1>1. /\ UNCHANGED <<mode, previous, current, count, progressed, visited, intended,
                     from, held, looked, excused, counted, overlap, slow, gathered, richer>>
      /\ at = "loop" /\ mode # "paginate" /\ at' = "settling"
  BY DEF Act, Round, GoOn
<1>2. page' \in PageType /\ heading' \in Pages \cup {None}
  <2>1. page \in PageType /\ heading \in Pages \cup {None}
    BY DEF TravTypes
  <2>2. CASE Changes
    BY <2>1, <2>2, ChangedPage DEF Act
  <2> QED BY <2>1, <2>2 DEF Act
<1>3. TravTypes' /\ NothingHeading' /\ OnlyInPlace'
  BY <1>1, <1>2 DEF TravTypes, NothingHeading, OnlyInPlace
<1>4. KeptInPlace' /\ KeptOfPages'
  BY <1>1 DEF KeptInPlace, KeptOfPages, Accounted
<1>5. PagesVisited' /\ StopTells' /\ FragmentsDelivered'
  BY <1>1 DEF PagesVisited, StopTells, FragmentsDelivered
<1> QED BY <1>3, <1>4, <1>5

-----------------------------------------------------------------------------
(* Looks and fragments of scroll and load_more. *)

LEMMA LooksKeep ==
  ASSUME TravInv, LookAfterScroll \/ LookAfterClick
  PROVE  TravInv'
<1> USE DEF TravInv, shown, turn, kept
<1>1. /\ UNCHANGED <<mode, page, heading, progressed, visited, intended,
                     from, held, excused, counted, overlap, slow, gathered, richer>>
      /\ at = "settling" /\ mode # "paginate"
  BY DEF LookAfterScroll, LookAfterClick
<1>2. /\ Snapshot \in Snapshots /\ Snapshot.count = Cardinality(page.cards) /\ Snapshot.count \in Nat
      /\ page.cards \in SUBSET Cards
  BY SnapshotIsOne DEF TravTypes, PageType
<1>3. \/ /\ current' = Snapshot /\ previous' = previous /\ count' = count /\ at' = "gather"
         /\ looked' = page.cards
      \/ /\ ~SnapshotProgressed(previous, Snapshot) /\ looked' = looked
         /\ previous' = Snapshot /\ count' = Snapshot.count /\ current' = current
         /\ \/ at' = "loop"
            \/ at' = "stopped" /\ (stop' = "target_records_reached" => TargetReached(Snapshot.count))
      \/ /\ ~SnapshotProgressed(previous, Snapshot) /\ looked' = looked
         /\ current' = Snapshot /\ previous' = previous /\ count' = count /\ at' = "gaining"
  <2>1. CASE Look("gather")
    BY <2>1 DEF Look, GoOn
  <2>2. CASE LookAfterScroll /\ ~Look("gather")
    BY <2>2 DEF LookAfterScroll, GoOn, Stop
  <2>3. CASE LookAfterClick /\ ~Look("gather")
    BY <2>3 DEF LookAfterClick, GoOn
  <2> QED BY <2>1, <2>2, <2>3
<1>4. previous.count \in Nat /\ count \in Nat
  BY DEF TravTypes, Snapshots
<1>5. ~SnapshotProgressed(previous, Snapshot) => Snapshot.count <= previous.count
  BY <1>2, <1>4 DEF SnapshotProgressed
<1>6. TravTypes' /\ NothingHeading' /\ OnlyInPlace'
  BY <1>1, <1>2, <1>3 DEF TravTypes, NothingHeading, OnlyInPlace, Over
<1>7. KeptInPlace' /\ KeptOfPages'
  <2>1. Cardinality(Accounted) \in Nat
    BY CardSets DEF TravTypes, Accounted
  <2>2. count <= Cardinality(Accounted) /\ previous.count <= Cardinality(Accounted)
    BY <1>1 DEF KeptInPlace
  <2>3. UNCHANGED Accounted
    BY <1>1 DEF Accounted
  <2> QED BY <1>1, <1>2, <1>3, <1>4, <1>5, <2>1, <2>2, <2>3 DEF KeptInPlace, KeptOfPages
<1>8. PagesVisited' /\ StopTells' /\ FragmentsDelivered'
  BY <1>1, <1>3 DEF PagesVisited, StopTells, FragmentsDelivered, TargetReached
<1> QED BY <1>6, <1>7, <1>8

LEMMA AwaitGainKeeps ==
  ASSUME TravInv, AwaitGain
  PROVE  TravInv'
<1> USE DEF TravInv, shown, turn, kept, streaks
<1>1. /\ UNCHANGED <<mode, page, heading, progressed, visited, intended,
                     from, held, excused, counted, overlap, slow, gathered, richer>>
      /\ at = "gaining" /\ mode # "paginate"
      /\ \/ /\ current' = Snapshot /\ looked' = page.cards /\ at' = "gather"
            /\ previous' = previous /\ count' = count
         \/ /\ current' = current /\ looked' = looked /\ at' = "stopped" /\ stop' = "no_progress"
            /\ previous' = current /\ count' = current.count
  BY DEF AwaitGain, GoOn, Stop, OnlyInPlace
<1>2. /\ Snapshot \in Snapshots /\ Snapshot.count = Cardinality(page.cards) /\ Snapshot.count \in Nat
      /\ page.cards \in SUBSET Cards /\ current.count \in Nat
  BY SnapshotIsOne DEF TravTypes, PageType, Snapshots
<1>3. TravTypes' /\ NothingHeading' /\ OnlyInPlace'
  BY <1>1, <1>2 DEF TravTypes, NothingHeading, OnlyInPlace, Over
<1>4. KeptInPlace' /\ KeptOfPages'
  BY <1>1, <1>2 DEF KeptInPlace, KeptOfPages, Accounted
<1>5. PagesVisited' /\ StopTells' /\ FragmentsDelivered'
  BY <1>1 DEF PagesVisited, StopTells, FragmentsDelivered
<1> QED BY <1>3, <1>4, <1>5

LEMMA AwaitLastGainKeeps ==
  ASSUME TravInv, AwaitLastGain
  PROVE  TravInv'
<1> USE DEF TravInv, shown, turn, kept, streaks
<1>1. /\ UNCHANGED <<mode, page, heading, current, progressed, visited, intended,
                     from, held, excused, counted, overlap, slow, gathered, richer>>
      /\ at = "last_gain" /\ mode # "paginate"
      /\ \/ previous' = Snapshot /\ count' = Snapshot.count /\ at' = "last_gather" /\ looked' = page.cards
         \/ /\ previous' = previous /\ count' = count /\ at' = "stopped" /\ stop' = "not_found"
            /\ looked' = looked
  BY DEF AwaitLastGain, GoOn, Stop, OnlyInPlace
<1>2. /\ Snapshot \in Snapshots /\ Snapshot.count = Cardinality(page.cards) /\ Snapshot.count \in Nat
      /\ page.cards \in SUBSET Cards
  BY SnapshotIsOne DEF TravTypes, PageType
<1>3. TravTypes' /\ NothingHeading' /\ OnlyInPlace'
  BY <1>1, <1>2 DEF TravTypes, NothingHeading, OnlyInPlace, Over
<1>4. KeptInPlace' /\ KeptOfPages'
  BY <1>1, <1>2 DEF KeptInPlace, KeptOfPages, Accounted
<1>5. PagesVisited' /\ StopTells' /\ FragmentsDelivered'
  BY <1>1 DEF PagesVisited, StopTells, FragmentsDelivered
<1> QED BY <1>3, <1>4, <1>5

LEMMA GatherLastKeeps ==
  ASSUME TravInv, GatherLast
  PROVE  TravInv'
<1> USE DEF TravInv, shown, turn, streaks
<1>1. /\ UNCHANGED <<mode, page, heading, previous, current, count, progressed, visited, intended,
                     from, counted, overlap, slow, gathered, richer>>
      /\ at = "last_gather" /\ mode # "paginate" /\ AppendFragment /\ at' = "stopped"
      /\ stop' = "target_records_reached" => TargetReached(count)
  BY DEF GatherLast, Stop, OnlyInPlace
<1>2. held' \in SUBSET Cards /\ excused' \in SUBSET Cards /\ looked' \in SUBSET Cards
  BY <1>1, Appended
<1>3. /\ Cardinality(looked) <= Cardinality(Accounted') /\ Cardinality(looked) \in Nat
      /\ Cardinality(Accounted') \in Nat
  BY <1>1, LookedIsKept
<1>4. TravTypes' /\ NothingHeading' /\ OnlyInPlace'
  BY <1>1, <1>2 DEF TravTypes, NothingHeading, OnlyInPlace, Over
<1>5. count \in Nat /\ previous.count \in Nat
  BY DEF TravTypes, Snapshots
<1>6. KeptInPlace' /\ KeptOfPages'
  BY <1>1, <1>3, <1>5 DEF KeptInPlace, KeptOfPages
<1>7. PagesVisited' /\ StopTells' /\ FragmentsDelivered'
  BY <1>1 DEF PagesVisited, StopTells, FragmentsDelivered, TargetReached
<1> QED BY <1>4, <1>6, <1>7

-----------------------------------------------------------------------------
(* Turns. *)

LEMMA TurnsKeep ==
  ASSUME TravInv, FollowLink \/ ClickNext
  PROVE  TravInv'
<1> USE DEF TravInv, shown, kept, streaks, observed
<1>1. /\ UNCHANGED <<mode, previous, current, count, progressed, visited,
                     held, looked, excused, counted, overlap, slow, gathered, richer>>
      /\ at = "loop" /\ mode = "paginate"
  BY DEF FollowLink, ClickNext, Round, turn
<1>2. \/ /\ page' = page /\ heading' = heading
         /\ intended' = intended /\ from' = from /\ at' = "stopped"
         /\ stop' # "target_records_reached"
      \/ /\ page' \in PageType /\ heading' \in Pages \cup {None}
         /\ intended' \in Pages \cup {None} /\ from' = page.url /\ at' = "arrived"
         /\ intended' # None => intended' \notin visited
  <2>1. page.url \in Pages /\ page \in PageType /\ heading \in Pages \cup {None}
    BY DEF TravTypes, PageType
  <2>2. CASE FollowLink
    <3>1. PICK u \in Pages :
          \/ /\ page' = page /\ heading' = heading
             /\ intended' = intended /\ from' = from /\ at' = "stopped"
             /\ stop' # "target_records_reached"
          \/ /\ u \notin visited
             /\ \E r \in Pages : Loads(r)
             /\ heading' = None
             /\ intended' = u /\ from' = page.url /\ at' = "arrived"
      BY <2>2 DEF FollowLink, turn, Stop, GoOn
    <3>2. CASE \E r \in Pages : Loads(r)
      <4>1. page' \in PageType
        BY <3>2, LoadedPage
      <4> QED BY <3>1, <4>1
    <3> QED BY <3>1, <3>2
  <2>3. CASE ClickNext
    <3>1. /\ intended' = None /\ from' = page.url /\ at' = "arrived"
          /\ \/ heading' = heading /\ Changes
             \/ heading' \in Pages \cup {None} /\ page' = page
      BY <2>1, <2>3 DEF ClickNext, GoOn
    <3>2. CASE Changes
      <4>1. page' \in PageType
        BY <3>2, ChangedPage
      <4> QED BY <2>1, <3>1, <4>1
    <3> QED BY <2>1, <3>1, <3>2
  <2> QED BY <2>2, <2>3
<1>3. TravTypes' /\ NothingHeading' /\ OnlyInPlace'
  <2>1. page.url \in Pages
    BY DEF TravTypes, PageType
  <2> QED BY <1>1, <1>2, <2>1 DEF TravTypes, NothingHeading, OnlyInPlace, Over
<1>4. KeptInPlace' /\ KeptOfPages'
  BY <1>1, <1>2 DEF KeptInPlace, KeptOfPages, Unkept, Accounted
<1>5. PagesVisited' /\ StopTells' /\ FragmentsDelivered'
  BY <1>1, <1>2 DEF PagesVisited, StopTells, FragmentsDelivered
<1> QED BY <1>3, <1>4, <1>5

LEMMA ArrivedKeeps ==
  ASSUME TravInv, Arrived
  PROVE  TravInv'
<1> USE DEF TravInv, shown, kept, streaks
<1>1. /\ UNCHANGED <<mode, page, heading, previous, current, count, progressed, intended, from,
                     held, looked, excused, counted, overlap, gathered, richer>>
      /\ at = "arrived" /\ mode = "paginate"
      /\ slow' = (slow \/ heading # None)
      /\ \/ at' = "stopped" /\ visited' = visited /\ stop' # "target_records_reached"
         \/ at' = "look" /\ visited' = visited \cup {page.url} /\ ~Cycle
  BY DEF Arrived, OnlyInPlace, Stop, GoOn
<1>2. TravTypes' /\ NothingHeading' /\ OnlyInPlace'
  <2>1. page.url \in Pages /\ slow' \in BOOLEAN
    BY <1>1 DEF TravTypes, PageType
  <2> QED BY <1>1, <2>1 DEF TravTypes, NothingHeading, OnlyInPlace, Over
<1>3. ~slow' => ~slow
  BY <1>1
<1>4. KeptInPlace' /\ KeptOfPages'
  BY <1>1, <1>3 DEF KeptInPlace, KeptOfPages, Unkept, Accounted
<1>5. StopTells' /\ FragmentsDelivered'
  BY <1>1 DEF StopTells, FragmentsDelivered
<1>6. PagesVisited'
  BY <1>1, <1>3 DEF PagesVisited, NewPage, Cycle
<1> QED BY <1>2, <1>4, <1>5, <1>6

LEMMA LookAtPageKeeps ==
  ASSUME TravInv, LookAtPage
  PROVE  TravInv'
<1> USE DEF TravInv, shown, kept, streaks, turn
<1>1. /\ UNCHANGED <<mode, page, heading, previous, count, progressed, visited, intended, from,
                     held, excused, slow, gathered, richer>>
      /\ at = "look" /\ mode = "paginate" /\ current' = Snapshot
      /\ \/ /\ at' = "gather" /\ looked' = page.cards /\ counted' = counted \cup page.cards
            /\ overlap' = (overlap \/ page.cards \cap counted # {})
         \/ /\ at' = "stopped" /\ stop' = "no_progress" /\ looked' = looked
            /\ counted' = counted /\ overlap' = overlap
  BY DEF LookAtPage, OnlyInPlace, Stop, GoOn
<1>2. Snapshot \in Snapshots /\ Snapshot.count = Cardinality(page.cards) /\ Snapshot.count \in Nat
  BY SnapshotIsOne
<1>3. /\ counted \in SUBSET Cards /\ page.cards \in SUBSET Cards /\ looked \in SUBSET Cards
      /\ overlap \in BOOLEAN /\ count \in Nat
  BY DEF TravTypes, PageType
<1>4. TravTypes' /\ NothingHeading' /\ OnlyInPlace'
  <2>1. counted' \in SUBSET Cards /\ looked' \in SUBSET Cards /\ overlap' \in BOOLEAN
    BY <1>1, <1>3
  <2> QED BY <1>1, <1>2, <2>1 DEF TravTypes, NothingHeading, OnlyInPlace, Over
<1>5. ~overlap' => ~overlap
  BY <1>1
<1>6. at' = "gather" /\ ~overlap' =>
        Cardinality(counted') = Cardinality(counted) + Cardinality(page.cards)
  <2>1. SUFFICES ASSUME counted' = counted \cup page.cards, counted \cap page.cards = {}
                 PROVE  Cardinality(counted') = Cardinality(counted) + Cardinality(page.cards)
    BY <1>1
  <2> QED BY <1>3, <2>1, ApartCards
<1>7. Cardinality(counted) \in Nat
  BY <1>3, CardSets
<1>8. KeptInPlace' /\ KeptOfPages'
  BY <1>1, <1>2, <1>3, <1>5, <1>6, <1>7 DEF KeptInPlace, KeptOfPages, Unkept, Accounted
<1>9. PagesVisited' /\ StopTells' /\ FragmentsDelivered'
  BY <1>1 DEF PagesVisited, NewPage, StopTells, FragmentsDelivered
<1> QED BY <1>4, <1>8, <1>9

LEMMA SettleKeeps ==
  ASSUME TravInv, Settle
  PROVE  TravInv'
<1> USE DEF TravInv, shown, kept, streaks, turn
<1>1. /\ UNCHANGED <<mode, page, heading, previous, count, progressed, visited, intended, from,
                     held, excused, overlap, slow, gathered, richer>>
      /\ at = "thin" /\ mode = "paginate" /\ current' = Snapshot
      /\ \/ at' = "thin_gather" /\ counted' = page.cards /\ looked' = page.cards
         \/ at' = "stopped" /\ stop' = "not_found" /\ counted' = counted /\ looked' = looked
  BY DEF Settle, OnlyInPlace, Stop, GoOn
<1>2. Snapshot \in Snapshots /\ Snapshot.count = Cardinality(page.cards) /\ Snapshot.count \in Nat
      /\ page.cards \in SUBSET Cards
  BY SnapshotIsOne DEF TravTypes, PageType
<1>3. TravTypes' /\ NothingHeading' /\ OnlyInPlace'
  <2>1. counted' \in SUBSET Cards /\ looked' \in SUBSET Cards
    BY <1>1, <1>2 DEF TravTypes
  <2> QED BY <1>1, <1>2, <2>1 DEF TravTypes, NothingHeading, OnlyInPlace, Over
<1>4. KeptInPlace' /\ KeptOfPages'
  BY <1>1, <1>2 DEF KeptInPlace, KeptOfPages, Unkept, Accounted
<1>5. PagesVisited' /\ StopTells' /\ FragmentsDelivered'
  BY <1>1 DEF PagesVisited, StopTells, FragmentsDelivered
<1> QED BY <1>3, <1>4, <1>5

-----------------------------------------------------------------------------
(* Progress and the choice. *)

LEMMA GathersKeep ==
  ASSUME TravInv, GatherSettled \/ Gather
  PROVE  TravInv'
<1> USE DEF TravInv, shown, turn
<1>1. /\ UNCHANGED <<mode, page, heading, current, visited, intended, from,
                     counted, overlap, slow, richer>>
      /\ AppendFragment /\ previous' = current /\ gathered' = gathered \cup {page.url}
      /\ \/ at' = "loop"
         \/ at' = "stopped" /\ (stop' = "target_records_reached" => TargetReached(count'))
      /\ \/ /\ at = "thin_gather" /\ mode = "paginate" /\ count' = current.count
         \/ /\ at = "gather"
            /\ count' = IF mode = "paginate" THEN count + current.count ELSE current.count
  <2>1. CASE GatherSettled
    BY <2>1 DEF GatherSettled, GoOn, OnlyInPlace
  <2>2. CASE Gather
    <3>1. \/ at' = "loop"
          \/ at' = "stopped" /\ (stop' = "target_records_reached" => TargetReached(count'))
      BY <2>2 DEF Gather, Stop, GoOn
    <3> QED BY <2>2, <3>1 DEF Gather
  <2> QED BY <2>1, <2>2
<1>2. /\ held' \in SUBSET Cards /\ excused' \in SUBSET Cards /\ looked' \in SUBSET Cards
      /\ Accounted \cup looked \subseteq Accounted'
  BY <1>1, Appended
<1>3. count \in Nat /\ current.count \in Nat /\ page.url \in Pages
  BY DEF TravTypes, Snapshots, PageType
<1>4. /\ Cardinality(looked) <= Cardinality(Accounted') /\ Cardinality(looked) \in Nat
      /\ Cardinality(Accounted') \in Nat
  BY <1>1, LookedIsKept
<1>5. TravTypes' /\ NothingHeading' /\ OnlyInPlace'
  <2>1. count' \in Nat /\ gathered' \in SUBSET Pages
    BY <1>1, <1>3 DEF TravTypes
  <2> QED BY <1>1, <1>2, <2>1 DEF TravTypes, NothingHeading, OnlyInPlace, Over
<1>6. KeptInPlace'
  BY <1>1, <1>3, <1>4 DEF KeptInPlace
<1>7. KeptOfPages'
  BY <1>1, <1>2, <1>3 DEF KeptOfPages, Unkept
<1>8. PagesVisited'
  BY <1>1 DEF PagesVisited
<1>9. StopTells' /\ FragmentsDelivered'
  BY <1>1 DEF StopTells, FragmentsDelivered, TargetReached
<1> QED BY <1>5, <1>6, <1>7, <1>8, <1>9

LEMMA DeliverKeeps ==
  ASSUME TravInv, Deliver
  PROVE  TravInv'
<1> USE DEF TravInv, shown, kept, streaks, turn
<1>1. /\ UNCHANGED <<mode, page, heading, previous, current, count, progressed, visited, intended,
                     from, held, stop, looked, excused, counted, overlap, slow, gathered>>
      /\ at = "stopped" /\ at' = "done"
  BY DEF Deliver
<1>2. TravTypes' /\ NothingHeading' /\ OnlyInPlace'
  BY <1>1 DEF TravTypes, NothingHeading, OnlyInPlace, Over
<1>3. KeptInPlace' /\ KeptOfPages'
  BY <1>1 DEF KeptInPlace, KeptOfPages, Unkept, Accounted
<1>4. PagesVisited' /\ StopTells'
  BY <1>1 DEF PagesVisited, StopTells, TargetReached
<1>5. FragmentsDelivered'
  <2>1. SUFFICES ASSUME stop = "target_records_reached", progressed, ~richer'
                 PROVE  delivered' = held
    BY <1>1 DEF FragmentsDelivered
  <2>2. PICK now, then :
          delivered' = (IF PrefersPage(now, then) THEN page.cards ELSE held)
          /\ richer' = (now > then)
    BY DEF Deliver
  <2>3. ~PrefersPage(now, then)
    BY <2>1, <2>2 DEF PrefersPage
  <2> QED BY <2>2, <2>3
<1> QED BY <1>2, <1>3, <1>4, <1>5

LEMMA TravStep == TravInv /\ [TraversalNext]_traversalVars => TravInv'
BY OpenKeeps, OpenFirstPageKeeps, CountKeeps, KeepFirstPageKeeps, StopsKeep, ActKeeps, TurnsKeep,
   LooksKeep, AwaitGainKeeps, AwaitLastGainKeeps, GatherLastKeeps, ArrivedKeeps, LookAtPageKeeps,
   SettleKeeps, GathersKeep, DeliverKeeps, EndingKeeps, ArriveKeeps, CommitKeeps
   DEF TraversalNext, Step

(* Once it has stopped, as many cards are accounted for as were counted. *)
LEMMA AccountedIsCounted ==
  ASSUME TravInv, at \in {"stopped", "done"}, ~overlap, ~slow
  PROVE  count <= Cardinality(held \cup excused) /\ count \in Nat
         /\ Cardinality(held \cup excused) \in Nat
<1> USE DEF TravInv
<1>1. Accounted \in SUBSET Cards /\ counted \in SUBSET Cards /\ count \in Nat
  BY DEF TravTypes, Accounted
<1>2. Cardinality(Accounted) \in Nat /\ Cardinality(counted) \in Nat
  BY <1>1, CardSets
<1>3. CASE mode # "paginate"
  BY <1>1, <1>2, <1>3 DEF KeptInPlace, Accounted
<1>4. CASE mode = "paginate"
  <2>1. count <= Cardinality(counted) /\ counted \in SUBSET Accounted
    BY <1>4 DEF KeptOfPages, Unkept
  <2>2. Cardinality(counted) <= Cardinality(Accounted)
    BY <1>1, <2>1, MoreCards
  <2> QED BY <1>1, <1>2, <2>1, <2>2 DEF Accounted
<1> QED BY <1>3, <1>4

-----------------------------------------------------------------------------

(* The count that a traversal ends with is of cards it has kept, or that had gone, or
   found no room, or came unseen, for any listing, any limits and any coming and
   going of cards (run_traversal's card_count and the html fragments). *)
THEOREM CountedCardsAreKept == TraversalSpec => []CountIsKept
<1>1. TravInv => CountIsKept
  BY AccountedIsCounted DEF CountIsKept
<1> QED BY <1>1, TravBegins, TravStep, PTL DEF TraversalSpec

(* When a traversal that made progress has stopped at max_records, the HTML that the
   fetch goes on with has that many cards, whatever the page shows by then, unless it
   has more links to details than the fragments (_select_primary_browser_html). *)
THEOREM TargetComesThrough == TraversalSpec => []TargetIsDelivered
<1>1. TravInv => TargetIsDelivered
  <2> SUFFICES ASSUME TravInv, at = "done", stop = "target_records_reached", progressed, ~overlap,
                      ~slow, ~richer
               PROVE  Target <= Cardinality(delivered \cup excused)
    BY DEF TargetIsDelivered
  <2>1. delivered = held /\ TargetReached(count)
    BY DEF TravInv, FragmentsDelivered, StopTells
  <2>2. Target \in Nat /\ Target <= count
    BY <2>1, TraversalAssumption, AccountedIsCounted DEF TargetReached
  <2> QED BY <2>1, <2>2, AccountedIsCounted
<1> QED BY <1>1, TravBegins, TravStep, PTL DEF TraversalSpec

(* What a turn adds is from a page that nothing was added from before, whatever the
   links lead to and wherever the server redirects (the visited URLs and the check for
   a cycle of the paginate traversal). *)
THEOREM PagesAreNew == TraversalSpec => NoPageTwice
<1>1. TravInv /\ at = "gather" /\ mode = "paginate" /\ ~slow =>
        page.url \notin gathered \/ (intended = None /\ page.url = from)
  BY DEF TravInv, PagesVisited, NewPage
<1>2. TravInv /\ [TraversalNext]_traversalVars =>
        [at = "gather" /\ at' \notin {"gather", "raised"} /\ mode = "paginate" /\ ~slow =>
           page.url \notin gathered \/ (intended = None /\ page.url = from)]_traversalVars
  BY <1>1
<1> QED BY <1>2, TravBegins, TravStep, PTL DEF TraversalSpec, NoPageTwice
=============================================================================
