--------------------------- MODULE BrowserCapture ---------------------------
(***************************************************************************)
(* BrowserNetworkCapture (acquisition/browser_capture.py): a page's        *)
(* responses are queued by a listener, read by a few worker tasks within a *)
(* budget of payloads and bytes, and summed up when the capture is closed. *)
(* close() waits for the queue, but not for ever.  The fetch's last stage   *)
(* calls it, and the fetch's clean-up again when there is no summary yet:  *)
(* when that call was cancelled, or a stage before it failed.  A critical  *)
(* section of the class's lock never awaits: each is one step.             *)
(***************************************************************************)
EXTENDS Naturals, Sequences, FiniteSets

CONSTANTS Workers, Responses,
          Declared,       \* content-length of each response, 0 where it has none
          Actual,         \* the length of its body
          MaxPayloads, MaxBytes, QueueSize,
          MaxCancels      \* bound: times a close is cancelled

VARIABLES
    queue, unfinished,  \* asyncio.Queue: what waits in it, and its task count
    fate,               \* what became of each response
    worker,             \* of each worker: "absent", "idle", "reading" or "done"
    holds,              \* the response it reads
    cancelled,          \* workers told to stop and not yet unwound
    pending, reserved,  \* _pending_payloads, _reserved_bytes
    captured,           \* _captured_bytes
    listening, closing,
    closer,             \* where close() is
    last,               \* it is the clean-up's call, which nobody repeats
    stops,              \* sentinels it has still to put
    summary,            \* the payloads of the summary
    cancels,
    orderly             \* for the properties: no close timed out or was cancelled

budget == <<pending, reserved, captured>>
crew == <<worker, holds, cancelled>>
ending == <<listening, closing, closer, last, stops, summary, cancels, orderly>>
vars == <<queue, unfinished, fate, crew, budget, ending>>

STOP == "stop"
Nothing == "nothing"

ASSUME CaptureAssumption ==
    /\ IsFiniteSet(Workers) /\ IsFiniteSet(Responses) /\ STOP \notin Responses
    /\ Declared \in [Responses -> Nat] /\ Actual \in [Responses -> Nat]
    /\ MaxPayloads \in Nat /\ MaxBytes \in Nat /\ QueueSize \in Nat \ {0}
    /\ MaxCancels \in Nat

Having(f) == {r \in Responses : fate[r] = f}
Stored == Having("stored")
Reading == {w \in Workers : worker[w] = "reading"}

Init ==
    /\ queue = <<>> /\ unfinished = 0 /\ fate = [r \in Responses |-> "unseen"]
    /\ worker = [w \in Workers |-> "absent"] /\ holds = [w \in Workers |-> Nothing]
    /\ cancelled = {}
    /\ pending = 0 /\ reserved = 0 /\ captured = 0
    /\ listening = FALSE /\ closing = FALSE /\ closer = "none" /\ last = FALSE /\ stops = 0
    /\ summary = {} /\ cancels = 0 /\ orderly = TRUE

-----------------------------------------------------------------------------
(* The listener.                                                            *)

Attach ==
    /\ closer = "none" /\ ~listening
    /\ worker' = [w \in Workers |-> "idle"] /\ listening' = TRUE
    /\ closer' = "open"
    /\ UNCHANGED <<queue, unfinished, fate, holds, cancelled, budget, closing, last, stops,
                   summary, cancels, orderly>>

\* _schedule_capture.
Respond(r) ==
    /\ listening /\ fate[r] = "unseen"
    /\ \/ /\ closing /\ fate' = [fate EXCEPT ![r] = "ignored"]
          /\ UNCHANGED <<queue, unfinished>>
       \/ /\ ~closing /\ Len(queue) >= QueueSize /\ fate' = [fate EXCEPT ![r] = "dropped"]
          /\ UNCHANGED <<queue, unfinished>>
       \/ /\ ~closing /\ Len(queue) < QueueSize /\ fate' = [fate EXCEPT ![r] = "queued"]
          /\ queue' = Append(queue, r) /\ unfinished' = unfinished + 1
    /\ UNCHANGED <<crew, budget, ending>>

-----------------------------------------------------------------------------
(* The workers.                                                             *)

\* should_capture_network_payload, as far as it counts: what else it refuses
\* (content types, noise) is left to the choice of Get.
Room(r, count, bytes) ==
    /\ count < MaxPayloads
    /\ Declared[r] > 0 => bytes + Declared[r] <= MaxBytes
    /\ bytes < MaxBytes
Admits(r) == Room(r, Cardinality(Stored) + pending, captured + reserved)

\* Take the next item; a response is read if the budget admits it.
Get(w) ==
    /\ worker[w] = "idle" /\ w \notin cancelled /\ queue # <<>>
    /\ queue' = Tail(queue)
    /\ LET r == Head(queue)
       IN  \/ /\ r = STOP
              /\ worker' = [worker EXCEPT ![w] = "done"] /\ unfinished' = unfinished - 1
              /\ UNCHANGED <<fate, holds, budget>>
           \/ /\ r # STOP /\ Admits(r)
              /\ worker' = [worker EXCEPT ![w] = "reading"] /\ holds' = [holds EXCEPT ![w] = r]
              /\ fate' = [fate EXCEPT ![r] = "reading"]
              /\ pending' = pending + 1 /\ reserved' = reserved + Declared[r]
              /\ UNCHANGED <<unfinished, captured>>
           \/ /\ r # STOP
              /\ fate' = [fate EXCEPT ![r] = "refused"] /\ unfinished' = unfinished - 1
              /\ UNCHANGED <<worker, holds, budget>>
    /\ UNCHANGED <<cancelled, ending>>

Minus(n, m) == IF n > m THEN n - m ELSE 0
Release(r) == pending' = Minus(pending, 1) /\ reserved' = Minus(reserved, Declared[r])

\* The worker is through with its response.
Through(w, f) ==
    /\ worker[w] = "reading" /\ w \notin cancelled
    /\ worker' = [worker EXCEPT ![w] = "idle"] /\ holds' = [holds EXCEPT ![w] = Nothing]
    /\ fate' = [fate EXCEPT ![holds[w]] = f] /\ unfinished' = unfinished - 1
    /\ UNCHANGED <<queue, cancelled, ending>>

\* The body cannot be had, is too long, comes too late or means nothing.
Unread(w) ==
    /\ \E f \in {"closed", "too large", "timed out", "read error", "malformed"} : Through(w, f)
    /\ Release(holds[w]) /\ UNCHANGED captured

Fits_Declared(r) == captured + Declared[r] <= MaxBytes  \* (mutant) trusts the header
Fits(r) == captured + Actual[r] <= MaxBytes
\* A body is stored if there is still room for it.
Keep(w) ==
    LET r == holds[w]
    IN  /\ worker[w] = "reading"
        /\ Release(r)
        /\ \/ /\ Room(r, Cardinality(Stored), captured) /\ Fits(r)
              /\ Through(w, "stored") /\ captured' = captured + Actual[r]
           \/ /\ Room(r, Cardinality(Stored), captured) /\ ~Fits(r)
              /\ Through(w, "oversized") /\ UNCHANGED captured
           \/ /\ ~Room(r, Cardinality(Stored), captured)
              /\ Through(w, "refused") /\ UNCHANGED captured

\* Decoding raises (a document nested too deep): the reservation stays.
Break(w) == Through(w, "broken") /\ UNCHANGED budget

\* A cancelled worker unwinds, without releasing what it had reserved.
Unwind(w) ==
    /\ w \in cancelled /\ worker[w] \in {"idle", "reading"}
    /\ worker' = [worker EXCEPT ![w] = "done"] /\ holds' = [holds EXCEPT ![w] = Nothing]
    /\ cancelled' = cancelled \ {w}
    /\ IF worker[w] = "reading"
         THEN unfinished' = unfinished - 1 /\ fate' = [fate EXCEPT ![holds[w]] = "abandoned"]
         ELSE UNCHANGED <<unfinished, fate>>
    /\ UNCHANGED <<queue, budget, ending>>

-----------------------------------------------------------------------------
(* close.                                                                   *)

CancelAll == cancelled' = {w \in Workers : worker[w] \in {"idle", "reading"}}

\* finalize_browser_fetch closes the capture, or the clean-up does.  Detach the
\* listener, which may fail; then let the others run once.
Close ==
    /\ closer \in {"open", "again"} /\ last' \in (IF closer = "open" THEN BOOLEAN ELSE {TRUE})
    /\ listening' \in {FALSE, listening} /\ closer' = "yielding"
    /\ UNCHANGED <<queue, unfinished, fate, crew, budget, closing, stops, summary, cancels,
                   orderly>>

Join ==
    /\ closer = "yielding" /\ closer' = "joining"
    /\ UNCHANGED <<queue, unfinished, fate, crew, budget, listening, closing, last, stops, summary,
                   cancels, orderly>>

\* The queue's join returns; when close() resumes, more may have come in.
Joined ==
    /\ closer = "joining" /\ unfinished = 0 /\ closer' = "joined"
    /\ UNCHANGED <<queue, unfinished, fate, crew, budget, listening, closing, last, stops, summary,
                   cancels, orderly>>

Shut ==
    /\ closer = "joined" /\ closer' = "stopping"
    /\ closing' = TRUE /\ stops' = Cardinality(Workers)
    /\ UNCHANGED <<queue, unfinished, fate, crew, budget, listening, last, summary, cancels,
                   orderly>>

WithStop_First == <<STOP>> \o queue     \* (mutant) before what still waits
WithStop == Append(queue, STOP)

PutStop ==
    /\ closer = "stopping" /\ stops > 0 /\ Len(queue) < QueueSize
    /\ queue' = WithStop /\ unfinished' = unfinished + 1
    /\ stops' = stops - 1 /\ closer' = IF stops = 1 THEN "gathering" ELSE "stopping"
    /\ UNCHANGED <<fate, crew, budget, listening, closing, last, summary, cancels, orderly>>

\* A sentinel finds no room in time.
PutTimesOut ==
    /\ closer = "stopping" /\ Len(queue) >= QueueSize
    /\ CancelAll /\ closer' = "gathering" /\ orderly' = FALSE
    /\ UNCHANGED <<queue, unfinished, fate, worker, holds, budget, listening, closing, last,
                   stops, summary, cancels>>

DrainedCount_None == unfinished         \* (mutant) without task_done
DrainedCount == unfinished - Len(queue)
JoinTimesOut_NoCancel ==                \* (mutant) drains, but cancels nobody
    /\ closer = "joining" /\ unfinished > 0
    /\ closing' = TRUE /\ closer' = "gathering" /\ orderly' = FALSE
    /\ queue' = <<>> /\ unfinished' = DrainedCount
    /\ fate' = [r \in Responses |-> IF fate[r] = "queued" THEN "drained" ELSE fate[r]]
    /\ UNCHANGED <<crew, budget, listening, last, stops, summary, cancels>>
\* The join takes too long: cancel the workers and drain the queue.
JoinTimesOut ==
    /\ closer = "joining" /\ unfinished > 0
    /\ closing' = TRUE /\ closer' = "gathering" /\ orderly' = FALSE
    /\ CancelAll
    /\ queue' = <<>> /\ unfinished' = DrainedCount
    /\ fate' = [r \in Responses |-> IF fate[r] = "queued" THEN "drained" ELSE fate[r]]
    /\ UNCHANGED <<worker, holds, budget, listening, last, stops, summary, cancels>>

Gone == \A w \in Workers : worker[w] \in {"absent", "done"}

\* Every worker has ended: sum up.
SumUp ==
    /\ closer = "gathering" /\ Gone
    /\ closer' = "summed" /\ summary' = Stored
    /\ UNCHANGED <<queue, unfinished, fate, crew, budget, listening, closing, last, stops,
                   cancels, orderly>>

\* After the last stage's call the clean-up closes again; after the clean-up's
\* own there is nobody left to, and the workers may wait for ever.
CutShort == IF last THEN "left" ELSE "again"

\* The fetch is cancelled, or its last stage times out, while close() waits.  In
\* gather, the workers are cancelled with it and waited for.
CancelClose ==
    /\ cancels < MaxCancels /\ cancels' = cancels + 1 /\ orderly' = FALSE
    /\ \/ /\ closer \in {"yielding", "joining", "joined", "stopping"} /\ closer' = CutShort
          /\ UNCHANGED cancelled
       \/ closer = "gathering" /\ CancelAll /\ closer' = "unwinding"
    /\ UNCHANGED <<queue, unfinished, fate, worker, holds, budget, listening, closing, last,
                   stops, summary>>

Unwound ==
    /\ closer = "unwinding" /\ Gone /\ closer' = CutShort
    /\ UNCHANGED <<queue, unfinished, fate, crew, budget, listening, closing, last, stops, summary,
                   cancels, orderly>>

-----------------------------------------------------------------------------

Work(w) == Get(w) \/ Unread(w) \/ Keep(w) \/ Break(w) \/ Unwind(w)
CloseStep ==
    \/ Close \/ Join \/ Joined \/ Shut \/ PutStop \/ PutTimesOut
    \/ JoinTimesOut \/ SumUp \/ Unwound

Next ==
    \/ Attach \/ CloseStep \/ CancelClose
    \/ \E r \in Responses : Respond(r)
    \/ \E w \in Workers : Work(w)

\* Workers get their turn, a body is read or its wait ends, and close() goes on.
Fairness == WF_vars(CloseStep) /\ \A w \in Workers : WF_vars(Work(w))

Spec == Init /\ [][Next]_vars /\ Fairness

-----------------------------------------------------------------------------

\* Every variable stays in its range.
TypeOK ==
    /\ queue \in Seq(Responses \cup {STOP}) /\ Len(queue) <= QueueSize
    /\ unfinished \in 0 .. QueueSize + Cardinality(Workers)
    /\ fate \in [Responses -> {"unseen", "ignored", "dropped", "queued", "reading", "refused",
           "closed", "too large", "timed out", "read error", "malformed", "stored",
           "oversized", "broken", "abandoned", "drained"}]
    /\ worker \in [Workers -> {"absent", "idle", "reading", "done"}]
    /\ holds \in [Workers -> Responses \cup {Nothing}] /\ cancelled \subseteq Workers
    /\ pending \in 0 .. MaxPayloads /\ reserved \in Nat /\ captured \in Nat
    /\ closer \in {"none", "open", "yielding", "joining", "joined", "stopping", "gathering",
                   "unwinding", "again", "left", "summed"}
    /\ last \in BOOLEAN
    /\ stops \in 0 .. Cardinality(Workers) /\ summary \subseteq Responses

\* Safety.  The queue's count is what waits in it and what is being read, on
\* every path: a task_done too few and the join of every later close would wait
\* for its whole time, one too many and it raises.
UnfinishedTallies == unfinished = Len(queue) + Cardinality(Reading)

\* Safety.  However many bodies are read at once, with a length declared or
\* not, the payloads stored and being read stay within their number, and the
\* bytes stored within theirs.
WithinBudget ==
    /\ Cardinality(Stored) + Cardinality(Reading) <= MaxPayloads
    /\ captured <= MaxBytes

\* Safety.  A close that neither timed out nor was cancelled sums up when no
\* response that found room in the queue still waits or is being read, and has
\* cut none short: each was read or refused.
OrderlyCloseLosesNothing ==
    closer = "summed" /\ orderly =>
        \A r \in Responses : fate[r] \notin {"queued", "reading", "abandoned", "drained"}

\* Liveness.  A capture that is closed comes to its summary, in one call or two,
\* although bodies may be slow, the queue full and the listener still attached,
\* unless the clean-up's own call is cancelled.
CloseEnds == closer = "yielding" ~> closer \in {"summed", "left"}
=============================================================================
