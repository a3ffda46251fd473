----------------------------- MODULE PgBarrier -----------------------------
(***************************************************************************)
(* The fan-out and fan-in of one workflow execution on the PG transport:   *)
(* an orchestrator arms the pg_barrier_state row and enqueues one header   *)
(* message per file batch, workers run run_batch_with_barrier on them      *)
(* (pg_barrier.py), the last batch enqueues the aggregating callback, and  *)
(* the callback writes the final status of the execution.                  *)
(*                                                                         *)
(* The queue is seen as PgQueue promises it: a message may be delivered    *)
(* again while, or after, another worker handles it. The sweeps of the     *)
(* reaper are added by module BarrierRecovery. An operator whose comment   *)
(* starts with "Mutant" is the next definition with a bug in it; no action *)
(* of Next is one.                                                         *)
(***************************************************************************)
EXTENDS Integers, Sequences, FiniteSets

CONSTANTS
    NumBatches,   \* file batches of the execution
    Worker,       \* file-processing consumers
    Guarded,      \* the orchestrator takes pg_orchestration_claim first
    MaxArmings,   \* bound on barrier arms
    MaxFaults     \* bound on crashes, failed writes and early redeliveries

ASSUME ConstantAssumption ==
    /\ NumBatches \in Nat \ {0}
    /\ Guarded \in BOOLEAN
    /\ MaxArmings \in Nat \ {0}
    /\ MaxFaults \in Nat

Batch == 1..NumBatches
Message == [batch: Batch, arming: 1..MaxArmings]

VARIABLES
    exec,        \* status of the execution in the backend
    ended,       \* it was terminal at some time, history
    claim,       \* pg_orchestration_claim row: none, fresh, or timed out
    orch,        \* the orchestration message and its handler
    arming,      \* times the barrier was armed
    dispatched,  \* headers dispatched in this arming
    stripped,    \* a failed fan-out left this row without markers, history
    armed,       \* the pg_barrier_state row exists
    remaining,   \* its counter
    results,     \* its aggregated results, each named by its batch
    stale,       \* _STRANDED_PREDICATE holds for it
    markers,     \* pg_batch_dedup rows
    inbox,       \* [Message -> state of its queue row]
    pc,          \* [Worker -> where it is in run_batch_with_barrier]
    msg,         \* [Worker -> the message it handles]
    files,       \* [Batch -> state of its file executions in the backend]
    bodies,      \* [Batch -> times its work was started], history
    callbacks,   \* results of the callback messages enqueued, in order
    finished,    \* how many of them were handled
    faults       \* faults injected so far

barrierRow == <<armed, remaining, results, stale>>
orchVars == <<claim, orch, arming, dispatched, stripped>>
workerVars == <<inbox, pc, msg>>
backendVars == <<exec, ended, files>>
callbackVars == <<callbacks, finished>>
vars == <<backendVars, orchVars, barrierRow, markers, workerVars, bodies,
          callbackVars, faults>>

NoMessage == [batch |-> 1, arming |-> 1]   \* what an idle worker shows

Terminal == {"COMPLETED", "ERROR"}

\* _apply_pg_guarded_update: COMPLETED is not overwritten, ERROR is.
Guard(old, new) == IF old = "COMPLETED" THEN old ELSE new

SetStatus(new) ==
    /\ exec' = new
    /\ ended' = (ended \/ new \in Terminal)

\* mark_execution_error cascades to the files that are not terminal yet.
Cascade == [b \in Batch |-> IF files[b] = "open" THEN "closed" ELSE files[b]]

OrchStates == {"queued", "claimed", "dispatching", "dispatched", "failing",
               "acked"}
FileStates == {"none", "open", "closed"}
RowStates == {"unsent", "ready", "taken", "acked"}
WorkerStates == {"idle", "claim", "check", "start", "work", "decrement",
                 "fire", "discard", "delete", "clear", "mark", "abort", "ack"}

Init ==
    /\ exec = "EXECUTING"
    /\ ended = FALSE
    /\ claim = "none"
    /\ orch = "queued"
    /\ arming = 0
    /\ dispatched = 0
    /\ stripped = FALSE
    /\ armed = FALSE
    /\ remaining = 0
    /\ results = <<>>
    /\ stale = FALSE
    /\ markers = {}
    /\ inbox = [m \in Message |-> "unsent"]
    /\ pc = [w \in Worker |-> "idle"]
    /\ msg = [w \in Worker |-> NoMessage]
    /\ files = [b \in Batch |-> "none"]
    /\ bodies = [b \in Batch |-> 0]
    /\ callbacks = <<>>
    /\ finished = 0
    /\ faults = 0

Fault ==
    /\ faults < MaxFaults
    /\ faults' = faults + 1

-----------------------------------------------------------------------------
(* The orchestrator.                                                       *)

\* async_execute_bin_general claims the execution and then checks it is not
\* terminal; the API orchestrator does neither. Both write EXECUTING.
SkipOrchestration == Guarded /\ (claim # "none" \/ exec \in Terminal)

BeginOrchestration ==
    /\ orch = "queued"
    /\ claim' = IF Guarded /\ claim = "none" THEN "fresh" ELSE claim
    /\ orch' = IF SkipOrchestration THEN "acked" ELSE "claimed"
    /\ UNCHANGED <<backendVars, arming, dispatched, stripped, barrierRow,
                   markers, workerVars, bodies, callbackVars, faults>>

\* Mutant: the failure is not raised.
SetupFailsSwallowed ==
    /\ Guarded
    /\ orch = "claimed"
    /\ Fault
    /\ claim' \in {"none", claim}
    /\ \E new \in {exec, Guard(exec, "ERROR")} : SetStatus(new)
    /\ orch' = "acked"
    /\ UNCHANGED <<files, arming, dispatched, stripped, barrierRow, markers,
                   workerVars, bodies, callbackVars>>

\* The general orchestrator fails before the fan-out: it releases its claim,
\* writes ERROR, each on a best-effort basis, and raises to be run again.
SetupFails ==
    /\ Guarded
    /\ orch = "claimed"
    /\ Fault
    /\ claim' \in {"none", claim}
    /\ \E new \in {exec, Guard(exec, "ERROR")} : SetStatus(new)
    /\ orch' = "queued"
    /\ UNCHANGED <<files, arming, dispatched, stripped, barrierRow, markers,
                   workerVars, bodies, callbackVars>>

\* _reset_barrier: one transaction upserts the row and clears the markers.
Arm ==
    /\ orch = "claimed"
    /\ arming < MaxArmings
    /\ arming' = arming + 1
    /\ dispatched' = 0
    /\ stripped' = FALSE
    /\ armed' = TRUE
    /\ remaining' = NumBatches
    /\ results' = <<>>
    /\ stale' = FALSE
    /\ markers' = {}
    /\ orch' = "dispatching"
    /\ SetStatus(Guard(exec, "EXECUTING"))
    /\ UNCHANGED <<files, claim, workerVars, bodies, callbackVars, faults>>

ArmFails ==
    /\ orch = "claimed"
    /\ Fault
    /\ orch' = "failing"
    /\ UNCHANGED <<backendVars, claim, arming, dispatched, stripped, barrierRow,
                   markers, workerVars, bodies, callbackVars>>

\* _dispatch_header_pg: the message of one batch.
Enqueue(b) ==
    /\ dispatched' = b
    /\ inbox' = [inbox EXCEPT ![[batch |-> b, arming |-> arming]] = "ready"]

DispatchHeader ==
    /\ orch = "dispatching"
    /\ Enqueue(dispatched + 1)
    /\ orch' = IF dispatched' = NumBatches THEN "dispatched" ELSE orch
    /\ UNCHANGED <<backendVars, claim, arming, stripped, barrierRow, markers,
                   pc, msg, bodies, callbackVars, faults>>

AckOrchestration ==
    /\ orch = "dispatched"
    /\ orch' = "acked"
    /\ UNCHANGED <<backendVars, claim, arming, dispatched, stripped, barrierRow,
                   markers, workerVars, bodies, callbackVars, faults>>

\* A header is not dispatched, or was and the answer is lost. Then the row
\* and the markers are deleted, each on a best-effort basis: one outage of
\* the database is enough for the dispatch and either of them to fail.
DispatchFails ==
    /\ orch = "dispatching"
    /\ Fault
    /\ \/ UNCHANGED <<dispatched, inbox>>
       \/ Enqueue(dispatched + 1)
    /\ armed' \in {FALSE, armed}
    /\ markers' \in {{}, markers}
    /\ stripped' = (stripped \/ (armed' /\ markers' # markers))
    /\ orch' = "failing"
    /\ UNCHANGED <<backendVars, claim, arming, remaining, results, stale, pc,
                   msg, bodies, callbackVars>>

\* The failure is swallowed once its ERROR status has been written.
RecordFailure ==
    /\ orch = "failing"
    /\ SetStatus(Guard(exec, "ERROR"))
    /\ orch' = "acked"
    /\ UNCHANGED <<files, claim, arming, dispatched, stripped, barrierRow,
                   markers, workerVars, bodies, callbackVars, faults>>

RecordFailureLost ==
    /\ orch = "failing"
    /\ Fault
    /\ orch' = "acked"
    /\ UNCHANGED <<backendVars, claim, arming, dispatched, stripped, barrierRow,
                   markers, workerVars, bodies, callbackVars>>

\* The process dies; the queue redelivers its message.
OrchestratorCrashes ==
    /\ orch \in {"claimed", "dispatching", "dispatched", "failing"}
    /\ Fault
    /\ orch' = "queued"
    /\ UNCHANGED <<backendVars, claim, arming, dispatched, stripped, barrierRow,
                   markers, workerVars, bodies, callbackVars>>

-----------------------------------------------------------------------------
(* A worker in run_batch_with_barrier.                                     *)

BatchOf(w) == msg[w].batch

Goto(w, label) ==
    /\ pc' = [pc EXCEPT ![w] = label]
    /\ UNCHANGED msg

\* The handler returned or raised, or its process died.
Leave(w) ==
    /\ pc' = [pc EXCEPT ![w] = "idle"]
    /\ msg' = [msg EXCEPT ![w] = NoMessage]

Take(w, m) ==
    /\ pc[w] = "idle"
    /\ inbox[m] = "ready"
    /\ inbox' = [inbox EXCEPT ![m] = "taken"]
    /\ msg' = [msg EXCEPT ![w] = m]
    /\ pc' = [pc EXCEPT ![w] = "claim"]
    /\ UNCHANGED <<backendVars, orchVars, barrierRow, markers, bodies,
                   callbackVars, faults>>

\* Mutant: a lost claim goes on with the batch.
ClaimBatchAnyway(w) ==
    /\ pc[w] = "claim"
    /\ markers' = markers \cup {BatchOf(w)}
    /\ Goto(w, "check")
    /\ UNCHANGED <<backendVars, orchVars, barrierRow, inbox, bodies,
                   callbackVars, faults>>

\* claim_batch: a redelivery finds the marker and does nothing.
ClaimBatch(w) ==
    /\ pc[w] = "claim"
    /\ markers' = markers \cup {BatchOf(w)}
    /\ Goto(w, IF BatchOf(w) \in markers THEN "ack" ELSE "check")
    /\ UNCHANGED <<backendVars, orchVars, barrierRow, inbox, bodies,
                   callbackVars, faults>>

\* The commit of the marker is ambiguous; the task raises outside the wrap.
ClaimUnanswered(w) ==
    /\ pc[w] = "claim"
    /\ Fault
    /\ markers' = markers \cup {BatchOf(w)}
    /\ Leave(w)
    /\ UNCHANGED <<backendVars, orchVars, barrierRow, inbox, bodies,
                   callbackVars>>

\* _raise_if_execution_terminal; the decrement is bypassed for a skip.
CheckExecution(w) ==
    /\ pc[w] = "check"
    /\ Goto(w, IF exec \in Terminal THEN "ack" ELSE "start")
    /\ UNCHANGED <<backendVars, orchVars, barrierRow, markers, inbox, bodies,
                   callbackVars, faults>>

\* The best-effort EXECUTING write of _setup_execution_context, then the file
\* executions are created and work_fn runs.
StartWork(w) ==
    /\ pc[w] = "start"
    /\ \E new \in {exec, Guard(exec, "EXECUTING")} : SetStatus(new)
    /\ files' = [files EXCEPT ![BatchOf(w)] = "open"]
    /\ bodies' = [bodies EXCEPT ![BatchOf(w)] = @ + 1]
    /\ Goto(w, "work")
    /\ UNCHANGED <<orchVars, barrierRow, markers, inbox, callbackVars, faults>>

WorkReturns(w) ==
    /\ pc[w] = "work"
    /\ Goto(w, "decrement")
    /\ files' = [files EXCEPT ![BatchOf(w)] = "closed"]
    /\ UNCHANGED <<exec, ended, orchVars, barrierRow, markers, inbox, bodies,
                   callbackVars, faults>>

WorkRaises(w) ==
    /\ pc[w] = "work"
    /\ Goto(w, "mark")
    /\ UNCHANGED <<backendVars, orchVars, barrierRow, markers, inbox, bodies,
                   callbackVars, faults>>

\* _apply_decrement: one statement, serialised by the row lock.
Decremented(w) ==
    /\ remaining' = remaining - 1
    /\ results' = Append(results, BatchOf(w))
    /\ stale' = FALSE
    /\ UNCHANGED armed

\* The last of the header tasks sees zero; a replay goes past it.
Decrement(w) ==
    /\ pc[w] = "decrement"
    /\ armed
    /\ Decremented(w)
    /\ Goto(w, CASE remaining' > 0 -> "ack"
                 [] remaining' = 0 -> "fire"
                 [] OTHER -> "discard")
    /\ UNCHANGED <<backendVars, orchVars, markers, inbox, bodies, callbackVars,
                   faults>>

\* Past zero the row is deleted and nothing is fired.
Discard(w) ==
    /\ pc[w] = "discard"
    /\ \/ armed' = FALSE /\ Goto(w, "ack") /\ UNCHANGED faults
       \/ UNCHANGED armed /\ Goto(w, "mark") /\ Fault
    /\ UNCHANGED <<backendVars, orchVars, remaining, results, stale, markers,
                   inbox, bodies, callbackVars>>

\* The row is gone: torn down, or recovered by the reaper.
DecrementAbandoned(w) ==
    /\ pc[w] = "decrement"
    /\ ~armed
    /\ Goto(w, "ack")
    /\ UNCHANGED <<backendVars, orchVars, barrierRow, markers, inbox, bodies,
                   callbackVars, faults>>

\* The result of the batch is refused: json.dumps raises and the row stays,
\* or jsonb rejects it and the row is deleted on a best-effort basis. Either
\* way the wrap below comes next. No fault: it depends on the data alone.
DecrementRejected(w) ==
    /\ pc[w] = "decrement"
    /\ armed' \in {FALSE, armed}
    /\ Goto(w, "mark")
    /\ UNCHANGED <<backendVars, orchVars, remaining, results, stale, markers,
                   inbox, bodies, callbackVars, faults>>

\* Mutant: an ambiguous commit is retried on a new connection.
DecrementRetried(w) ==
    /\ pc[w] = "decrement"
    /\ Fault
    /\ armed
    /\ Decremented(w)
    /\ UNCHANGED <<backendVars, orchVars, markers, inbox, pc, msg, bodies,
                   callbackVars>>

\* The statement failed, or its commit was ambiguous: never re-applied.
DecrementFails(w) ==
    /\ pc[w] = "decrement"
    /\ Fault
    /\ (armed /\ Decremented(w)) \/ UNCHANGED barrierRow
    /\ Goto(w, "mark")
    /\ UNCHANGED <<backendVars, orchVars, markers, inbox, bodies,
                   callbackVars>>

\* _fire_barrier_callback, before the row is deleted.
Fire(w) ==
    /\ pc[w] = "fire"
    /\ callbacks' = Append(callbacks, results)
    /\ Goto(w, "delete")
    /\ UNCHANGED <<backendVars, orchVars, barrierRow, markers, inbox, bodies,
                   finished, faults>>

\* The dispatch raises, possibly after the server committed the message.
FireFails(w) ==
    /\ pc[w] = "fire"
    /\ Fault
    /\ callbacks' \in {callbacks, Append(callbacks, results)}
    /\ Goto(w, "mark")
    /\ UNCHANGED <<backendVars, orchVars, barrierRow, markers, inbox, bodies,
                   finished>>

\* The connection dies at the commit and PgQueueClient.send retries.
FireTwice(w) ==
    /\ pc[w] = "fire"
    /\ Fault
    /\ callbacks' = callbacks \o <<results, results>>
    /\ Goto(w, "delete")
    /\ UNCHANGED <<backendVars, orchVars, barrierRow, markers, inbox, bodies,
                   finished>>

\* Best-effort clean-up of the row, then of the markers, before the ack.
DeleteBarrier(w) ==
    /\ pc[w] = "delete"
    /\ \/ armed' = FALSE /\ UNCHANGED faults
       \/ UNCHANGED armed /\ Fault
    /\ Goto(w, "clear")
    /\ UNCHANGED <<backendVars, orchVars, remaining, results, stale, markers,
                   inbox, bodies, callbackVars>>

ClearMarkers(w) ==
    /\ pc[w] = "clear"
    /\ \/ markers' = {} /\ UNCHANGED faults
       \/ UNCHANGED markers /\ Fault
    /\ Goto(w, "ack")
    /\ UNCHANGED <<backendVars, orchVars, barrierRow, inbox, bodies,
                   callbackVars>>

\* The wrap of run_batch_with_barrier: ERROR first, then the teardown.
MarkError(w) ==
    /\ pc[w] = "mark"
    /\ SetStatus(Guard(exec, "ERROR"))
    /\ files' = IF exec = "COMPLETED" THEN files ELSE Cascade
    /\ Goto(w, "abort")
    /\ UNCHANGED <<orchVars, barrierRow, markers, inbox, bodies, callbackVars,
                   faults>>

\* Mutant: the row is torn down all the same.
MarkErrorIgnored(w) ==
    /\ pc[w] = "mark"
    /\ Fault
    /\ Goto(w, "abort")
    /\ UNCHANGED <<backendVars, orchVars, barrierRow, markers, inbox, bodies,
                   callbackVars>>

\* Not confirmed: the row is left for the reaper and the task raises.
MarkErrorFails(w) ==
    /\ pc[w] = "mark"
    /\ Fault
    /\ Leave(w)
    /\ UNCHANGED <<backendVars, orchVars, barrierRow, markers, inbox, bodies,
                   callbackVars>>

\* barrier_pg_abort with the markers preserved; the task raises.
Abort(w) ==
    /\ pc[w] = "abort"
    /\ \/ armed' = FALSE /\ UNCHANGED faults
       \/ UNCHANGED armed /\ Fault
    /\ Leave(w)
    /\ UNCHANGED <<backendVars, orchVars, remaining, results, stale, markers,
                   inbox, bodies, callbackVars>>

Ack(w) ==
    /\ pc[w] = "ack"
    /\ inbox' = [inbox EXCEPT ![msg[w]] = "acked"]
    /\ Leave(w)
    /\ UNCHANGED <<backendVars, orchVars, barrierRow, markers, bodies,
                   callbackVars, faults>>

WorkerCrashes(w) ==
    /\ pc[w] # "idle"
    /\ Fault
    /\ Leave(w)
    /\ UNCHANGED <<backendVars, orchVars, barrierRow, markers, inbox, bodies,
                   callbackVars>>

-----------------------------------------------------------------------------
(* Redelivery, and the aggregating callback.                               *)

Held(m) == \E w \in Worker : pc[w] # "idle" /\ msg[w] = m

\* The lease of a message nobody acked expires.
Redeliver(m) ==
    /\ inbox[m] = "taken"
    /\ ~Held(m)
    /\ inbox' = [inbox EXCEPT ![m] = "ready"]
    /\ UNCHANGED <<backendVars, orchVars, barrierRow, markers, pc, msg, bodies,
                   callbackVars, faults>>

\* ... while its worker still handles it.
RedeliverEarly(m) ==
    /\ inbox[m] = "taken"
    /\ Held(m)
    /\ Fault
    /\ inbox' = [inbox EXCEPT ![m] = "ready"]
    /\ UNCHANGED <<backendVars, orchVars, barrierRow, markers, pc, msg, bodies,
                   callbackVars>>

\* process_batch_callback: a duplicate of a COMPLETED execution is skipped,
\* otherwise the aggregated results decide the status; a callback that keeps
\* failing is dropped as poison, which writes ERROR.
HandleCallback ==
    /\ finished < Len(callbacks)
    /\ finished' = finished + 1
    /\ \E final \in Terminal : SetStatus(Guard(exec, final))
    /\ UNCHANGED <<files, orchVars, barrierRow, markers, workerVars, bodies,
                   callbacks, faults>>

\* The status is written and the message is not acked.
CallbackUnacked ==
    /\ finished < Len(callbacks)
    /\ Fault
    /\ \E final \in Terminal : SetStatus(Guard(exec, final))
    /\ UNCHANGED <<files, orchVars, barrierRow, markers, workerVars, bodies,
                   callbackVars>>

-----------------------------------------------------------------------------
Orchestrate ==
    \/ BeginOrchestration
    \/ Arm
    \/ DispatchHeader
    \/ AckOrchestration
    \/ RecordFailure

WorkerStep(w) ==
    \/ \E m \in Message : Take(w, m)
    \/ ClaimBatch(w)
    \/ CheckExecution(w)
    \/ StartWork(w)
    \/ WorkReturns(w)
    \/ WorkRaises(w)
    \/ Decrement(w)
    \/ Discard(w)
    \/ DecrementAbandoned(w)
    \/ DecrementRejected(w)
    \/ Fire(w)
    \/ DeleteBarrier(w)
    \/ ClearMarkers(w)
    \/ MarkError(w)
    \/ Abort(w)
    \/ Ack(w)

Faults ==
    \/ SetupFails
    \/ ArmFails
    \/ DispatchFails
    \/ RecordFailureLost
    \/ OrchestratorCrashes
    \/ CallbackUnacked
    \/ \E m \in Message : RedeliverEarly(m)
    \/ \E w \in Worker :
           \/ ClaimUnanswered(w)
           \/ DecrementFails(w)
           \/ FireFails(w)
           \/ FireTwice(w)
           \/ MarkErrorFails(w)
           \/ WorkerCrashes(w)

Next ==
    \/ Orchestrate
    \/ \E w \in Worker : WorkerStep(w)
    \/ \E m \in Message : Redeliver(m)
    \/ HandleCallback
    \/ Faults

Spec == Init /\ [][Next]_vars

-----------------------------------------------------------------------------
\* The types of the row, the markers, the messages and the workers; an
\* execution with a terminal status has ended (update_execution).
TypeOK ==
    /\ exec \in Terminal \cup {"EXECUTING"}
    /\ ended \in BOOLEAN
    /\ exec \in Terminal => ended
    /\ claim \in {"none", "fresh", "old"}
    /\ orch \in OrchStates
    /\ arming \in 0..MaxArmings
    /\ dispatched \in 0..NumBatches
    /\ stripped \in BOOLEAN
    /\ armed \in BOOLEAN
    /\ remaining \in Int
    /\ results \in Seq(Batch)
    /\ stale \in BOOLEAN
    /\ markers \in SUBSET Batch
    /\ inbox \in [Message -> RowStates]
    /\ pc \in [Worker -> WorkerStates]
    /\ msg \in [Worker -> Message]
    /\ files \in [Batch -> FileStates]
    /\ bodies \in [Batch -> Nat]
    /\ callbacks \in Seq(Seq(Batch))
    /\ finished \in Nat
    /\ faults \in Nat

(***************************************************************************)
(* A callback is enqueued with the result of every batch, each once        *)
(* ("requires ALL N header tasks to have decremented", pg_barrier.py:55).  *)
(* It is false of the code in two ways, which FanInIsComplete sets aside:  *)
(* a barrier that is armed again under its batches, and one whose fan-out  *)
(* failed half-way and left the row behind without its markers.            *)
(***************************************************************************)
CallbackCarriesEveryBatch ==
    \A i \in 1..Len(callbacks) :
        /\ Len(callbacks[i]) = NumBatches
        /\ \A b \in Batch : \E k \in 1..NumBatches : callbacks[i][k] = b

\* Armed once, and never left as a row whose markers were cleared.
Intact == arming <= 1 /\ ~stripped

(***************************************************************************)
(* The callback of an intact barrier carries the result of every batch,    *)
(* each once: no crash, redelivery, ambiguous commit, refused result,      *)
(* teardown or sweep, and no failed fan-out that dropped the row or kept   *)
(* the markers, lets the counter reach zero early or a batch count twice   *)
(* (claim_batch, _apply_decrement, _fire_barrier_callback).                *)
(***************************************************************************)
FanInIsComplete == Intact => CallbackCarriesEveryBatch

(***************************************************************************)
(* While an intact barrier still counts, no batch has been run twice: its  *)
(* marker survives crashes, raises and redeliveries until the barrier is   *)
(* done with (claim_batch, preserve_dedup_markers).                        *)
(***************************************************************************)
NoRerunWhileCounting ==
    Intact /\ armed /\ remaining > 0 => \A b \in Batch : bodies[b] <= 1
=============================================================================
