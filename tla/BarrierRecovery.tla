-------------------------- MODULE BarrierRecovery --------------------------
(***************************************************************************)
(* PgBarrier composed with the three sweeps of the leader reaper that end  *)
(* executions nobody else will end: recover_expired_barriers, for a        *)
(* barrier that made no progress, sweep_orphan_claims, for an              *)
(* orchestration claim without a barrier (both reaper.py), and the         *)
(* backend's recover_stuck_pg_executions. The first two read the status of *)
(* the execution over HTTP, re-check their row, write ERROR over HTTP and  *)
(* delete their row under the same predicate: four steps, between which    *)
(* orchestrators, workers and callbacks move on.                           *)
(***************************************************************************)
EXTENDS PgBarrier

VARIABLES
    sweep,   \* which sweep is under way: none, barrier or claim
    step     \* its next step: scan, status, recheck, mark, delete

reaperVars == <<sweep, step>>
allVars == <<vars, reaperVars>>

Sweeps == {"none", "barrier", "claim"}
Steps == {"scan", "status", "recheck", "mark", "delete"}

RecoveryInit ==
    /\ Init
    /\ sweep = "none"
    /\ step = "scan"

Stranded == armed /\ stale                \* _STRANDED_PREDICATE

\* Mutant: only the claims of ended executions are looked at.
OrphanedTombstone == claim = "old" /\ ~armed /\ exec \in Terminal

Orphaned == claim = "old" /\ ~armed       \* _orphan_claim_where
Matches(s) == IF s = "barrier" THEN Stranded ELSE Orphaned

\* Mutant: the next row would be resumed half-way.
EndSweepHere == sweep' = "none" /\ UNCHANGED step

EndSweep == sweep' = "none" /\ step' = "scan"
NextStep(s) == step' = s /\ UNCHANGED sweep

-----------------------------------------------------------------------------
(* Time: no decrement for the stuck timeout, or expires_at has passed; the *)
(* claim is older than the stuck timeout.                                  *)

BarrierGoesStale ==
    /\ armed
    /\ ~stale
    /\ stale' = TRUE
    /\ UNCHANGED <<backendVars, orchVars, armed, remaining, results, markers,
                   workerVars, bodies, callbackVars, faults, reaperVars>>

ClaimGrowsOld ==
    /\ claim = "fresh"
    /\ claim' = "old"
    /\ UNCHANGED <<backendVars, orch, arming, dispatched, stripped, barrierRow,
                   markers, workerVars, bodies, callbackVars, faults,
                   reaperVars>>

-----------------------------------------------------------------------------
(* A sweep, for the one row of this execution.                             *)

Scan(s) ==
    /\ sweep = "none"
    /\ Matches(s)
    /\ sweep' = s
    /\ step' = "status"
    /\ UNCHANGED vars

\* _execution_status; an unreadable status ends the sweep of this row.
ReadStatus ==
    /\ step = "status"
    /\ NextStep(IF exec \in Terminal THEN "delete" ELSE "recheck")
    /\ UNCHANGED vars

\* _still_stranded, _claim_still_orphan
Recheck ==
    /\ step = "recheck"
    /\ IF Matches(sweep) THEN NextStep("mark") ELSE EndSweep
    /\ UNCHANGED vars

MarkStranded ==
    /\ step = "mark"
    /\ SetStatus(Guard(exec, "ERROR"))
    /\ files' = IF exec = "COMPLETED" THEN files ELSE Cascade
    /\ NextStep("delete")
    /\ UNCHANGED <<orchVars, barrierRow, markers, workerVars, bodies,
                   callbackVars, faults>>

\* The row goes only if it still matches; a barrier takes the markers along.
DeleteRow ==
    /\ step = "delete"
    /\ IF ~Matches(sweep)
       THEN UNCHANGED <<armed, markers, claim>>
       ELSE IF sweep = "barrier"
            THEN armed' = FALSE /\ markers' = {} /\ UNCHANGED claim
            ELSE claim' = "none" /\ UNCHANGED <<armed, markers>>
    /\ EndSweep
    /\ UNCHANGED <<backendVars, orch, arming, dispatched, stripped, remaining,
                   results, stale, workerVars, bodies, callbackVars, faults>>

\* The API is down, or the reaper dies or loses the database.
SweepFails ==
    /\ sweep # "none"
    /\ Fault
    /\ EndSweep
    /\ UNCHANGED <<backendVars, orchVars, barrierRow, markers, workerVars,
                   bodies, callbackVars>>

-----------------------------------------------------------------------------
\* recover_stuck_pg_executions: one transaction of the backend finalizes an
\* execution whose file executions are all terminal and whose rows have not
\* moved for the stuck timeout. It looks at no queue and no barrier.
FinalizeStuck ==
    /\ exec \notin Terminal
    /\ \E b \in Batch : files[b] = "closed"
    /\ \A b \in Batch : files[b] # "open"
    /\ \E final \in Terminal : SetStatus(final)
    /\ UNCHANGED <<files, orchVars, barrierRow, markers, workerVars, bodies,
                   callbackVars, faults, reaperVars>>

SweepStep == ReadStatus \/ Recheck \/ MarkStranded \/ DeleteRow
Sweep == Scan("barrier") \/ Scan("claim") \/ SweepStep
TimePasses == BarrierGoesStale \/ ClaimGrowsOld

RecoveryNext ==
    \/ Next /\ UNCHANGED reaperVars
    \/ Sweep
    \/ SweepFails
    \/ FinalizeStuck
    \/ TimePasses

RecoverySpec == RecoveryInit /\ [][RecoveryNext]_allVars

(***************************************************************************)
(* Fairness. Consumers loop and are replaced, the queue redelivers what is *)
(* not acked, the callback has a consumer, timeouts elapse and the leader  *)
(* ticks: a stranded barrier that stays so is scanned, whatever the claim  *)
(* sweep does meanwhile. No fault is fair.                                 *)
(***************************************************************************)
RecoveryFairness ==
    /\ WF_allVars(Orchestrate /\ UNCHANGED reaperVars)
    /\ \A w \in Worker : WF_allVars(WorkerStep(w) /\ UNCHANGED reaperVars)
    /\ \A m \in Message : WF_allVars(Redeliver(m) /\ UNCHANGED reaperVars)
    /\ WF_allVars(HandleCallback /\ UNCHANGED reaperVars)
    /\ WF_allVars(BarrierGoesStale)
    /\ WF_allVars(ClaimGrowsOld)
    /\ WF_allVars(Sweep)
    /\ WF_allVars(FinalizeStuck)

FairRecoverySpec == RecoverySpec /\ RecoveryFairness

-----------------------------------------------------------------------------
\* The types; and a sweep of the reaper has a step exactly while it is on
\* (tick runs its duties one after the other).
RecoveryTypeOK ==
    /\ TypeOK
    /\ sweep \in Sweeps
    /\ step \in Steps
    /\ (sweep = "none") = (step = "scan")

\* A worker whose result was refused goes on to write ERROR.
AboutToMark == \E w \in Worker : pc[w] = "decrement" /\ pc'[w] = "mark"

(***************************************************************************)
(* The barrier row is what recover_expired_barriers finds a run by. Nobody *)
(* deletes it from under a run that is not accounted for: whoever does     *)
(* finds it ended or its callback enqueued, or goes on to write ERROR, as  *)
(* the orchestrator of a failed fan-out or the worker whose result was     *)
(* refused (the order of the except branch of run_batch_with_barrier, of   *)
(* _barrier_pg_decrement and of _recover_one_barrier). That worker's mark  *)
(* may fail with the row gone: here "the caller must leave the barrier     *)
(* row" of _mark_execution_error_on_abort is false of the code.            *)
(***************************************************************************)
TeardownIsAccounted ==
    [][Intact /\ armed /\ ~armed' =>
           \/ ended \/ callbacks # <<>>
           \/ orch' = "failing" \/ AboutToMark]_allVars

(***************************************************************************)
(* A run that nobody is left to end keeps its orchestration claim: when    *)
(* the orchestration was acked and the execution was never ended, the      *)
(* claim row still leads sweep_orphan_claims to it (its deletion comes     *)
(* after the ERROR write or a terminal status, in _recover_one_claim and   *)
(* on the failure path of async_execute_bin_general).                      *)
(***************************************************************************)
ClaimOutlivesRun ==
    orch = "acked" /\ ~ended => claim # "none"

(***************************************************************************)
(* Every execution ends, through crashed workers and orchestrators, lost   *)
(* status writes, and late or repeated messages. That it then stays ended  *)
(* is not claimed: a batch past its terminal guard may write EXECUTING.    *)
(***************************************************************************)
EveryExecutionEnds == <>(exec \in Terminal)
=============================================================================
