---------------------------- MODULE PgScheduler ----------------------------
(***************************************************************************)
(* One scheduled pipeline and its two possible firers. The tick of the     *)
(* leader reaper (pg_scheduler.py) scans pg_periodic_schedule and then     *)
(* handles the row in a transaction of its own; a save of the pipeline in  *)
(* the backend (scheduler/helper.py, tasks.py, ownership.py) writes the    *)
(* Beat PeriodicTask, the mirror row and the ownership of the schedule in  *)
(* three transactions; converge_pg_scheduler, run at every start of the    *)
(* backend, aligns the ownership with PG_SCHEDULER_ENABLED.                *)
(*                                                                         *)
(* A cron expression is a name. A value of next_run_at is the cron it was  *)
(* computed from, a serial number and the period it was written in; that   *)
(* now() has reached it is the variable due. Beat is seen as the enabled   *)
(* flag of its PeriodicTask. dispatch_due_periodic_tasks is the same code  *)
(* as dispatch_due_schedules over another table.                           *)
(***************************************************************************)
EXTENDS Integers

CONSTANTS
    Reaper,      \* processes that may be inside a leader's tick
    Cron,        \* cron expressions croniter accepts
    Bad,         \* one it rejects, such as the '' of a backfilled row
    None,        \* NULL, also: nothing read yet
    MaxValues,   \* bound on values of next_run_at
    MaxSaves,    \* bound on saves of the pipeline
    MaxDeploys,  \* bound on starts of the backend
    MaxFaults    \* bound on failed transactions and crashes

ASSUME ConstantAssumption ==
    /\ Bad \notin Cron
    /\ MaxValues \in Nat
    /\ MaxSaves \in Nat
    /\ MaxDeploys \in Nat
    /\ MaxFaults \in Nat

VARIABLES
    row,       \* the pg_periodic_schedule row: owned, enabled, cron, next
    due,       \* its next_run_at has been reached
    beat,      \* PeriodicTask.enabled
    active,    \* Pipeline.active
    gate,      \* PG_SCHEDULER_ENABLED of the running backend
    seen,      \* [Reaper -> the row as its tick scanned it, or None]
    save,      \* the save under way
    converge,  \* the converge command under way
    values,    \* values of next_run_at written so far
    fired,     \* [serial number -> messages enqueued for that value], history
    period,    \* times the row came under PG's control, history
    lost,      \* a write was computed from a row that had changed, history
    torn,      \* the last save failed part-way, history
    left,      \* values of next_run_at a save left as it could not tell what
               \* had become of them, history
    saves, deploys, faults

tickVars == <<seen, fired>>
saveVars == <<save, saves, active, torn, left>>
deployVars == <<converge, deploys, gate>>
vars == <<row, due, beat, tickVars, saveVars, deployVars, values, period, lost,
          faults>>

Serial == 1..MaxValues
InForce(r) == r.owned /\ r.enabled
SaveSteps == {"idle", "task", "read", "upsert", "reconcile"}

NoSave == [at |-> "idle", active |-> FALSE, cron |-> Bad, gate |-> FALSE,
           read |-> None, ok |-> TRUE]
NoConverge == [at |-> "idle", active |-> FALSE]

Init ==
    /\ gate \in BOOLEAN
    /\ active \in BOOLEAN
    /\ \E c \in Cron \cup {Bad} :
           row = [owned |-> gate, enabled |-> active, cron |-> c, next |-> None]
    /\ beat = (active /\ ~gate)
    /\ due = FALSE
    /\ seen = [r \in Reaper |-> None]
    /\ save = NoSave
    /\ converge = NoConverge
    /\ values = 0
    /\ fired = [n \in Serial |-> 0]
    /\ period = 0
    /\ lost = FALSE
    /\ torn = FALSE
    /\ left = {}
    /\ saves = 0
    /\ deploys = 0
    /\ faults = 0

Fault ==
    /\ faults < MaxFaults
    /\ faults' = faults + 1

-----------------------------------------------------------------------------
(* Writes of the row.                                                      *)

\* The row becomes new; a next_run_at that is new is not reached yet.
SetRow(new) ==
    /\ row' = new
    /\ due' = (due /\ new.next = row.next)
    /\ period' = IF InForce(new) /\ ~InForce(row) THEN period + 1 ELSE period

\* compute_next_run: a new value of next_run_at.
NextRun(c) == [cron |-> c, serial |-> values + 1, period |-> period]

NewValue ==
    /\ values < MaxValues
    /\ values' = values + 1

Parses(c) == c # Bad

-----------------------------------------------------------------------------
(* The tick.                                                               *)

TimePasses ==
    /\ row.next # None
    /\ ~due
    /\ due' = TRUE
    /\ UNCHANGED <<row, beat, tickVars, saveVars, deployVars, values, period,
                   lost, faults>>

Scan(r) ==
    /\ seen[r] = None
    /\ InForce(row)
    /\ row.next = None \/ due
    /\ seen' = [seen EXCEPT ![r] = row]
    /\ UNCHANGED <<row, due, beat, saveVars, deployVars, fired, values, period,
                   lost, faults>>

RowDone(r) == seen' = [seen EXCEPT ![r] = None]

Overtaken(r) == row.cron # seen[r].cron \/ row.next # seen[r].next

\* _quiesce_invalid_cron
Quiesce(r) ==
    /\ seen[r] # None
    /\ ~Parses(seen[r].cron)
    /\ SetRow([row EXCEPT !.enabled = FALSE])
    /\ lost' = (lost \/ Overtaken(r))
    /\ RowDone(r)
    /\ UNCHANGED <<beat, saveVars, deployVars, fired, values, faults>>

\* The UPDATE of next_run_at names the pipeline only: it overwrites whatever
\* is there now with the next match of the cron that was scanned.
Advance(r) ==
    /\ NewValue
    /\ SetRow([row EXCEPT !.next = NextRun(seen[r].cron)])
    /\ lost' = (lost \/ Overtaken(r))
    /\ RowDone(r)

\* First observation of a freshly owned row: recorded, not fired.
Baseline(r) ==
    /\ seen[r] # None
    /\ Parses(seen[r].cron)
    /\ seen[r].next = None
    /\ Advance(r)
    /\ UNCHANGED <<beat, saveVars, deployVars, fired, faults>>

Enqueue(r) == fired' = [fired EXCEPT ![seen[r].next.serial] = @ + 1]

\* Mutant: the message is committed before the advance, which then fails.
FireThenAdvance(r) ==
    /\ seen[r] # None
    /\ seen[r].next # None
    /\ Enqueue(r)
    /\ RowDone(r)
    /\ UNCHANGED <<row, due, beat, saveVars, deployVars, values, period, lost,
                   faults>>

\* The INSERT and the advance are one transaction.
Fire(r) ==
    /\ seen[r] # None
    /\ Parses(seen[r].cron)
    /\ seen[r].next # None
    /\ Enqueue(r)
    /\ Advance(r)
    /\ UNCHANGED <<beat, saveVars, deployVars, faults>>

\* The transaction is rolled back, or the reaper dies before it.
TickFails(r) ==
    /\ seen[r] # None
    /\ Fault
    /\ RowDone(r)
    /\ UNCHANGED <<row, due, beat, saveVars, deployVars, fired, values, period,
                   lost>>

-----------------------------------------------------------------------------
(* A save of the pipeline: an edit of the cron, a pause or a resume.       *)

GoTo(step) == save' = [save EXCEPT !.at = step]

\* The step failed: logged, and the save goes on.
Fails(step) ==
    /\ Fault
    /\ save' = [save EXCEPT !.at = step, !.ok = FALSE]
    /\ torn' = TRUE

BeginSave ==
    /\ save.at = "idle"
    /\ saves < MaxSaves
    /\ saves' = saves + 1
    /\ \E a \in BOOLEAN, c \in Cron :
           /\ active' = a
           /\ save' = [at |-> "task", active |-> a, cron |-> c, gate |-> gate,
                       read |-> None, ok |-> TRUE]
    /\ UNCHANGED <<row, due, beat, tickVars, deployVars, values, period, lost,
                   torn, left, faults>>

\* create_or_update_periodic_task
WriteTask ==
    /\ save.at = "task"
    /\ beat' = save.active
    /\ GoTo("read")
    /\ UNCHANGED <<row, due, tickVars, saves, active, torn, left, deployVars,
                   values, period, lost, faults>>

\* _next_run_at_for_upsert reads the row ...
ReadMirror ==
    /\ save.at = "read"
    /\ save' = [save EXCEPT !.at = "upsert", !.read = row]
    /\ UNCHANGED <<row, due, beat, tickVars, saves, active, torn, left,
                   deployVars, values, period, lost, faults>>

\* ... or cannot, or finds no match of the new cron: it is logged, and the
\* row is written all the same.
PlanFails ==
    /\ save.at = "read"
    /\ Fault
    /\ save' = [save EXCEPT !.at = "upsert", !.read = None]
    /\ UNCHANGED <<row, due, beat, tickVars, saves, active, torn, left,
                   deployVars, values, period, lost>>

HasRead == save.read # None
Planned == HasRead /\ save.read.next # None
Resumes == save.active /\ ~save.read.enabled
Edits == save.cron # save.read.cron

\* Mutant: a resume leaves the column alone.
PlanWithoutResume == IF Planned /\ Edits THEN NextRun(save.cron) ELSE row.next

\* Mutant: an edit of the cron leaves the column alone.
PlanWithoutRetarget == IF Planned /\ Resumes THEN None ELSE row.next

\* What becomes of next_run_at: it is cleared, retargeted or left.
Plan ==
    CASE Planned /\ Resumes -> None
      [] Planned /\ ~Resumes /\ Edits -> NextRun(save.cron)
      [] OTHER -> row.next

\* mirror_periodic_schedule_upsert
Upsert ==
    /\ save.at = "upsert"
    /\ SetRow([row EXCEPT !.cron = save.cron, !.enabled = save.active,
                          !.next = Plan])
    /\ IF Plan \in {None, row.next} THEN UNCHANGED values ELSE NewValue
    /\ lost' = (lost \/ (HasRead /\ ~Planned /\ row.next # None))
    /\ left' = IF HasRead \/ row.next = None THEN left
               ELSE left \cup {row.next.serial}
    /\ GoTo("reconcile")
    /\ UNCHANGED <<beat, tickVars, saves, active, torn, deployVars, faults>>

UpsertFails ==
    /\ save.at = "upsert"
    /\ Fails("reconcile")
    /\ UNCHANGED <<row, due, beat, tickVars, saves, active, left, deployVars,
                   values, period, lost>>

\* Mutant: Beat is not switched off by a hand-over.
OwnBoth(pg, a) ==
    /\ SetRow([row EXCEPT !.owned = pg,
                          !.next = IF pg /\ row.owned THEN @ ELSE None])
    /\ beat' = a

\* The transaction of reconcile_ownership_for; next_run_at is cleared by a
\* hand-over in either direction.
Own(pg, a) ==
    /\ SetRow([row EXCEPT !.owned = pg,
                          !.next = IF pg /\ row.owned THEN @ ELSE None])
    /\ beat' = (a /\ ~pg)

\* With the gate off only a row that PG still owns is written.
ReconcileOwnership(g, a) ==
    IF g \/ row.owned THEN Own(g, a) ELSE UNCHANGED <<row, due, period, beat>>

Reconcile ==
    /\ save.at = "reconcile"
    /\ ReconcileOwnership(save.gate, save.active)
    /\ save' = NoSave
    /\ torn' = (torn /\ ~save.ok)
    /\ UNCHANGED <<tickVars, saves, active, left, deployVars, values, lost,
                   faults>>

ReconcileFails ==
    /\ save.at = "reconcile"
    /\ Fault
    /\ save' = NoSave
    /\ torn' = TRUE
    /\ UNCHANGED <<row, due, beat, tickVars, saves, active, left, deployVars,
                   values, period, lost>>

SaveDies ==
    /\ save.at # "idle"
    /\ Fault
    /\ save' = NoSave
    /\ torn' = TRUE
    /\ UNCHANGED <<row, due, beat, tickVars, saves, active, left, deployVars,
                   values, period, lost>>

-----------------------------------------------------------------------------
(* A start of the backend, possibly under another PG_SCHEDULER_ENABLED.    *)
(* Saves of the process it replaces may still be under way.                *)

Deploy ==
    /\ converge.at = "idle"
    /\ deploys < MaxDeploys
    /\ deploys' = deploys + 1
    /\ gate' \in BOOLEAN
    /\ converge' = [NoConverge EXCEPT !.at = "read"]
    /\ UNCHANGED <<row, due, beat, tickVars, saveVars, values, period, lost,
                   faults>>

\* _reconcile_all visits every row, _release_stale those PG owns.
ConvergeRead ==
    /\ converge.at = "read"
    /\ converge' = IF gate \/ row.owned
                   THEN [at |-> "reconcile", active |-> row.enabled]
                   ELSE NoConverge
    /\ UNCHANGED <<row, due, beat, tickVars, saveVars, deploys, gate, values,
                   period, lost, faults>>

ConvergeReconcile ==
    /\ converge.at = "reconcile"
    /\ ReconcileOwnership(gate, converge.active)
    /\ lost' = (lost \/ converge.active # row.enabled
                     \/ (save.at # "idle" /\ converge.active # save.active))
    /\ converge' = NoConverge
    /\ UNCHANGED <<tickVars, saveVars, deploys, gate, values, faults>>

ConvergeFails ==
    /\ converge.at # "idle"
    /\ Fault
    /\ converge' = NoConverge
    /\ UNCHANGED <<row, due, beat, tickVars, saveVars, deploys, gate, values,
                   period, lost>>

-----------------------------------------------------------------------------
Tick(r) == Scan(r) \/ Quiesce(r) \/ Baseline(r) \/ Fire(r) \/ TickFails(r)

Save ==
    \/ BeginSave
    \/ WriteTask
    \/ ReadMirror
    \/ PlanFails
    \/ Upsert
    \/ UpsertFails
    \/ Reconcile
    \/ ReconcileFails
    \/ SaveDies

Convergence == Deploy \/ ConvergeRead \/ ConvergeReconcile \/ ConvergeFails

Next ==
    \/ TimePasses
    \/ \E r \in Reaper : Tick(r)
    \/ Save
    \/ Convergence

Spec == Init /\ [][Next]_vars

-----------------------------------------------------------------------------
RunTime == [cron : Cron, serial : Serial, period : Nat]
Row == [owned : BOOLEAN, enabled : BOOLEAN, cron : Cron \cup {Bad},
        next : RunTime \cup {None}]
SaveState == [at : SaveSteps, active : BOOLEAN, cron : Cron \cup {Bad},
              gate : BOOLEAN, read : Row \cup {None}, ok : BOOLEAN]
ConvergeState == [at : {"idle", "read", "reconcile"}, active : BOOLEAN]

\* The types of the schedule, of the tick, of a save and of a convergence; a
\* schedule is due only with a next_run_at (dispatch_due_schedules).
TypeOK ==
    /\ row \in Row
    /\ due \in BOOLEAN
    /\ due => row.next # None
    /\ beat \in BOOLEAN
    /\ active \in BOOLEAN
    /\ gate \in BOOLEAN
    /\ seen \in [Reaper -> Row \cup {None}]
    /\ save \in SaveState
    /\ save.at # "idle" => save.cron \in Cron
    /\ converge \in ConvergeState
    /\ values \in 0..MaxValues
    /\ fired \in [Serial -> Nat]
    /\ period \in Nat
    /\ lost \in BOOLEAN
    /\ torn \in BOOLEAN
    /\ left \subseteq Serial
    /\ saves \in Nat
    /\ deploys \in Nat
    /\ faults \in Nat

AtRest == save.at = "idle" /\ converge.at = "idle"
Firers == {f \in {"pg", "beat"} : IF f = "pg" THEN InForce(row) ELSE beat}

(***************************************************************************)
(* "A schedule is owned by exactly one firer" (scheduler/ownership.py:4):  *)
(* with no save or convergence under way, an active pipeline has one and a *)
(* paused one has none. Excused are a save that failed part-way, until a   *)
(* later one gets through, and a write based on a row that had changed.    *)
(***************************************************************************)
ExactlyOneFirer ==
    AtRest /\ ~torn /\ ~lost /\ row.cron # Bad =>
        \E f \in {"pg", "beat"} : Firers = IF active THEN {f} ELSE {}

(***************************************************************************)
(* No value of next_run_at is fired twice, whatever fails or dies during   *)
(* the tick and whatever is saved meanwhile ("a crash between them can't   *)
(* fire twice", pg_scheduler.py:11).                                       *)
(***************************************************************************)
FiresOnce == \A n \in Serial : fired[n] <= 1

(***************************************************************************)
(* A row under PG's control has no next_run_at from before it came under   *)
(* it, by a resume or a hand-over: such a value lies in the past and fires *)
(* at once (_next_run_at_for_upsert, reconcile_ownership_for). Excused are *)
(* a write based on a row that had changed, and the one value that a save  *)
(* left because it failed to read the row: it fires once, and no other     *)
(* after it.                                                               *)
(***************************************************************************)
NoCatchUpRun ==
    InForce(row) /\ row.next # None /\ ~lost
        => row.next.period = period \/ row.next.serial \in left

(***************************************************************************)
(* The next run of a schedule is a match of its present cron: an edit      *)
(* retargets it (_next_run_at_for_upsert), with the same two excuses. What *)
(* a save could not retarget fires at the old cron once.                   *)
(***************************************************************************)
NextRunFollowsCron ==
    row.next # None /\ ~lost
        => row.next.cron = row.cron \/ row.next.serial \in left

(***************************************************************************)
(* _next_run_at_for_upsert (scheduler/tasks.py:56) says without exception  *)
(* that a cron edit is retargeted to the new cron's next match, "else the  *)
(* scheduler fires once more at the stale old-cron time".                  *)
(***************************************************************************)
EditTakesEffect == row.next # None => row.next.cron = row.cron
=============================================================================
