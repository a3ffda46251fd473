# Unstract's execution protocols in TLA+

Unstract runs document workflows. A user's run ("execution") is started by the Django backend or the API, split
into file batches by an orchestration worker, processed by file workers in parallel, and aggregated by a callback
worker. These modules are about the protocols on the way that the repository builds itself:

* the engine: a queue, a barrier, a scheduler and a leader-elected reaper on Postgres tables
  (`src/workers/queue_backend/`), and the request-reply calls made over that queue;
* the way in: the rate limiter of API deployments, the dispatch of an execution and the sweeps that end what a
  request left behind (`src/backend/api_v2/`, `src/backend/workflow_manager/`);
* the way out: the guards that keep two executions, or two deliveries of one batch, from writing a file twice
  (`src/workers/shared/`, `src/workers/file_processing/`).

All paths below are relative to `src/`.

## 1. Inventory

### Components, their state, their operations

| component | state | operations |
|---|---|---|
| Queue client, `workers/queue_backend/pg_queue/client.py` | table `pg_queue_message`: `msg_id`, `state` (scheduled/ready/claimed), `vt`, `available_at`, `read_ct`, `priority`, payload | `send` (one reconnect-retry), `read` (claim), `set_vt`, `delete` (ack) |
| Queue consumer, `pg_queue/consumer.py` | the claimed batch, a renewal thread | poll, resolve (malformed/poison/unknown), run with lease renewal, store a reply, chain a continuation, drop poison, re-park, ack |
| Reaper, `pg_queue/reaper.py` | none but its lease | per tick: recover barriers, re-arm expired claims, promote scheduled rows, fire schedules, sweeps of orphan claims, stuck executions, retention |
| Leader election, `pg_queue/leader_election.py` | row `pg_orchestrator_lock`: leader, acquired_at | `try_acquire`, `renew`, `release` |
| Barrier, `queue_backend/pg_barrier.py` | `pg_barrier_state` (remaining, results, last progress, expiry), `pg_batch_dedup` markers, `pg_orchestration_claim` | arm and dispatch, claim batch, decrement, fire callback, abort |
| Orchestrators, `workers/general/tasks.py`, `workers/api-deployment/tasks.py` | the execution's claim (general only) | claim, guard, prepare files, hand over to the barrier, record a failure |
| File worker, `workers/file_processing/tasks.py` | file executions | terminal guard, EXECUTING write, file pipeline |
| Callback worker, `workers/callback/tasks.py` | - | final status, duplicate skip, notifications |
| Backend status, `backend/workflow_manager` | `WorkflowExecution.status`, `FileExecution.status` | guarded update, terminal file cascade, `recover_stuck_pg_executions`, `sweep_undispatched_executions` |
| Producer, `backend/pg_queue/producer.py` | - | `enqueue_task` with or without delay |
| Scheduler, `pg_queue/pg_scheduler.py` | `pg_periodic_schedule`, `pg_periodic_task` | fire and advance in one transaction, baseline, disable on a bad cron |
| Schedule saves and ownership, `backend/scheduler/`, `backend/pg_queue/management/commands/` | the same rows, Beat's `PeriodicTask.enabled`, `Pipeline.active`, `PG_SCHEDULER_ENABLED` | save of a pipeline (task, mirror row, ownership: three transactions), convergence at the start of the backend |
| Executor RPC, `pg_queue/result_backend.py`, `executor_rpc.py` | `pg_task_result`, a Redis ready-token | store (first write wins), wait, forget |
| Discovery and active-file guard, `workers/shared/processing/filter_pipeline.py`, `shared/workflow/execution/active_file_manager.py` | Redis marker `file_active:...`, file history | history filter, active-file filter, mark, pre-create, clean up |
| File delivery, `workers/shared/workflow/execution/service.py`, `destination_connector.py`, `unstract/core` tracker | file execution record, Redis stage tracker, Redis destination lock, file history | validate, run tools, duplicate check, write guard, lock, write, record history, report |
| API requests, `backend/api_v2/deployment_helper.py`, `workflow_v2/workflow_helper.py` | execution row with `dispatched_at` and `queue_message_id`, staged input | create, stage, dispatch, stamp, record handle, answer, error paths |
| Rate limiter, `backend/api_v2/rate_limiter.py` | a ZSET per organization and a global one, a Redis lock per organization | `check_and_acquire`, `release_slot` |
| Undispatched sweep, `workflow_v2/undispatched_sweep.py` | - | claim, release the slot |
| Supervisor, `workers/pg_queue_consumer/supervisor.py` | child processes | fork, restart, drain |

The rest of the repository (frontend, connectors, SDK, prompt studio, platform and text-extraction services, tool
runner, notification and log workers, CRUD apps) is request/response code or I/O adapters. `PROJECT.json` lists every
part with the reason it is left out.

### How they interact

```
 backend / scheduler --enqueue--> pg_queue_message --claim--> consumer --runs--> orchestrator
                                      ^    ^   |                                     |
        reaper: re-arm, promote ------+    |   +--claim--> file worker   <--headers--+ arms pg_barrier_state
                                           |                   | decrement
                                           +---callback--------+ (last one)
 callback worker --HTTP--> backend status <--HTTP-- reaper recovery, abort path, poison drop

 API request --slot--> rate limiter          discovery --filter, mark--> Redis marker --> file worker
   +-- row, input, message, stamp, handle      file worker --lock--> destination --> history --> record, tracker
```

Everything is at-least-once: a row is handed out under a short lease that a thread renews, so every consumer must
expect to be a zombie; every INSERT or counter update can commit without its answer; HTTP status writes can be lost;
processes die between any two statements. Against that the code has: `read_ct` as a delivery number, dedup markers per
batch, an orchestration claim, a counter that only the last decrement takes to zero, "mark ERROR before you delete the
recovery handle", guarded status updates, and sweeps that find what nobody else will end.

### What makes each part correct

* Queue: no message lost, bounded runs, one lease holder per row, an answer for each call, every message settles.
* Lease: a live worker keeps its claim; a dead one's is freed in bounded time.
* Leader: two reapers act together only after a tick longer than the lease; leadership is never lost for good.
* Barrier: the callback aggregates every batch exactly once; no batch re-runs while the barrier counts.
* Recovery: a handle on a run goes only when the run is ended, handed on or about to be marked; every execution ends.
* RPC: a caller returns, with the first outcome, and never calls late what came in time.
* Files: one execution delivers a file, one worker at a time; success is said of delivered files only; none is left
  to nobody.
* API: limits are exceeded by what the locks allow and no more; nobody takes the slot or the input of a run but whoever
  the properties name; an execution that has not ended has a run or a sweep.
* Scheduler: one firer per schedule, no occurrence fired twice, none from before a resume fired late, and the next run
  follows the cron.

The hazards behind these, each at the line where it bites, are the list `hazards` of `PROJECT.json`.

## 2. Modules

| module | models | how it corresponds |
|---|---|---|
| `WorkQueue` | what the queue promises its producers | abstract: submit, deliver, run, finish, settle; no consumer, lease or sweep |
| `PgQueue` | client, consumer, and the two delivery sweeps of the reaper | one action per branch of `_resolve_runnable_task`, `_handle`, `_drop_poison_message`; `phase[c]` is where consumer `c` is in `_handle`; `due[r]` is `vt <= now()` (or `available_at`); `INSTANCE WorkQueue` at the end gives the refinement |
| `ExecutorRpc` | extends `PgQueue` with the blocking callers of a dispatch, the result table, forget and retention | `caller[j]` is where `dispatch` is in its wait; `QueueStep` is every step of the queue that stores no reply, `StoreReply` the one that does |
| `LeaseRenewal` | one claim with real clocks: consumer, renewal thread, `set_vt`, re-arm sweep | `thread` is the state of `_renew_lease_loop`; justifies the one-bit abstraction of `PgQueue` |
| `ReaperLeadership` | the lock row and the tick of several reapers | `pc[p]` is where `p` is in `tick`; the duties in their order |
| `PgBarrier` | one execution: orchestrator, barrier row, markers, batch messages, workers, callback, status | `pc[w]` follows `run_batch_with_barrier` statement group by statement group |
| `BarrierRecovery` | extends `PgBarrier` with the barrier sweep, the orphan-claim sweep and the stuck-execution recovery | a sweep is scan, status read, re-check, mark, delete, so that everything can happen in between |
| `ActiveFiles` | one source file and several executions: discovery's filters, the marker, pre-creation | `scan[e]` is how far discovery of execution `e` is, `step[w]` where the worker of a batch is |
| `FileDelivery` | extends `ActiveFiles` with what a worker does with the file | one action per step of `process_file` and `execute_workflow_for_file`; `note[w]` is the local it carries to the next one |
| `ApiAdmission` | the requests of API deployments, their runs and the sweeps | `pc[r]` is where the thread of request `r` is, `job[r][d]` where delivery `d` of its message, a run of its own, is; `stamped` and `handled` are the two columns the sweeps select by |
| `PgScheduler` | one schedule: the tick of the leader, saves of the pipeline, convergence of a starting backend | `seen[r]` is the row as `dispatch_due_schedules` scanned it; `save.at` is the transaction a save does next; `converge.at` the step of `converge_pg_scheduler` |
| `MC*` | TLC instances | values of constants, symmetry |
| `*_proofs` | theorems | section 5 |

Definitions whose comment starts with "Mutant" are not part of a model: each is its neighbour with a plausible bug in
it, kept to show that a property notices that bug.

### Abstractions worth knowing

* **Payloads** are model values with a kind (leaf, pipeline, rpc, callback), a shape and a priority. A pipeline message
  without an organisation behaves as a leaf (`UNMARKABLE`). A callback dispatch has both continuations, as its
  producers give it. A message on several queues is not distinguished; a consumer that polls several queues polls them
  in turn and behaves as one that polls each.
* **Time in `PgQueue`** is one bit per row. A lease may lapse at any moment except while a live consumer runs the body
  under a working renewal thread: before the run (resolution), after the join of the thread (storing, chaining,
  acking), during poison handling and in the tail of a batch nothing protects it, and the model lets it lapse.
* **Terminal statuses** in `PgBarrier`: `COMPLETED` stands for the statuses the guarded update protects (`STOPPED`, set
  by a user, is the other one and has no action), `ERROR` for the one it lets be overwritten.
* **`ended`** is a history variable of `PgBarrier`: the execution was terminal at some time. A batch that passed its
  terminal guard may write EXECUTING over ERROR after the recovery handles of the run are gone, and nobody ends the
  run again when it then dies. The repository does not say that an ended run stays ended, so the recovery
  properties speak of its first end.
* **`Guarded`** is `TRUE` for the general orchestrator and `FALSE` for the API one, which takes no claim. A message
  without a `queue_message_id` is the unguarded case too.
* **Stuck timeouts** are untimed: a barrier may look stranded, and a claim old, whenever it exists. This covers every
  relation between the timeouts and the length of a run, including runs longer than the timeout.
* **A schedule in `PgScheduler`** is one row. A cron expression is a name and a value of `next_run_at` the name it was
  computed from, a serial number and the period of PG control it was written in; the bit `due` says that it was
  reached. Beat is seen only as the enabled flag of its task. Saves follow each other; a save of the old backend
  process may overlap the convergence of the new one.
* **`lost` and `torn`** are histories that excuse `PgScheduler`'s properties, not steps. `lost`: some transaction
  wrote what it had computed from a row that had changed since; run `ScheduleLostEdit` shows what follows from it.
  `torn`: a save failed or died part-way and no later one got through. While a save is under way, and for as long as
  it is torn, a schedule that PG owns may have Beat enabled as well, although `backend/scheduler/ownership.py` calls
  the two exclusive.
* **The Redis wake-up of a reply** in `ExecutorRpc` is not a variable: a `BLPOP` may end at any moment, as it does by a
  token or by its own timeout. The deadline of a caller is one bit, `late[j]`. `result` is the outcome recorded first,
  `stored` what the table holds of it now, which forget and retention take away.
* **The retry of a `send`** whose INSERT had committed comes after a back-off, so it may follow the claim, the run or
  the ack of the first row. It is made once. A payload that was scheduled and then promoted is retried as well in the
  model, though the producer that schedules (the backend's) does not retry.
* **Faults in `ExecutorRpc`'s callers, `ActiveFiles`, `FileDelivery` and `ApiAdmission`** are a set of kinds, so that
  a property can name those that excuse it. In the last three `MaxFaults` bounds the kinds, not the occurrences: one
  kind may strike anywhere and any number of times. In `ApiAdmission` a lapse is bounded by `MaxDeliveries` instead.
* **`FileDelivery` has one file** per execution and both transports: `pg` is the set of executions on the Postgres
  queue, whose batch is claimed once and whose write is guarded. Celery is the legacy one. A delivery that fails before
  its tools (`service.py:155` to `:191`) carries the note "setup", one whose tools or destination fail "failed"; only
  the second leaves a trace that file history looks at. `metadata` are the executions that have a METADATA.json: the
  tool step creates it (`service.py:949`), the destination cannot do without it. Left out: the limit on executions per
  file of file history, the loading of what an earlier attempt left, the tracker stage TOOL_EXECUTION, files without a
  provider uuid, API deployments. The marker and the database are read in two steps, as they are by the filter and by
  the check before pre-creation; `ahead[f]` are the executions that had marked the file when `f` looked for their
  marker, and two that both looked too early are a `Crossing`.
* **`ApiAdmission`** takes the grace period of the sweep to be longer than a request is in transit and the TTL of a
  slot longer than a run. Fan-out and batches are the step "working" (`PgBarrier` has them, and what two runs of one
  execution do to each other in the barrier), the callback is "called" and "closing". The message may be read again at
  any time after the first delivery, also after the callback, until it is settled; each delivery runs, since the
  orchestrator does not look at the status. A slot is released with the commit of the status it follows. `STOPPED`, the
  cache of limits and a lock that was set without an answer are left out.
* **`left`** is the third excuse, for single values of `next_run_at`: a save that cannot read the mirror row, or finds
  no match of the new cron, writes the row all the same and leaves the value (`scheduler/tasks.py:104`, deliberately).
  The value may lie in the past or belong to the old cron; it fires once, and the tick then goes on with the new cron.
* **Failed clean-ups** cost one fault each; the two of a failed fan-out are paid with the dispatch that failed, since
  one outage of the database fails all three.

## 3. Runs

| run | instance | shows |
|---|---|---|
| `PgQueueWorkflow` | 2 consumers, 2 rows, batches of 2 under the long lease; a leaf and a more urgent callback dispatch; 1 attempt, re-park budget 1, 1 fault | `OutcomeSurfaced`, `BoundedRuns`, `SoleLeaseHolder` |
| `PgQueueContract` | pipeline and unknown task, short lease, configured batch of 2, fair | `NoSilentLoss`, `EveryMessageSettles`, `ImplementsContract` (refinement of `WorkQueue`), `TailKeepsItsLease` |
| `ExecutorRpc` | 1 consumer, 2 rows for one request-reply dispatch, which the retry of its send may fill both; 2 attempts, 2 faults, fair | `ReplyIsFirstOutcome`, `AnswerInTimeIsReturned`, `ConsumedPayloadStaysScrubbed`, `OutcomeSurfaced`, `EveryCallerReturns` |
| `BarrierSafety` | 2 batches, 2 workers, guarded, armed once; 1 fault and all sweeps, or 2 faults and no sweep of the reaper | types, `FanInIsComplete`, `NoRerunWhileCounting`, `ClaimOutlivesRun`, `TeardownIsAccounted` |
| `BarrierLiveness` | 1 batch, 2 workers, 2 faults, fair | `EveryExecutionEnds` |
| `FileDelivery` | 2 executions, 2 workers, one file, either transport for each, 1 kind of fault | `OneExecutionDelivers`, `WritersExcludeEachOther`, `SuccessMeansDelivered`, `FileIsHandled`, `NoFileLeftActive` |
| `ApiAdmission` | 2 requests, 2 organizations with limits 1 and 2, global limit 1, one delivery each, or 1 request with 3 deliveries; lapses and 1 other kind of fault | `OrgOvershootBounded`, `GlobalOvershootBounded`, `LiveRunKeepsItsSlot`, `EndedRunFreesItsSlot`, `NotStartedIsTrue`, `InputOutlivesRun`, `EveryExecutionIsSwept` |
| `LeaseHeld` | lease 12 s, calls of up to 1 s, one connection death in a row, sweep every 3 s | `LiveClaimHeld`, `DeadClaimFreed` |
| `LeaderLease` | 3 reapers, lease of 2 ticks, 3 faults, fair | `SoleActor`, `NoEarlyTakeover`, `RecoveryRecurs` |
| `ScheduleOwnership` | one leader, two crons and a bad one, 3 saves, 1 start of the backend, 2 faults, 3 values of `next_run_at` | `ExactlyOneFirer`, `FiresOnce`, `NoCatchUpRun`, `NextRunFollowsCron` |
| `BarrierRearm` | unguarded orchestrator, redelivered | **violates** `CallbackCarriesEveryBatch` |
| `ScheduleLostEdit` | one save against one tick, no fault | **violates** `EditTakesEffect` |

The type invariants are theorems (section 5), so the runs do not repeat them, but for `BarrierSafety`: the sweeps of
the reaper are the one place where a type is a protocol (a sweep has a step exactly while it is on).

Deadlock is not checked where the system may stop: the queue, the callers, the barrier, the file and the requests when
all is settled, the lease model when its clock reaches `Horizon`, the scheduler when the bound on `next_run_at` values
is used up. `LeaderLease` checks it.

### The violations

* *BarrierRearm.* The API orchestrator takes no orchestration claim. Redelivered while its first fan-out runs, it
  re-arms the counter and wipes the markers; both copies of one batch decrement, and the callback aggregates one batch
  twice and another never.
* *ScheduleLostEdit.* A save reads the mirror row in one transaction and writes it in another, and the tick advances
  the row by the pipeline's name alone. When one falls between the two steps of the other, the edited schedule keeps
  a next run of its old cron.

### Deviations without a run

What else the models do that a document or a comment says the code does not. The properties exclude each by naming it,
so that they show there is nothing beside it.

Barriers:

* After a failed fan-out the row and the markers are deleted independently (`pg_barrier.py:742`). If the delete of the
  row fails and that of the markers does not, a header that was dispatched and is delivered again claims its marker
  anew and counts twice, and the counter, which "can't reach 0" (`pg_barrier.py:718`), can: the callback then lacks the
  batch that was never dispatched. `FanInIsComplete` and `NoRerunWhileCounting` set such a barrier aside (`stripped`),
  and only such a one: the other results of a failed fan-out and of its clean-up are in. TLC shows it in `BarrierRearm`
  with `Guarded = TRUE`, `MaxArmings = 1` and `MaxFaults = 2`.
* When jsonb refuses the result of a batch, `_barrier_pg_decrement` deletes the row and raises (`pg_barrier.py:1093`);
  the wrap then tries to mark the execution ERROR. If that fails, the run is EXECUTING without a row, although the
  caller "must leave the barrier row so the reaper recovers it" (`:1291`). The claim of a guarded orchestrator still
  leads a sweep to the run; an unguarded one has the stuck recovery only. `TeardownIsAccounted` says what is left:
  whoever deletes the row goes on to try the mark.

Recovery:

* The claim sweep reads "old claim, no barrier row" as a crash before arming (`reaper.py:736`, `:812`). A run longer
  than the timeout whose fan-in completed looks the same until its callback ran, and is marked ERROR.
* The stuck recovery looks at existing file executions (`internal_views.py:736`, `:754`); a batch that still waits in
  the queue has none, so the execution is completed without it.

Files:

* A failure before the tools leaves `_last_execution_error` unset. The destination then writes an error record, if an
  earlier delivery of the same execution left a METADATA.json (without one the destination itself fails and history is
  ERROR), and the entry of file history is COMPLETED (`service.py:1627`). The write guard takes that for a file already
  written (`:1374`). `SuccessMeansDelivered` excepts history in that case (`Misrecorded`; without it TLC finds the
  entry with no fault at all), `NoFileLeftActive` the records of the executions that then believe it.
* Two executions that both pass the filter before either has marked the file both process it: pre-creation stops at
  the execution's own marker and does not look at the database (`file_processing/tasks.py:1304` calls it a double
  safeguard). The clean-up of one of the two removes the marker whoever set it, so that a
  third execution, which looked after the first had marked the file, may take it as well. `OneExecutionDelivers`
  excludes both by `~Crossing`: if any two executions that took the file crossed, it promises nothing of a third.
* A crossing, or a marker that was lost or overlooked, can leave a file that each delivery refuses for the other, when
  one of several executions has its batch delivered again (the exception in `FileIsHandled`).
* A worker that cannot read the tracker while it prepares its file drops the file (`file_processing/tasks.py:1403`,
  caught at `:1464`): it is in no batch, its record is not PENDING, and nothing says so (`FileIsHandled` excludes the
  fault "lookup"). A workflow without a destination, or one that was never read, fails the file without an entry in
  file history.
* A delivery that is skipped as a duplicate writes no status (`tasks.py:951`); if the other one did not end this
  record, because it belongs to another execution, the record stays EXECUTING (`NoFileLeftActive`).
* `processor.py:531` writes EXECUTING over whatever is there, so a late delivery reopens a COMPLETED record.
* Over Celery two deliveries of one batch may both write, one after the other, since the write guard is for the
  Postgres queue; and a delivery whose tools failed writes an error after the data of the other.
* A comment at `destination_connector.py:493` says of a lock that went while a worker waited that "Other worker
  finished". It also goes when its TTL ends after its holder died, and the waiter then skips a file nobody wrote. This
  takes two deliveries of a batch, so it is Celery's too.

Schedules:

* A save that fails to read the mirror row leaves the old `next_run_at` and enables or edits the row all the same
  (`scheduler/tasks.py:104`, which says so at `:85`). After a resume the value fires at once, after an edit at a time
  of the old cron: once, as `NoCatchUpRun` and `NextRunFollowsCron` show for everything but the values in `left`.

API deployments:

* The error paths pass the organization's instance to `release_slot`, not its id (`api_deployment_views.py:145`,
  `deployment_helper.py:296` and `:355`, `mcp_server/tools/execution.py:224`). The key of the organization's set never
  matches, so a request that fails before its row ends keeps its slot there for the TTL of six hours, although
  `docs/API_DEPLOYMENT_RATE_LIMITING.md:99` says "Guaranteed cleanup on all error paths". The status write that
  releases by id covers the others (`EndedRunFreesItsSlot`).
* A status write to a row without a handle saves every column as it was read (`models/execution.py:447`). One that
  read the row before `mark_dispatched` puts `dispatched_at` back to NULL, which the docstring of `mark_dispatched`
  says must not happen. With a failed handle and a lost final status, no sweep selects the run.
* A request that fails after its dispatch deletes the input of the run it started and frees its global slot
  (`deployment_helper.py:355`; `InputOutlivesRun`, `LiveRunKeepsItsSlot`).
* The API callback deletes the staged input when it is through (`callback/tasks.py:1774`). A message whose ack was lost
  is then read again and orchestrated without its input (`InputOutlivesRun` excepts an execution that has another run
  that was called back), and either run releases the slot under the other (`LiveRunKeepsItsSlot` speaks of messages
  delivered once).
* An INSERT that commits without an answer is reported as ERROR while the run goes on. The API orchestrator does not
  look at the status and revives an ended row, also one that the undispatched sweep has failed.
* An API orchestration that fails before its fan-out, and cannot write ERROR or fails before it has a client to write
  with, leaves the execution to no sweep; `undispatched_sweep.py` says every execution must reach an end
  (`EveryExecutionIsSwept`).
* The "1-2%" of overshoot of the global limit in `rate_limiter.py:158` is one request of every other
  organization in the worst case (`GlobalOvershootBounded`).

### Bounds, and why they are enough

Two consumers and two rows give every pairing that matters: zombie and successor on one row, batch head and tail,
higher and lower priority. One attempt with one extra delivery distinguishes all branches of poison handling (run,
poison with budget, poison without). Two batches are the least number with "the last one" and "another one"; two
workers allow a batch to be run by a zombie and its successor. `MaxFaults` bounds crashes, lost answers, failed writes
and early redeliveries: one fault reaches each single failure in every position, two reach failures of the recovery of
a failure (`BarrierLiveness` takes two, for one batch, because a run is left to a sweep only after a failure and the
sweep's own failure has to be survived). `BarrierSafety` takes two while no sweep of the reaper is under way (its
constraint `SweepsOrFaults`), since the sweeps do not touch the count: a fan-out that fails with either part of its
clean-up is one, and a redelivery that comes early the second. With the sweeps it takes one. `PgBarrier` alone passes
with three (0.5 million states). `MaxArmings` is 1 for the guarded orchestrator, whose claim allows no second arming
within the lifetime of the claim, and 2 for the unguarded one. In `LeaseHeld` the lease is scaled down to 12 s with the
interval at a third of it, as in the code, and `Horizon` leaves room for two leases and two sweeps. In `ExecutorRpc` a
reply needs one message and its duplicate, each run once or twice; one consumer runs them in every order between which
the caller can tell, since each store is one step. Two consumers, with one attempt and one fault, pass as well (1.7
million states). In `FileDelivery` two workers are a message and its redelivery or the batches of two executions,
whichever `batchOf` says; the instance with a third worker and no faults (3.8 million states) passes as well, and
larger ones, with two kinds of fault, with three executions or with three workers and a fault, were searched for
minutes without a violation, not to the end; the theorems are for any number of all three. In `ApiAdmission` two
requests are two of one organization or one each of two, an organization has a limit that two requests reach and one
that they do not, and the global limit is reached by one. Two requests with several deliveries are too many states, so
the constraint `TwoRequestsOrDeliveries` lets one of the two messages be run while both requests are under way, which
is enough for a run to lose its slot to the other request, and the message of one be read again while the other request
has not begun. Three deliveries let a run follow one that was called back and one that died; lapses do not count as the
one kind of fault, so that a redelivery can meet another. In `ScheduleOwnership` three saves allow a pause, a resume
and an edit in any order, two crons tell an old from a new one, three values of `next_run_at` allow a baseline, an
advance and a retarget, and one start of the backend either changes the setting or does not.

## 4. Fairness

* Consumers and workers: `run` loops, every call returns or raises, task bodies have a time limit, and the supervisor
  replaces a dead process. Weak fairness of one whole step of each consumer, never of a single branch: a body may
  always raise, a write may always fail where the branch is not counted as a fault.
* The clock, the sweeps of the reaper and the stuck recovery: the leader ticks; `RecoveryRecurs` is the reason.
* The wait of a caller (`EveryCallerReturns`): its thread takes its steps, its deadline passes. Nothing is assumed of
  the consumers, the queue, or Redis: the caller returns without them.
* `FileDelivery` and `ApiAdmission` check no liveness. `FileIsHandled` and `EveryExecutionIsSwept` say instead of
  states that somebody can still act, or that nothing is left to do.
* No fairness for producers, faults, recovery of a renewal thread, or for the success branch of anything.
* `RecoveryRecurs` needs the number of faults to be finite: a tick that fails for ever starves the sweeps after it.
* `EveryExecutionEnds` is about the first end of a run (see `ended` above), and is checked for the guarded
  orchestrator. An API orchestration that fails before its fan-out and whose ERROR write is lost as well has no
  recovery handle.

## 5. Proofs

| theorem | for every | argument |
|---|---|---|
| `PgQueue_proofs!TypeCorrect` | table, payloads, consumers, batch size, budgets | one lemma per group of actions; a consumer has a batch exactly while it works |
| `PgQueue_proofs!OneLeaseHolder` | the same | `LeaseInv`: a row held under a lease that was not lost is claimed and not due, or deleted (`LeasedRowsClaimed`), a batch names a row once (`BatchRowsDiffer`), a queued row has a payload. The claim statement takes ready rows only, so it cannot take a row held under a good lease; `SoleLeaseHolder` alone says nothing of the row's state and is not inductive |
| `PgQueue_proofs!RunsAreBounded` | the same | `FenceInv`: a delivery is one number of a row, no two consumers hold the same number (`NumbersDiffer`), and one that has not started its body finds that number unused (`PendingNotRun`). `BoundedRuns` counts bodies and says nothing of a zombie that still holds an old delivery |
| `PgQueue_proofs!TailIsNotLapsed` | the same | `BatchesFit`: a batch is no longer than a claim, which under the short lease is of one row |
| `PgQueue_proofs!NothingIsLost`, `OutcomesSurface` | the same | `ReasonInv`: a row that is acked, or whose consumer is about to ack it, may be (`MayAck`: it was returned, given up, or answered). A zombie may delete a row that has moved on since; the reason it had refers only to what grows, so it still holds then |
| `PgQueue_proofs!QueueHonoursContract` | the same | `PgQueue` implements `WorkQueue`: each action is mapped to deliver, run, finish, settle or a stutter. `FenceInv` gives that a body starts within the budget and only for a delivery that has none, and `ReasonInv` that a row settles only once it may |
| `ExecutorRpc_proofs!RpcKeepsQueuePromises` | the same | from `RpcIsPgQueue`: with callers around it the queue still bounds its runs, surfaces its outcomes and implements `WorkQueue` |
| `ExecutorRpc_proofs!RpcIsPgQueue` | the same | a refinement: every step of the composition is a step of the queue or leaves it, so the theorems above hold of it |
| `ExecutorRpc_proofs!RpcTypeCorrect` | the same | |
| `ExecutorRpc_proofs!FirstOutcomeReturned` | the same | `RpcInv`: the row and the recorded outcome appear together (`RowFollowsCaller`); a caller reads only a row with a payload |
| `ExecutorRpc_proofs!ConsumedStaysScrubbed` | the same | `AnsweredIsScrubbed`: a tombstone is a row, so the first write wins against a redelivered one |
| `ExecutorRpc_proofs!InTimeReturned` | the same | `InTimeIsFound`: a caller whose answer came in time has a look between it and its last test of the deadline |
| `BarrierRecovery_proofs!RecoveryTypeCorrect` | batches, workers, armings, faults | an orchestrator that dispatches has armed and has a header left (`Dispatching`) |
| `BarrierRecovery_proofs!FanInIsExact` | the same, any fan-out | `CountInv`, for a barrier armed once and not stripped (`Whole`). While the row counts (`Counting`), each claimed batch is marked, missing from the results and has one worker (`Claims`), and the counter is the number of missing batches (`Counts`); so it reaches zero with none missing. `Firing` carries that from the decrement to the callback, with the row possibly gone. The property alone says nothing before the callback |
| `BarrierRecovery_proofs!BatchesRunOnce` | the same | `Runs`: only marked batches were started, and a worker that is about to start one is the first |
| `BarrierRecovery_proofs!RowIsAccounted` | the same | `CountInv` with `EndedInv`: no worker is past zero while the row counts, and whoever else is about to delete comes after an end or a callback, or marks next |
| `BarrierRecovery_proofs!ClaimHolds`, `ArmedOnceUntilEnded` | the same, for `Guarded` and any fan-out | `ClaimInv`: once armed, an orchestrator does not get past its claim again until the execution has ended; before, it has one whenever its message is not queued |
| `FileDelivery_proofs!FileTypeCorrect` | executions, workers, faults | |
| `FileDelivery_proofs!WritersExcluded` | the same | `LockHeld`: a worker in the section is the one in the lock. The release does not look at the token, so it has to be shown that nobody releases who does not hold |
| `FileDelivery_proofs!SuccessIsDelivered` | the same | `Writes`: a worker past its write that still carries "ok" has written the data, and one that carries "setup" an error, which is the exception of the property |
| `FileDelivery_proofs!FileIsDeliveredOnce` | the same | `CalmInv`: without a crossing and outages, an execution that took the file is guarded by its marker, its active record or its completion (`Guarded`), one that looked after it took the file only after the other was through (`Waited`), and what was delivered is in file history before its worker is through, so that later workers stop at the guard (`InHistory`). `Discovered` says what each step of discovery knows. The property speaks of writes only, and a worker about to write satisfies it whatever is in history |
| `FileDelivery_proofs!RecordsEnd` | the same | `SoleInv`: for a worker that is alone with its batch, each step fixes what record, tracker and lock are (`RecordAt`, `KeysAt`), so the duplicate checks answer "not mine" and the last step has written a status (`DoneAt`) |
| `FileDelivery_proofs!FilesAreHandled` | the same | `HandledInv`, for as long as no worker has the file in hand: who turned it away was the only worker of its execution and left it to another, and a marker or an active record belongs to an execution that took the file or still will (`LeftToAnother`); if the guards worked no second execution took it (`FirstComes`). `NoteInv` and `TraceInv` carry the answer of a guard to the step that acts on it. The property speaks of the end, when nothing is left to do, and is true of every state before |
| `ApiAdmission_proofs!ApiTypesHold` | requests, organizations, limits, faults | |
| `ApiAdmission_proofs!OrgOvershootHolds` | the same | `OrgBound` counts the slots taken together with those about to be taken; `Locked` leaves one such request per organization, or a lapse that pays for it |
| `ApiAdmission_proofs!GlobalOvershootHolds` | the same | `GlobalBound`: the same count over all; requests in the section without a lapse are of different organizations |
| `ApiAdmission_proofs!LiveRunHolds`, `EndedRunHolds`, `NotStartedHolds`, `InputHolds`, `ExhaustiveHolds` | the same | `Sound(r)`, one conjunct for each: a step of a request or its run leaves the part of every other request alone (`Stays`), so each action is looked at for its own. `Ordered` (what row and message may be at each step of the request) and `Evident` (what is known of a dispatch) carry the others. A run may find its input gone only after a delivery is "closed", and that state is final |
| `LeaseRenewal_proofs!TypeCorrect` | lease, stall, sweep interval | |
| `LeaseRenewal_proofs!LeaseHeldWhileRunning` | the same, under `Slack` | `OnTime`: the deadline of the thread is within `(missed + 1)` rounds of the last committed renewal, so `Slack` leaves it before the expiry. `LiveClaimHeld` is not inductive: it does not say how late the thread can be |
| `LeaseRenewal_proofs!DeadLeaseFreed` | any lease, no `Slack` | `Expiring`: after the end of the task no renewal commits later than one call, and the sweep is never late |
| `ReaperLeadership_proofs!TypeCorrect` | reapers, lease, faults | |
| `ReaperLeadership_proofs!LeaseKeepsActorSole` | the same, ticks of any length | `FreshHolds`: a process that confirmed its lease within the lease is the one in the row, and the row is no older than that |
| `ReaperLeadership_proofs!LeaseNotTakenEarly` | the same | from the actions |
| `PgScheduler_proofs!TypeCorrect` | crons, ticks, bounds | one lemma for the tick, for a save, for a convergence |
| `PgScheduler_proofs!ValuesFireOnce` | the same, with a sole leader | `FireInv`: the stored `next_run_at` and the scanned one have a serial number in use and are not fired yet, and no number above the last one is. `FiresOnce` alone does not say that what the tick holds is still unfired. The hypothesis of a sole leader is what `LeaseKeepsActorSole` gives while ticks end within the lease |
| `PgScheduler_proofs!NextRunTracksCron`, `CatchUpRunIsImpossible` | the same, with any number of leaders | `NextInv`: a save decides from the row it read one step before; that read is still true of the cron, and of the rest unless `lost` says otherwise (`ReadIsRecent`). A save that could not read adds the value it keeps to `left`. Only a cron that parses is scheduled (`ScheduledParses`), so a row the tick disabled is not taken for a paused one |
| `PgScheduler_proofs!OneFirerAtRest` | the same | `OwnerInv`: after each of its three transactions a save has its part right, whatever ticked or converged in between (`BeatFollowsSave`, `RowFollowsSave`); at rest the three agree (`SettledOwner`). `ExactlyOneFirer` speaks only of rest |

The assumptions are the named `ConstantAssumption` of each module, which TLC evaluates in the runs. `Slack` is an
explicit hypothesis of `LeaseHeldWhileRunning`: `(MaxMissed + 1) * (Interval + Stall) + Stall < Lease`. The default
lease of 120 s with an interval of 40 s satisfies it for one connection death and calls of up to 13 s. A lease of one
or two seconds, which the settings accept, does not.

What `Intact` sets aside in the properties of the count is not a convenience. A second arming breaks the count
(`BarrierRearm`); `ArmedOnceUntilEnded` shows that the guarded orchestrator does not arm twice before the execution
ends. A failed fan-out that left its row without markers breaks it too (`stripped`). The theorems need no
hypothesis beside it: they hold for both orchestrators, failed fan-outs and any number of faults.

Every safety property of the passing runs is stated by a theorem above, some under a hypothesis: `Slack`, `Guarded` and
the sole leader of `ValuesFireOnce` are conditions on the constants that hold in the runs.

Only model-checked: the liveness properties `EveryMessageSettles`, `EveryCallerReturns`, `EveryExecutionEnds` and
`RecoveryRecurs`, because fairness is out of the prover's reach. The refinement of `WorkQueue` is proved for its
initial states and steps; it promises no liveness.

## 6. Not modelled

Of the engine: two orchestrators of one execution at the same time (only a crashed one followed by its redelivery);
`sweep_orphan_dedup` and the retention sweeps other than that of results; poison drops of batch messages; the Celery
link path and the Redis barrier; zero-batch executions. Of the scheduler: two leaders in overlapping ticks, creation,
deletion and backfill of a schedule, `enable_task` and `disable_task`, `pg_periodic_task` (the same code over another
table), and what Beat does with its own task. Of files: the listing of a source, several files in a batch, the tools
and destinations themselves, the review queue, API deployments' files. Of API requests: key checks, status polling,
formats, a sweep that dies between its claim and the release of the slot.

The modules cover what has a protocol. Most of the repository has none: the frontend, prompt studio, connectors, SDK,
adapters, CRUD apps and the platform, text-extraction and runner services are request/response code and I/O, whose
correctness is in the data. `PROJECT.json` says so of each.

## 7. Plan

In this order, each with an abstract promise, a run and, where it pays, a theorem:

1. `FanIn`, the abstract promise of the barrier (every batch once, then one aggregation), refined by `PgBarrier` from
   `CountInv`.
2. The composition of `ApiAdmission` with `PgBarrier`: runs resurrected by a late EXECUTING write, stuck recovery with
   batches that still wait.
3. Schedules created, deleted and backfilled, two leaders in overlapping ticks; the notification buffer; the
   supervisor.
4. Proofs: the refinement of `FanIn`, and of the compositions of item 2 what their parts do not already give.
