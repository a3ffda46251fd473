---------------------------- MODULE ApiAdmission ----------------------------
(***************************************************************************)
(* An API deployment's requests: the slot a request takes in the rate      *)
(* limiter (backend/api_v2/rate_limiter.py), the row it creates, the input *)
(* it stages and the message it enqueues (deployment_helper.py,            *)
(* workflow_helper.py), the run of that message (workers/api-deployment),  *)
(* and the sweeps that end what a request or a run left behind             *)
(* (undispatched_sweep.py, recover_stuck_pg_executions).                   *)
(*                                                                         *)
(* A request is named by the execution id it was given. The lock of an     *)
(* organization runs out at any time. Every delivery of the message to the *)
(* orchestrator is a run: its fan-out and batches are one step of it,      *)
(* "working" (module PgBarrier has them, and what becomes of two runs of   *)
(* one execution in the barrier); its callback is "called" and "closing".  *)
(* A slot is released with the commit of the status it follows, and a      *)
(* status write of a worker is a read of the row and a save, as the        *)
(* endpoint does it.                                                       *)
(* Requests dispatch within the grace period of the sweep, and runs end    *)
(* within the TTL of their slot.                                           *)
(***************************************************************************)
EXTENDS Integers, FiniteSets

CONSTANTS
    Request,      \* requests, named by the execution they ask for
    Org,          \* organizations
    OrgLimit,     \* [Org -> Nat], concurrent requests of each organization
    GlobalLimit,  \* concurrent requests of all organizations
    MaxDeliveries,  \* bound on the deliveries of a message
    MaxFaults     \* bound on the other kinds of fault in one behaviour

Nobody == "nobody"

ASSUME ApiAssumption ==
    /\ IsFiniteSet(Request) /\ IsFiniteSet(Org)
    /\ OrgLimit \in [Org -> Nat] /\ GlobalLimit \in Nat \ {0}
    /\ MaxDeliveries \in Nat \ {0} /\ MaxFaults \in Nat
    /\ Nobody \notin Request

VARIABLES
    orgOf,        \* [Request -> Org]
    pc,           \* [Request -> Steps], where the request's thread is
    lock,         \* [Org -> Request or Nobody], the limiter's Redis lock
    lapsed,       \* requests whose lock ran out while they relied on it
    orgSlots,     \* members of the organizations' ZSETs
    globalSlots,  \* members of the global ZSET
    slotless,     \* requests let through without a slot
    status,       \* [Request -> Statuses], of the execution row
    stamped,      \* rows with dispatched_at
    handled,      \* rows with queue_message_id
    swept,        \* rows whose error says that the run did not start
    input,        \* executions with a staged input
    job,          \* [Request -> [Deliveries -> Jobs]], the message's runs
    snap,         \* runs whose status write read the row with dispatched_at
    faults        \* the kinds of fault so far

limiter == <<lock, lapsed, orgSlots, globalSlots, slotless>>
slots == <<orgSlots, globalSlots>>
evidence == <<stamped, handled>>
row == <<status, evidence, swept>>
run == <<job, snap>>
unsaved == <<status, slots, stamped, snap, input>>
vars == <<orgOf, pc, limiter, row, input, run, faults>>

Section == {"count", "global", "add", "admit", "refuse"}
InTransit == {"stage", "unstage", "dispatch", "undo", "stamp", "handle"}
Serving == {"lock", "create", "answer", "cleanup"} \cup Section \cup InTransit
Steps == Serving \cup {"done", "dead"}
Statuses == {"none", "PENDING", "EXECUTING", "COMPLETED", "ERROR"}
Terminal == {"COMPLETED", "ERROR"}
Deliveries == 1..MaxDeliveries
Orchestrating == {"taken", "opening", "working", "failing", "erring"}
Live == Orchestrating \cup {"queued", "called", "closing", "lost"}
Jobs == Live \cup {"none", "gone", "closed"}

\* A call to Redis fails, a request or a worker dies, a message outlives its
\* lease or its delivery is not settled, a status write of the request, of
\* the orchestrator or of the callback is lost, the INSERT commits without
\* an answer, the stamp or the handle is not recorded, or the response
\* cannot be assembled.
Kinds == {"redis", "crash", "lapse", "request", "orchestrator", "final",
          "answer", "stamp", "handle", "enrich"}

Init ==
    /\ orgOf \in [Request -> Org]
    /\ pc = [r \in Request |-> "lock"]
    /\ lock = [o \in Org |-> Nobody]
    /\ status = [r \in Request |-> "none"]
    /\ job = [r \in Request |-> [d \in Deliveries |-> "none"]]
    /\ lapsed = {} /\ orgSlots = {} /\ globalSlots = {} /\ slotless = {}
    /\ stamped = {} /\ handled = {} /\ swept = {}
    /\ input = {} /\ snap = {} /\ faults = {}

Goto(r, s) == pc' = [pc EXCEPT ![r] = s] /\ UNCHANGED orgOf

GoJob(r, d, j) == job' = [job EXCEPT ![r][d] = j]

Running(r) == \E d \in Deliveries : job[r][d] \in Live

\* Lapses are bounded by the deliveries.
Fault(kind) ==
    /\ faults' = faults \cup {kind}
    /\ Cardinality(faults' \ {"lapse"}) <= MaxFaults

-----------------------------------------------------------------------------
(* check_and_acquire.                                                      *)

SlotsOf(o) == {r \in orgSlots : orgOf[r] = o}

\* Mutant: a TTL that runs may outlive.
LeftoverOfRequest == {r \in Request : pc[r] \in {"done", "dead"}}

\* Members of the ZSETs that may be older than the TTL.
Leftover == {r \in Request : /\ pc[r] \in {"done", "dead"}
                             /\ ~ Running(r)}

\* Mutant: check_rate_limit's count, without the lock.
AcquireUnlocked(r) ==
    /\ pc[r] = "lock"
    /\ Goto(r, "count")
    /\ UNCHANGED <<limiter, row, input, run, faults>>

\* A request that cannot have the lock in time goes on without a slot.
Acquire(r) ==
    LET o == orgOf[r] IN
    /\ pc[r] = "lock"
    /\ \/ /\ lock[o] = Nobody
          /\ lock' = [lock EXCEPT ![o] = r]
          /\ Goto(r, "count")
          /\ UNCHANGED <<slotless, faults>>
       \/ /\ \/ lock[o] # Nobody /\ UNCHANGED faults
             \/ Fault("redis")
          /\ slotless' = slotless \cup {r}
          /\ Goto(r, "create")
          /\ UNCHANGED lock
    /\ UNCHANGED <<lapsed, slots, row, input, run>>

\* Any error lets the request through.
FailOpen(r) ==
    /\ pc[r] \in {"count", "global"}
    /\ Fault("redis")
    /\ slotless' = slotless \cup {r}
    /\ Goto(r, "admit")
    /\ UNCHANGED <<lock, lapsed, slots, row, input, run>>

\* Expired members are removed first.
CountOrg(r) ==
    /\ pc[r] = "count"
    /\ \E old \in SUBSET Leftover :
          /\ orgSlots' = orgSlots \ {x \in old : orgOf[x] = orgOf[r]}
          /\ globalSlots' = globalSlots \ old
    /\ IF Cardinality({x \in orgSlots' : orgOf[x] = orgOf[r]})
          >= OrgLimit[orgOf[r]]
       THEN Goto(r, "refuse")
       ELSE Goto(r, "global")
    /\ UNCHANGED <<lock, lapsed, slotless, row, input, run, faults>>

\* Mutant: one too many.
CountGlobalUpTo(r) ==
    /\ pc[r] = "global"
    /\ Goto(r, IF Cardinality(globalSlots) > GlobalLimit THEN "refuse"
                                                         ELSE "add")
    /\ UNCHANGED <<limiter, row, input, run, faults>>

CountGlobal(r) ==
    /\ pc[r] = "global"
    /\ Goto(r, IF Cardinality(globalSlots) >= GlobalLimit THEN "refuse"
                                                          ELSE "add")
    /\ UNCHANGED <<limiter, row, input, run, faults>>

\* One MULTI for both sets; it may commit without an answer.
Add(r) ==
    /\ pc[r] = "add"
    /\ \/ /\ orgSlots' = orgSlots \cup {r}
          /\ globalSlots' = globalSlots \cup {r}
          /\ UNCHANGED faults \/ Fault("redis")
          /\ UNCHANGED slotless
       \/ /\ Fault("redis")
          /\ slotless' = slotless \cup {r}
          /\ UNCHANGED slots
    /\ Goto(r, "admit")
    /\ UNCHANGED <<lock, lapsed, row, input, run>>

\* The lock is released by its token; a failure leaves it to its timeout.
Unlock(r) ==
    LET o == orgOf[r] IN
    /\ pc[r] \in {"admit", "refuse"}
    /\ Goto(r, IF pc[r] = "admit" THEN "create" ELSE "done")
    /\ \/ /\ lock' = [lock EXCEPT ![o] = IF @ = r THEN Nobody ELSE @]
          /\ UNCHANGED faults
       \/ Fault("redis") /\ UNCHANGED lock
    /\ UNCHANGED <<lapsed, slots, slotless, row, input, run>>

LockLapses(o) ==
    /\ lock[o] # Nobody
    /\ lock' = [lock EXCEPT ![o] = Nobody]
    /\ lapsed' = IF pc[lock[o]] \in Section THEN lapsed \cup {lock[o]}
                                            ELSE lapsed
    /\ UNCHANGED <<orgOf, pc, slots, slotless, row, input, run, faults>>

-----------------------------------------------------------------------------
(* release_slot, and the end of an execution.                              *)

Release(r) ==
    \/ /\ orgSlots' = orgSlots \ {r}
       /\ globalSlots' = globalSlots \ {r}
       /\ UNCHANGED faults
    \/ Fault("redis") /\ UNCHANGED slots

\* The request's error paths pass the organization itself, whose key holds
\* nothing: the slot stays in the organization's set.
ReleaseOrganization(r) ==
    \/ /\ globalSlots' = globalSlots \ {r}
       /\ UNCHANGED <<orgSlots, faults>>
    \/ Fault("redis") /\ UNCHANGED slots

\* update_execution. Without a handle on the row any status is written over
\* any other, and with it every column as the writer had read it.
Close(r, s) ==
    IF r \in handled /\ status[r] = "COMPLETED" /\ s # "COMPLETED"
    THEN UNCHANGED <<status, slots, faults>>
    ELSE /\ status' = [status EXCEPT ![r] = s]
         /\ Release(r)

Save(r, d) ==
    /\ stamped' = IF r \in handled \/ <<r, d>> \in snap THEN stamped
                                                      ELSE stamped \ {r}
    /\ snap' = snap \ {<<r, d>>}

-----------------------------------------------------------------------------
(* DeploymentHelper.execute_workflow and execute_workflow_async.           *)

\* The documents of an MCP call are fetched first. What is raised until the
\* row has its tags is caught by the view or the tool.
Create(r) ==
    /\ pc[r] = "create"
    /\ \/ /\ status' = [status EXCEPT ![r] = "PENDING"]
          /\ Goto(r, "stage")
          /\ UNCHANGED <<slots, faults>>
       \/ /\ status' \in {status, [status EXCEPT ![r] = "PENDING"]}
          /\ ReleaseOrganization(r)
          /\ Goto(r, "done")
    /\ UNCHANGED <<lock, lapsed, slotless, evidence, swept, input, run>>

\* A failure may leave some of the files.
Stage(r) ==
    /\ pc[r] = "stage"
    /\ input' = input \cup {r}
    /\ Goto(r, "dispatch") \/ Goto(r, "unstage")
    /\ UNCHANGED <<limiter, row, run, faults>>

Unstage(r) ==
    /\ pc[r] = "unstage"
    /\ \/ Close(r, "ERROR")
       \/ Fault("request") /\ UNCHANGED <<status, slots>>
    /\ Goto(r, "cleanup")
    /\ UNCHANGED <<lock, lapsed, slotless, evidence, swept, input, run>>

Dispatch(r) ==
    /\ pc[r] = "dispatch"
    /\ \/ GoJob(r, 1, "queued") /\ Goto(r, "stamp") /\ UNCHANGED faults
       \/ Goto(r, "undo") /\ UNCHANGED <<job, faults>>
       \/ Fault("answer") /\ GoJob(r, 1, "queued") /\ Goto(r, "undo")
    /\ UNCHANGED <<limiter, row, input, snap>>

\* An ERROR that cannot be written is raised to the caller.
Undo(r) ==
    /\ pc[r] = "undo"
    /\ \/ Close(r, "ERROR") /\ Goto(r, "answer")
       \/ /\ Fault("request")
          /\ Goto(r, "cleanup")
          /\ UNCHANGED <<status, slots>>
    /\ UNCHANGED <<lock, lapsed, slotless, evidence, swept, input, run>>

\* mark_dispatched: an UPDATE of the column, best-effort.
Stamp(r) ==
    /\ pc[r] = "stamp"
    /\ \/ stamped' = stamped \cup {r} /\ UNCHANGED faults
       \/ Fault("stamp") /\ UNCHANGED stamped
    /\ Goto(r, "handle")
    /\ UNCHANGED <<limiter, status, handled, swept, input, run>>

RecordHandle(r) ==
    /\ pc[r] = "handle"
    /\ \/ handled' = handled \cup {r} /\ UNCHANGED faults
       \/ Fault("handle") /\ UNCHANGED handled
    /\ Goto(r, "answer")
    /\ UNCHANGED <<limiter, status, stamped, swept, input, run>>

\* The wait for the run, if the caller asked for one, and the response.
Answer(r) ==
    /\ pc[r] = "answer"
    /\ \/ Goto(r, "done") /\ UNCHANGED faults
       \/ Fault("enrich") /\ Goto(r, "cleanup")
    /\ UNCHANGED <<limiter, row, input, run>>

CleanUp(r) ==
    /\ pc[r] = "cleanup"
    /\ ReleaseOrganization(r)
    /\ input' = input \ {r}
    /\ Goto(r, "done")
    /\ UNCHANGED <<lock, lapsed, slotless, row, run>>

RequestDies(r) ==
    /\ pc[r] \in Serving
    /\ Fault("crash")
    /\ Goto(r, "dead")
    /\ UNCHANGED <<limiter, row, input, run>>

-----------------------------------------------------------------------------
(* The runs. The API orchestrator does not look whether the row has ended. *)

Take(r, d) ==
    /\ job[r][d] = "queued"
    /\ GoJob(r, d, "taken")
    /\ UNCHANGED <<orgOf, pc, limiter, row, input, snap, faults>>

\* The set-up fails and returns before there is a client to write ERROR
\* with; or the run fails before its fan-out.
OrchestrationFails(r, d) ==
    /\ \/ /\ job[r][d] = "taken"
          /\ Fault("orchestrator")
          /\ GoJob(r, d, "gone")
       \/ /\ job[r][d] \in {"taken", "working"}
          /\ GoJob(r, d, "failing")
          /\ UNCHANGED faults
    /\ UNCHANGED <<orgOf, pc, limiter, row, input, snap>>

\* A message that is not settled is read again, at any time after: the
\* worker dies, before the fan-out or after it, the lease runs out, or the
\* acknowledgement is lost. What the run has sent out goes on.
Redeliver(r, d) ==
    /\ job[r][d] \notin {"none", "queued"}
    /\ d + 1 \in Deliveries
    /\ job[r][d + 1] = "none"
    /\ \/ /\ Fault("crash") \/ Fault("lapse")
          /\ GoJob(r, d + 1, "queued")
       \/ /\ job[r][d] \in Orchestrating
          /\ Fault("crash")
          /\ job' = [job EXCEPT ![r][d] = "gone", ![r][d + 1] = "queued"]
    /\ UNCHANGED <<orgOf, pc, limiter, row, input, snap>>

\* The first half of update_status: get_object.
ReadRow(r, d) ==
    /\ \/ job[r][d] = "taken" /\ GoJob(r, d, "opening")
       \/ job[r][d] = "failing" /\ GoJob(r, d, "erring")
       \/ job[r][d] = "called" /\ GoJob(r, d, "closing")
    /\ snap' = IF r \in stamped THEN snap \cup {<<r, d>>}
                               ELSE snap \ {<<r, d>>}
    /\ UNCHANGED <<orgOf, pc, limiter, row, input, faults>>

Open(r, d) ==
    /\ job[r][d] = "opening"
    /\ IF r \in handled /\ status[r] = "COMPLETED"
       THEN UNCHANGED status
       ELSE status' = [status EXCEPT ![r] = "EXECUTING"]
    /\ Save(r, d)
    /\ GoJob(r, d, "working")
    /\ UNCHANGED <<orgOf, pc, limiter, handled, swept, input, faults>>

\* The batches of an execution that has ended are skipped, and so is the
\* callback of one that has completed.
SkipBatches(r, d) ==
    /\ job[r][d] = "working"
    /\ status[r] \in Terminal
    /\ GoJob(r, d, "gone")
    /\ UNCHANGED <<orgOf, pc, limiter, row, input, snap, faults>>

\* _callback_already_ran.
CallBack(r, d) ==
    /\ job[r][d] = "working"
    /\ status[r] # "COMPLETED"
    /\ GoJob(r, d, "called")
    /\ UNCHANGED <<orgOf, pc, limiter, row, input, snap, faults>>

\* handle_execution_error, or the final write of the callback, which then
\* deletes the directory of the execution; a failure to is logged.
EndRun(r, d) ==
    /\ \/ /\ job[r][d] = "erring"
          /\ \/ Close(r, "ERROR") /\ Save(r, d) /\ UNCHANGED input
             \/ Fault("orchestrator") /\ UNCHANGED unsaved
          /\ GoJob(r, d, "gone")
       \/ /\ job[r][d] = "closing"
          /\ \/ /\ \E s \in Terminal : Close(r, s)
                /\ Save(r, d)
                /\ input' \in {input, input \ {r}}
                /\ GoJob(r, d, "closed")
             \/ /\ Fault("final")
                /\ GoJob(r, d, "lost")
                /\ UNCHANGED unsaved
    /\ UNCHANGED <<orgOf, pc, lock, lapsed, slotless, handled, swept>>

-----------------------------------------------------------------------------
(* The sweeps.                                                             *)

\* Mutant: before migration 0028.
WithoutHandle(r) == status[r] = "PENDING" /\ r \notin handled

Undispatched(r) == status[r] = "PENDING" /\ r \notin stamped \cup handled

\* Mutant: the organization itself, as elsewhere.
AbandonToOrganization(r) == ReleaseOrganization(r) /\ UNCHANGED input

\* Mutant: the staged input goes as well.
AbandonInput(r) == Release(r) /\ input' = input \ {r}

ReleaseAbandoned(r) == Release(r) /\ UNCHANGED input

\* sweep_undispatched_executions; the claim is one statement.
Sweep(r) ==
    /\ Undispatched(r)
    /\ pc[r] \notin InTransit
    /\ status' = [status EXCEPT ![r] = "ERROR"]
    /\ swept' = swept \cup {r}
    /\ ReleaseAbandoned(r)
    /\ UNCHANGED <<orgOf, pc, lock, lapsed, slotless, evidence, run>>

\* Mutant: only runs that never wrote EXECUTING.
StuckPending(r) ==
    /\ \E d \in Deliveries : job[r][d] = "lost"
    /\ status[r] = "PENDING" /\ r \in stamped \cup handled

\* All files of a run have ended, and the execution has not.
Stuck(r) ==
    /\ \E d \in Deliveries : job[r][d] = "lost"
    /\ status[r] \in {"PENDING", "EXECUTING"}
    /\ r \in stamped \cup handled

RecoverStuck(r) ==
    /\ Stuck(r)
    /\ \E s \in Terminal : Close(r, s)
    /\ \E d \in Deliveries : job[r][d] = "lost" /\ GoJob(r, d, "gone")
    /\ UNCHANGED <<orgOf, pc, lock, lapsed, slotless, evidence, swept>>
    /\ UNCHANGED <<input, snap>>

-----------------------------------------------------------------------------
Serve(r) ==
    \/ Acquire(r) \/ FailOpen(r) \/ CountOrg(r) \/ CountGlobal(r) \/ Add(r)
    \/ Unlock(r) \/ Create(r) \/ Stage(r) \/ Unstage(r) \/ Dispatch(r)
    \/ Undo(r) \/ Stamp(r) \/ RecordHandle(r) \/ Answer(r) \/ CleanUp(r)

Work(r, d) ==
    \/ Take(r, d) \/ OrchestrationFails(r, d) \/ Redeliver(r, d)
    \/ ReadRow(r, d) \/ Open(r, d) \/ SkipBatches(r, d) \/ CallBack(r, d)
    \/ EndRun(r, d)

Next ==
    \/ \E r \in Request :
          \/ Serve(r) \/ RequestDies(r)
          \/ \E d \in Deliveries : Work(r, d)
          \/ Sweep(r) \/ RecoverStuck(r)
    \/ \E o \in Org : LockLapses(o)

Spec == Init /\ [][Next]_vars

-----------------------------------------------------------------------------
Dispatched == {r \in Request : job[r][1] # "none"}

\* The types of the limiter, the rows and the runs; and a row has evidence
\* of a dispatch only if there was one (execute_workflow_async sets
\* dispatched after the INSERT).
ApiTypeOK ==
    /\ orgOf \in [Request -> Org]
    /\ pc \in [Request -> Steps]
    /\ lock \in [Org -> Request \cup {Nobody}]
    /\ status \in [Request -> Statuses]
    /\ job \in [Request -> [Deliveries -> Jobs]]
    /\ {lapsed, orgSlots, globalSlots, slotless, swept, input}
          \subseteq SUBSET Request
    /\ snap \subseteq Request \X Deliveries
    /\ stamped \cup handled \subseteq Dispatched
    /\ faults \subseteq Kinds

(***************************************************************************)
(* An organization has more slots taken than its limit only by as many as  *)
(* there were requests whose lock ran out between taking it and adding     *)
(* themselves (check_and_acquire under the lock of two seconds).           *)
(***************************************************************************)
OrgOvershootBounded ==
    \A o \in Org :
        Cardinality(SlotsOf(o))
            <= OrgLimit[o] + Cardinality({r \in lapsed : orgOf[r] = o})

(***************************************************************************)
(* The global limit is checked under the locks of the organizations only   *)
(* (check_and_acquire: "The global limit is checked but not locked"): the  *)
(* requests beyond it are of different organizations, one of each, but for *)
(* as many as there were requests whose lock ran out.                      *)
(***************************************************************************)
GlobalOvershootBounded ==
    globalSlots # {}
    => Cardinality(globalSlots) - Cardinality({orgOf[r] : r \in globalSlots})
          < GlobalLimit + Cardinality(lapsed)

(***************************************************************************)
(* A run that was admitted with a slot keeps it until it ends: no other    *)
(* run is let in beside it. A request that fails after the dispatch gives  *)
(* the global slot away (the except of execute_workflow) and keeps that of *)
(* the organization only because ReleaseOrganization misses it. Not so a   *)
(* run whose request could not know that its message was enqueued, or died *)
(* before it wrote so down; nor a run of a message delivered twice, since  *)
(* the other one releases the slot.                                        *)
(***************************************************************************)
LiveRunKeepsItsSlot ==
    \A r \in Dispatched \ slotless :
        Running(r) /\ status[r] \notin Terminal
        => \/ r \in orgSlots /\ (r \in globalSlots \/ "enrich" \in faults)
           \/ faults \cap {"answer", "stamp", "crash", "lapse"} # {}

(***************************************************************************)
(* An execution that ended gives its slot back, whoever ended it: request, *)
(* run, reaper or sweep (update_execution and _release_abandoned_          *)
(* resources), unless Redis failed.                                        *)
(***************************************************************************)
EndedRunFreesItsSlot ==
    \A r \in orgSlots \cup globalSlots :
        status[r] \in Terminal => "redis" \in faults

(***************************************************************************)
(* "This execution did not start ... so no files were processed. You can   *)
(* safely run it again" (UNDISPATCHED_ERROR_MESSAGE) is said of executions *)
(* that were not enqueued, whatever became of their handle; unless the     *)
(* request did not learn or could not record that they were.               *)
(***************************************************************************)
NotStartedIsTrue ==
    swept \cap Dispatched # {}
        => faults \cap {"answer", "stamp", "crash"} # {}

(***************************************************************************)
(* A run finds its staged input, also after the sweep took it for one that *)
(* was not dispatched (the input is "deliberately retained"). Two things   *)
(* only take it from a run: the callback of another run of the same        *)
(* execution, if the message was delivered twice (_cleanup_execution_      *)
(* resources; nothing tells the orchestrator that runs later), and a       *)
(* request that failed after the dispatch (execute_workflow).              *)
(***************************************************************************)
InputOutlivesRun ==
    \A r \in Request, d \in Deliveries :
        job[r][d] \in Live
        => \/ r \in input
           \/ \E e \in Deliveries \ {d} : job[r][e] = "closed"
           \/ faults \cap {"enrich", "answer"} # {}

(***************************************************************************)
(* An execution that has not ended is somebody's: a run goes on with it,   *)
(* or one of the two sweeps takes it (recover_stuck calls itself and the   *)
(* undispatched sweep "jointly exhaustive"). The rest are the executions   *)
(* whose orchestrator failed before the fan-out and could not write ERROR, *)
(* and the runs whose dispatch was not recorded and final write was lost.  *)
(***************************************************************************)
EveryExecutionIsSwept ==
    \A r \in Request :
        status[r] \in {"PENDING", "EXECUTING"}
        => \/ \E d \in Deliveries : job[r][d] \in Live \ {"lost"}
           \/ Undispatched(r) \/ Stuck(r)
           \/ pc[r] \in {"stamp", "handle"}
           \/ "orchestrator" \in faults
           \/ /\ \E d \in Deliveries : job[r][d] = "lost"
              /\ faults \cap {"answer", "handle", "crash"} # {}
=============================================================================
