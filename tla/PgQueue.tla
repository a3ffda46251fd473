------------------------------ MODULE PgQueue ------------------------------
(***************************************************************************)
(* The Postgres work queue: the pg_queue_message table, the consumers that *)
(* claim, run and acknowledge its rows (queue_backend/pg_queue/client.py   *)
(* and consumer.py), and the two sweeps of the leader reaper that deliver  *)
(* through it (reaper.py: re-arm of expired claims, promotion of scheduled *)
(* rows).                                                                  *)
(*                                                                         *)
(* Time is abstracted to one bit per row: due[r] says that the row's vt    *)
(* (of a claimed row) or available_at (of a scheduled one) has passed.     *)
(* The lease of a row may lapse at any moment except while a live consumer *)
(* runs its task with a working renewal thread; module LeaseRenewal        *)
(* justifies that exception with explicit clocks.                          *)
(***************************************************************************)
EXTENDS Integers, Sequences, FiniteSets

CONSTANTS
    Row,          \* msg_id values, 1..n: the bigserial key of the table
    Job,          \* payloads that producers enqueue
    Consumer,     \* PgQueueConsumer processes
    Kind,         \* [Job -> Kinds], which return channel a payload carries
    Shape,        \* [Job -> Shapes], whether its task can be resolved
    Priority,     \* [Job -> Int], the claim order, higher first
    BatchSize,    \* WORKER_PG_QUEUE_CONSUMER_BATCH_SIZE
    ShortLease,   \* lease_seconds < vt_seconds
    MaxAttempts,  \* deliveries that run the body before a message is poison
    ReparkBudget, \* poison_repark_budget: extra deliveries to confirm ERROR
    MaxFaults     \* bound on crashes, lost renewals and failed acks

\* leaf: nothing to mark (no execution, or one without an organisation);
\* pipeline: carries an execution to mark ERROR; rpc: reply_key; callback:
\* on_success and on_error.
Kinds == {"leaf", "pipeline", "rpc", "callback"}
Shapes == {"ok", "malformed", "unknown"}

\* Kinds with a failure channel.
Answering == {"rpc", "callback"}

ASSUME ConstantAssumption ==
    /\ Row \subseteq Nat \ {0}
    /\ Kind \in [Job -> Kinds]
    /\ Shape \in [Job -> Shapes]
    /\ Priority \in [Job -> Int]
    /\ BatchSize \in Nat \ {0}
    /\ ShortLease \in BOOLEAN
    /\ MaxAttempts \in Nat \ {0}
    /\ ReparkBudget \in Nat
    /\ MaxFaults \in Nat

VARIABLES
    state,     \* [Row -> {"none","scheduled","ready","claimed","deleted"}]
    payload,   \* [Row -> SUBSET Job], {} before the INSERT, then one job
    readCt,    \* [Row -> Nat], the read_ct column
    due,       \* [Row -> BOOLEAN], vt or available_at has passed
    unsent,    \* jobs no producer has enqueued yet
    result,    \* [Job -> {"none","completed","failed"}], pg_task_result
    chained,   \* [Row -> SUBSET {"completed","failed"}], continuations sent
    marked,    \* jobs whose execution was confirmed ERROR by a poison drop
    phase,     \* [Consumer -> Phases]
    batch,     \* [Consumer -> Seq(Delivery)], head is the message in flight
    renewing,  \* [Consumer -> BOOLEAN], the renewal thread reaches the row
    outcome,   \* [Consumer -> {"completed","failed"}] being surfaced
    lapsed,    \* [Consumer -> SUBSET Row], leases it lost while holding them
    ran,       \* [Row -> SUBSET Nat], read_ct of the deliveries that ran
    returned,  \* rows whose task body returned normally
    lost,      \* rows whose outcome could not be written (logged, then acked)
    faults     \* faults injected so far

tableVars == <<state, payload, readCt, due>>
workerVars == <<phase, batch, renewing, outcome>>
channelVars == <<result, chained, marked>>
historyVars == <<lapsed, ran, returned, lost>>
vars == <<tableVars, unsent, channelVars, workerVars, historyVars, faults>>

Phases == {"down", "idle", "resolve", "running", "storing", "chaining",
           "poison", "acking"}
Delivery == [row: Row, readCt: Nat]
Outcomes == {"completed", "failed"}

\* The message a consumer is handling, and what it knows about it.
InFlight(c) == Head(batch[c]).row
SeenReadCt(c) == Head(batch[c]).readCt
Holds(c, r) == \E i \in 1..Len(batch[c]) : batch[c][i].row = r
KindOf(r) == {Kind[j] : j \in payload[r]}
ShapeOf(r) == {Shape[j] : j \in payload[r]}
Answers(r) == KindOf(r) \subseteq Answering

(***************************************************************************)
(* The batch tail is claimed but not renewed, so __init__ forces serial    *)
(* claims whenever the lease is the short, renewed one.                    *)
(*                                                                         *)
(* Here and below, an operator whose comment starts with "Mutant" is no    *)
(* part of the model: it is the next definition with a bug in it, kept to  *)
(* show that a property notices.                                           *)
(***************************************************************************)
\* Mutant: no clamp.
ClaimSizeUnclamped == BatchSize

ClaimSize == IF ShortLease /\ BatchSize > 1 THEN 1 ELSE BatchSize

Init ==
    /\ state = [r \in Row |-> "none"]
    /\ payload = [r \in Row |-> {}]
    /\ readCt = [r \in Row |-> 0]
    /\ due = [r \in Row |-> FALSE]
    /\ unsent = Job
    /\ result = [j \in Job |-> "none"]
    /\ chained = [r \in Row |-> {}]
    /\ marked = {}
    /\ phase = [c \in Consumer |-> "idle"]
    /\ batch = [c \in Consumer |-> <<>>]
    /\ renewing = [c \in Consumer |-> FALSE]
    /\ outcome = [c \in Consumer |-> "completed"]
    /\ lapsed = [c \in Consumer |-> {}]
    /\ ran = [r \in Row |-> {}]
    /\ returned = {}
    /\ lost = {}
    /\ faults = 0

-----------------------------------------------------------------------------
(* Producers.                                                              *)

Insert(r, j, s) ==
    /\ state[r] = "none"
    /\ \A q \in Row : q < r => state[q] # "none"     \* bigserial order
    /\ state' = [state EXCEPT ![r] = s]
    /\ payload' = [payload EXCEPT ![r] = {j}]
    /\ UNCHANGED <<readCt, due, channelVars, workerVars, historyVars, faults>>

\* send / enqueue_task without a delay: the row is claimable at once.
Send(r, j) ==
    /\ j \in unsent
    /\ unsent' = unsent \ {j}
    /\ Insert(r, j, "ready")

\* enqueue_task with countdown/eta: hidden until promoted.
SendDelayed(r, j) ==
    /\ j \in unsent
    /\ unsent' = unsent \ {j}
    /\ Insert(r, j, "scheduled")

\* send's reconnect-retry when the connection died after the server
\* committed: a payload already in the table is inserted once more. It comes
\* after a back-off, so the first row may have been claimed, run or acked.
SendRetriedAfterCommit(r, j) ==
    /\ faults < MaxFaults
    /\ Cardinality({q \in Row : j \in payload[q]}) = 1
    /\ \A q \in Row : j \in payload[q] => state[q] # "scheduled"
    /\ state[r] = "none"
    /\ \A q \in Row : q < r => state[q] # "none"
    /\ state' = [state EXCEPT ![r] = "ready"]
    /\ payload' = [payload EXCEPT ![r] = {j}]
    /\ faults' = faults + 1
    /\ UNCHANGED <<readCt, due, unsent, channelVars, workerVars, historyVars>>

-----------------------------------------------------------------------------
(* Claiming: client.read, called by poll_once.                             *)

\* priority DESC, msg_id
ClaimedBefore(q, r) ==
    \A i \in payload[q], j \in payload[r] :
        Priority[i] > Priority[j] \/ (Priority[i] = Priority[j] /\ q < r)

\* The rows one _dequeue_sql statement returns, in its order.
Dequeued(rows) ==
    LET chosen == {rows[i] : i \in DOMAIN rows}
    IN  /\ \A i \in DOMAIN rows : state[rows[i]] = "ready"
        /\ \A i, k \in DOMAIN rows : i < k => ClaimedBefore(rows[i], rows[k])
        /\ \A q \in Row \ chosen, r \in chosen :
               state[q] = "ready" => ClaimedBefore(r, q)
        /\ Len(rows) = ClaimSize
           \/ \A q \in Row : state[q] = "ready" => q \in chosen

\* Mutant: read_ct as it was before the UPDATE.
DeliveryOfOldRow(r) == [row |-> r, readCt |-> readCt[r]]

\* A row as the RETURNING clause sees it.
DeliveryOf(r) == [row |-> r, readCt |-> readCt[r] + 1]

Claim(c, rows) ==
    LET chosen == {rows[i] : i \in DOMAIN rows}
    IN  /\ phase[c] = "idle"
        /\ Dequeued(rows)
        /\ state' = [r \in Row |-> IF r \in chosen THEN "claimed" ELSE state[r]]
        /\ due' = [r \in Row |-> IF r \in chosen THEN FALSE ELSE due[r]]
        /\ readCt' = [r \in Row |->
                        IF r \in chosen THEN readCt[r] + 1 ELSE readCt[r]]
        /\ batch' = [batch EXCEPT ![c] =
                       [i \in DOMAIN rows |-> DeliveryOf(rows[i])]]
        /\ phase' = [phase EXCEPT ![c] = "resolve"]
        /\ UNCHANGED <<payload, unsent, channelVars, renewing, outcome,
                       historyVars, faults>>

Poll(c) ==
    \E n \in 1..ClaimSize : \E rows \in [1..n -> Row] : Claim(c, rows)

\* _handle returned: the next message of the batch, or the next poll.
Advance(c) ==
    /\ batch' = [batch EXCEPT ![c] = Tail(batch[c])]
    /\ lapsed' = [lapsed EXCEPT ![c] = @ \ {InFlight(c)}]
    /\ outcome' = [outcome EXCEPT ![c] = "completed"]
    /\ phase' = [phase EXCEPT ![c] =
                   IF Len(batch[c]) > 1 THEN "resolve" ELSE "idle"]

\* _handle raised: poll_once logs it and abandons the rest of the batch; a
\* dead process forgets it too.
AbandonBatch(c, p) ==
    /\ batch' = [batch EXCEPT ![c] = <<>>]
    /\ phase' = [phase EXCEPT ![c] = p]
    /\ lapsed' = [lapsed EXCEPT ![c] = {}]
    /\ outcome' = [outcome EXCEPT ![c] = "completed"]
    /\ renewing' = [renewing EXCEPT ![c] = FALSE]

-----------------------------------------------------------------------------
(* _resolve_runnable_task: malformed, then poison, then unknown, then run. *)

Surface(c, o) ==
    /\ outcome' = [outcome EXCEPT ![c] = o]
    /\ phase' = [phase EXCEPT ![c] =
                   IF Answers(InFlight(c)) THEN "storing" ELSE "acking"]

DropUnrunnable(c) ==
    /\ phase[c] = "resolve"
    /\ \/ "malformed" \in ShapeOf(InFlight(c))
       \/ /\ "unknown" \in ShapeOf(InFlight(c))
          /\ SeenReadCt(c) <= MaxAttempts
    /\ Surface(c, "failed")
    /\ UNCHANGED <<tableVars, unsent, channelVars, batch, renewing,
                   historyVars, faults>>

\* Mutant: the last attempt is taken for poison.
IsPoisonEarly(c) ==
    /\ "malformed" \notin ShapeOf(InFlight(c))
    /\ SeenReadCt(c) >= MaxAttempts

IsPoison(c) ==
    /\ "malformed" \notin ShapeOf(InFlight(c))
    /\ SeenReadCt(c) > MaxAttempts

FindPoison(c) ==
    /\ phase[c] = "resolve"
    /\ IsPoison(c)
    /\ phase' = [phase EXCEPT ![c] = "poison"]
    /\ UNCHANGED <<tableVars, unsent, channelVars, batch, renewing, outcome,
                   historyVars, faults>>

StartTask(c) ==
    LET r == InFlight(c)
    IN  /\ phase[c] = "resolve"
        /\ "ok" \in ShapeOf(r)
        /\ ~IsPoison(c)
        /\ phase' = [phase EXCEPT ![c] = "running"]
        /\ renewing' = [renewing EXCEPT ![c] = TRUE]
        /\ ran' = [ran EXCEPT ![r] = @ \cup {SeenReadCt(c)}]
        /\ UNCHANGED <<tableVars, unsent, channelVars, batch, outcome,
                       lapsed, returned, lost, faults>>

-----------------------------------------------------------------------------
(* _handle: the task body ends. The renewal thread is joined first.        *)

TaskReturns(c) ==
    /\ phase[c] = "running"
    /\ renewing' = [renewing EXCEPT ![c] = FALSE]
    /\ returned' = returned \cup {InFlight(c)}
    /\ Surface(c, "completed")
    /\ UNCHANGED <<tableVars, unsent, channelVars, batch, lapsed, ran,
                   lost, faults>>

\* A dispatch with a return channel is failed and acked; any other row is
\* left claimed, to be redelivered when its lease expires.
TaskRaises(c) ==
    /\ phase[c] = "running"
    /\ renewing' = [renewing EXCEPT ![c] = FALSE]
    /\ \/ /\ Answers(InFlight(c))
          /\ Surface(c, "failed")
          /\ UNCHANGED <<batch, lapsed>>
       \/ /\ ~Answers(InFlight(c))
          /\ Advance(c)
    /\ UNCHANGED <<tableVars, unsent, channelVars, ran, returned, lost,
                   faults>>

-----------------------------------------------------------------------------
(* The return channels. Each write is best-effort: a failure is logged and *)
(* the message is acked all the same.                                      *)

AfterStore(c) ==
    phase' = [phase EXCEPT ![c] =
                IF "rpc" \in KindOf(InFlight(c)) THEN "acking" ELSE "chaining"]

\* Mutant: an upsert.
LastWriteWins(old, new) == new

\* store_result: INSERT ... ON CONFLICT DO NOTHING, so the first write wins.
FirstWriteWins(old, new) == IF old = "none" THEN new ELSE old

\* _store_reply / _fail_reply of an rpc, _record_task_status of a callback.
StoreOutcome(c) ==
    /\ phase[c] = "storing"
    /\ result' = [j \in Job |->
                    IF j \in payload[InFlight(c)]
                    THEN FirstWriteWins(result[j], outcome[c])
                    ELSE result[j]]
    /\ AfterStore(c)
    /\ UNCHANGED <<tableVars, unsent, chained, marked, batch, renewing,
                   outcome, historyVars, faults>>

StoreFails(c) ==
    /\ phase[c] = "storing"
    /\ lost' = IF "rpc" \in KindOf(InFlight(c))
               THEN lost \cup {InFlight(c)} ELSE lost
    /\ AfterStore(c)
    /\ UNCHANGED <<tableVars, unsent, channelVars, batch, renewing, outcome,
                   lapsed, ran, returned, faults>>

\* _chain_continuation enqueues on_success or on_error.
Chain(c) ==
    /\ phase[c] = "chaining"
    /\ chained' = [chained EXCEPT ![InFlight(c)] = @ \cup {outcome[c]}]
    /\ phase' = [phase EXCEPT ![c] = "acking"]
    /\ UNCHANGED <<tableVars, unsent, result, marked, batch, renewing,
                   outcome, historyVars, faults>>

\* Mutant: a failed on_success hand-off does not fall back to on_error.
ChainFailsUnseen(c) ==
    /\ phase[c] = "chaining"
    /\ phase' = [phase EXCEPT ![c] = "acking"]
    /\ UNCHANGED <<tableVars, unsent, channelVars, batch, renewing, outcome,
                   historyVars, faults>>

\* A failed on_success hand-off falls back to on_error; a failed on_error
\* loses the callback.
ChainFails(c) ==
    /\ phase[c] = "chaining"
    /\ IF outcome[c] = "completed"
       THEN Surface(c, "failed") /\ UNCHANGED lost
       ELSE /\ phase' = [phase EXCEPT ![c] = "acking"]
            /\ lost' = lost \cup {InFlight(c)}
            /\ UNCHANGED outcome
    /\ UNCHANGED <<tableVars, unsent, channelVars, batch, renewing,
                   lapsed, ran, returned, faults>>

-----------------------------------------------------------------------------
(* _drop_poison_message                                                    *)

\* Mutant: the drop of an answering message does not answer.
DropPoisonSilently(c) ==
    /\ phase[c] = "poison"
    /\ Answers(InFlight(c))
    /\ phase' = [phase EXCEPT ![c] = "acking"]
    /\ UNCHANGED <<tableVars, unsent, channelVars, batch, renewing, outcome,
                   historyVars, faults>>

DropPoisonAnswering(c) ==
    /\ phase[c] = "poison"
    /\ Answers(InFlight(c))
    /\ Surface(c, "failed")
    /\ UNCHANGED <<tableVars, unsent, channelVars, batch, renewing,
                   historyVars, faults>>

\* No execution to mark, or no organisation to mark it through.
DropPoisonUnmarkable(c) ==
    /\ phase[c] = "poison"
    /\ "leaf" \in KindOf(InFlight(c))
    /\ phase' = [phase EXCEPT ![c] = "acking"]
    /\ UNCHANGED <<tableVars, unsent, channelVars, batch, renewing, outcome,
                   historyVars, faults>>

MarkPoisonError(c) ==
    /\ phase[c] = "poison"
    /\ "pipeline" \in KindOf(InFlight(c))
    /\ marked' = marked \cup payload[InFlight(c)]
    /\ phase' = [phase EXCEPT ![c] = "acking"]
    /\ UNCHANGED <<tableVars, unsent, result, chained, batch, renewing,
                   outcome, historyVars, faults>>

BudgetExhausted(c) == SeenReadCt(c) > MaxAttempts + ReparkBudget

\* The mark could not be confirmed and the re-park budget is spent.
DropPoisonUnconfirmed(c) ==
    /\ phase[c] = "poison"
    /\ "pipeline" \in KindOf(InFlight(c))
    /\ BudgetExhausted(c)
    /\ phase' = [phase EXCEPT ![c] = "acking"]
    /\ UNCHANGED <<tableVars, unsent, channelVars, batch, renewing, outcome,
                   historyVars, faults>>

\* The mark could not be confirmed: set_vt defers the row, whatever its
\* state has become meanwhile.
RePark(c) ==
    /\ phase[c] = "poison"
    /\ "pipeline" \in KindOf(InFlight(c))
    /\ ~BudgetExhausted(c)
    /\ due' = [due EXCEPT ![InFlight(c)] = FALSE]
    /\ Advance(c)
    /\ UNCHANGED <<state, payload, readCt, unsent, channelVars, renewing,
                   ran, returned, lost, faults>>

-----------------------------------------------------------------------------
(* Acknowledging: delete by msg_id, whoever holds the claim by now.        *)

Ack(c) ==
    /\ phase[c] = "acking"
    /\ state' = [state EXCEPT ![InFlight(c)] = "deleted"]
    /\ due' = [due EXCEPT ![InFlight(c)] = FALSE]
    /\ Advance(c)
    /\ UNCHANGED <<payload, readCt, unsent, channelVars, renewing, ran,
                   returned, lost, faults>>

\* delete raised, after its one retry on a reused connection, or set_vt did.
AckFails(c) ==
    /\ \/ phase[c] = "acking"
       \/ /\ phase[c] = "poison"
          /\ "pipeline" \in KindOf(InFlight(c))
          /\ ~BudgetExhausted(c)
    /\ faults < MaxFaults
    /\ faults' = faults + 1
    /\ AbandonBatch(c, "idle")
    /\ UNCHANGED <<tableVars, unsent, channelVars, ran, returned, lost>>

-----------------------------------------------------------------------------
(* Lease renewal (_renew_lease_loop), and the passing of time.             *)

\* Renewals have been failing for a whole lease.
RenewalFails(c) ==
    /\ phase[c] = "running"
    /\ renewing[c]
    /\ faults < MaxFaults
    /\ faults' = faults + 1
    /\ renewing' = [renewing EXCEPT ![c] = FALSE]
    /\ UNCHANGED <<tableVars, unsent, channelVars, phase, batch, outcome,
                   historyVars>>

\* set_vt reaches the database again, or for the first time since the lease
\* passed: by msg_id, with no ownership check. A thread that finds the row gone
\* has stopped.
RenewalRecovers(c) ==
    /\ phase[c] = "running"
    /\ ~renewing[c] \/ due[InFlight(c)]
    /\ state[InFlight(c)] # "deleted"
    /\ renewing' = [renewing EXCEPT ![c] = TRUE]
    /\ due' = [due EXCEPT ![InFlight(c)] = FALSE]
    /\ UNCHANGED <<state, payload, readCt, unsent, channelVars, phase, batch,
                   outcome, historyVars, faults>>

Renewed(r) ==
    \E c \in Consumer : phase[c] = "running" /\ renewing[c] /\ InFlight(c) = r

\* vt of a claimed row, or available_at of a scheduled one, passes.
TimePasses(r) ==
    /\ state[r] \in {"claimed", "scheduled"}
    /\ ~due[r]
    /\ ~Renewed(r)
    /\ due' = [due EXCEPT ![r] = TRUE]
    /\ lapsed' = [c \in Consumer |->
                    IF Holds(c, r) THEN lapsed[c] \cup {r} ELSE lapsed[c]]
    /\ UNCHANGED <<state, payload, readCt, unsent, channelVars, workerVars,
                   ran, returned, lost, faults>>

-----------------------------------------------------------------------------
(* The leader reaper's delivery sweeps.                                    *)

\* Mutant: the sweep does not look at vt.
EveryClaim == {r \in Row : state[r] = "claimed"}

\* Mutant: the sweep leaves poison rows alone.
ExpiredAndRunnable ==
    {r \in Row : state[r] = "claimed" /\ due[r] /\ readCt[r] <= MaxAttempts}

Expired == {r \in Row : state[r] = "claimed" /\ due[r]}
Promotable == {r \in Row : state[r] = "scheduled" /\ due[r]}

RearmExpiredClaims ==
    /\ Expired # {}
    /\ state' = [r \in Row |-> IF r \in Expired THEN "ready" ELSE state[r]]
    /\ UNCHANGED <<payload, readCt, due, unsent, channelVars, workerVars,
                   historyVars, faults>>

PromoteDueScheduled ==
    /\ Promotable # {}
    /\ state' = [r \in Row |-> IF r \in Promotable THEN "ready" ELSE state[r]]
    /\ UNCHANGED <<payload, readCt, due, unsent, channelVars, workerVars,
                   historyVars, faults>>

-----------------------------------------------------------------------------
(* Process death and replacement.                                          *)

Crash(c) ==
    /\ phase[c] # "down"
    /\ faults < MaxFaults
    /\ faults' = faults + 1
    /\ AbandonBatch(c, "down")
    /\ UNCHANGED <<tableVars, unsent, channelVars, ran, returned, lost>>

Restart(c) ==
    /\ phase[c] = "down"
    /\ phase' = [phase EXCEPT ![c] = "idle"]
    /\ UNCHANGED <<tableVars, unsent, channelVars, batch, renewing, outcome,
                   historyVars, faults>>

-----------------------------------------------------------------------------
Produce ==
    \E r \in Row, j \in Job :
        Send(r, j) \/ SendDelayed(r, j) \/ SendRetriedAfterCommit(r, j)

Resolve(c) == DropUnrunnable(c) \/ FindPoison(c) \/ StartTask(c)
TaskEnds(c) == TaskReturns(c) \/ TaskRaises(c)
Deliver(c) == StoreOutcome(c) \/ StoreFails(c) \/ Chain(c) \/ ChainFails(c)
DropPoison(c) ==
    \/ DropPoisonAnswering(c)
    \/ DropPoisonUnmarkable(c)
    \/ MarkPoisonError(c)
    \/ DropPoisonUnconfirmed(c)
    \/ RePark(c)

ConsumerStep(c) ==
    \/ Poll(c)
    \/ Resolve(c)
    \/ TaskEnds(c)
    \/ Deliver(c)
    \/ DropPoison(c)
    \/ Ack(c)

Fault(c) == AckFails(c) \/ RenewalFails(c) \/ Crash(c)

Next ==
    \/ Produce
    \/ \E c \in Consumer :
           ConsumerStep(c) \/ Fault(c) \/ RenewalRecovers(c) \/ Restart(c)
    \/ \E r \in Row : TimePasses(r)
    \/ RearmExpiredClaims
    \/ PromoteDueScheduled

Spec == Init /\ [][Next]_vars

(***************************************************************************)
(* Fairness. A live consumer keeps looping and the supervisor replaces a   *)
(* dead one; a task body ends because every task has a time limit; clocks  *)
(* advance; the reaper singleton ticks. Producers, faults and the recovery *)
(* of a renewal thread are not fair.                                       *)
(***************************************************************************)
Fairness ==
    /\ \A c \in Consumer : WF_vars(ConsumerStep(c)) /\ WF_vars(Restart(c))
    /\ \A r \in Row : WF_vars(TimePasses(r))
    /\ WF_vars(RearmExpiredClaims)
    /\ WF_vars(PromoteDueScheduled)

FairSpec == Spec /\ Fairness

-----------------------------------------------------------------------------
\* The types of the table and of the consumers; a consumer has a batch exactly
\* while it works on one (poll_once).
TypeOK ==
    /\ state \in [Row -> {"none", "scheduled", "ready", "claimed", "deleted"}]
    /\ payload \in [Row -> SUBSET Job]
    /\ readCt \in [Row -> Nat]
    /\ due \in [Row -> BOOLEAN]
    /\ unsent \in SUBSET Job
    /\ result \in [Job -> Outcomes \cup {"none"}]
    /\ chained \in [Row -> SUBSET Outcomes]
    /\ marked \in SUBSET Job
    /\ phase \in [Consumer -> Phases]
    /\ batch \in [Consumer -> Seq(Delivery)]
    /\ renewing \in [Consumer -> BOOLEAN]
    /\ outcome \in [Consumer -> Outcomes]
    /\ lapsed \in [Consumer -> SUBSET Row]
    /\ ran \in [Row -> SUBSET Nat]
    /\ returned \in SUBSET Row
    /\ lost \in SUBSET Row
    /\ faults \in Nat
    /\ \A c \in Consumer : batch[c] = <<>> <=> phase[c] \in {"idle", "down"}

-----------------------------------------------------------------------------
(* Safety.                                                                 *)

Acked == {r \in Row : state[r] = "deleted"}
Runnable(r) == ShapeOf(r) = {"ok"}
GaveUp(r) == readCt[r] > MaxAttempts

(***************************************************************************)
(* No message that can run and has no return channel disappears silently:  *)
(* its row is deleted only after its body returned in some delivery, or    *)
(* after more than MaxAttempts deliveries. In the second case the          *)
(* execution of a pipeline message is marked ERROR, unless the re-park     *)
(* budget was spent on an unreachable backend as well                      *)
(* (consumer.py _handle and _drop_poison_message).                         *)
(***************************************************************************)
NoSilentLoss ==
    \A r \in Acked :
        Runnable(r) /\ ~Answers(r) =>
            \/ r \in returned
            \/ /\ GaveUp(r)
               /\ \/ KindOf(r) = {"leaf"}
                  \/ payload[r] \subseteq marked
                  \/ readCt[r] > MaxAttempts + ReparkBudget

(***************************************************************************)
(* A dispatch with a return channel is acked only when an answer is in it: *)
(* a stored result for an rpc, an enqueued continuation for a callback. It *)
(* holds through double runs, poison and unrunnable drops; the exceptions  *)
(* are exactly the writes that failed and were logged (_store_reply,       *)
(* _fail_dispatch, _chain_continuation).                                   *)
(***************************************************************************)
OutcomeSurfaced ==
    \A r \in Acked \ lost :
        /\ KindOf(r) = {"rpc"} => \A j \in payload[r] : result[j] # "none"
        /\ KindOf(r) = {"callback"} => chained[r] # {}

(***************************************************************************)
(* The deliveries that run a body are few and each does so once: at most   *)
(* MaxAttempts bodies start for a row, through lapsed leases, zombies and  *)
(* restarts, and a delivery about to be resolved, or waiting in a batch,   *)
(* has not run (read_ct is the fencing number of _dequeue_sql, max_attempts*)
(* its bound in _resolve_runnable_task).                                   *)
(***************************************************************************)
Pending(c, i) == i > 1 \/ phase[c] = "resolve"

BoundedRuns ==
    /\ \A r \in Row : Cardinality(ran[r]) <= MaxAttempts
    /\ \A c \in Consumer : \A i \in 1..Len(batch[c]) :
           Pending(c, i) => batch[c][i].readCt \notin ran[batch[c][i].row]

(***************************************************************************)
(* Two consumers hold one row only when one of them has lost its lease     *)
(* since it claimed: the claim statement, the re-arm sweep, re-parking and *)
(* the renewals of a zombie never hand a row to two lease holders.         *)
(***************************************************************************)
SoleLeaseHolder ==
    \A c, d \in Consumer : \A r \in Row :
        c # d /\ Holds(c, r) /\ Holds(d, r) => r \in lapsed[c] \cup lapsed[d]

(***************************************************************************)
(* The lease of a message that waits behind another in its batch is not    *)
(* renewed, so it may lapse while the head runs. With the short lease this *)
(* never happens, however slow the head (the clamp in __init__).           *)
(***************************************************************************)
TailKeepsItsLease ==
    ShortLease =>
        \A c \in Consumer : \A i \in 2..Len(batch[c]) :
            batch[c][i].row \notin lapsed[c]

-----------------------------------------------------------------------------
(* Liveness, and the contract the queue implements.                        *)

(***************************************************************************)
(* Every message that entered the table is eventually acked: crashed       *)
(* workers, failed acks and raising bodies delay it but cannot wedge it,   *)
(* and no row waits for ever behind a poison one (run, tick).              *)
(***************************************************************************)
EveryMessageSettles ==
    \A r \in Row : state[r] # "none" ~> state[r] = "deleted"

StatusOf(r) ==
    CASE state[r] = "none" -> "absent"
      [] state[r] = "deleted" -> "settled"
      [] OTHER -> "open"

OneShot == {r \in Row : payload[r] # {} /\ (Answers(r) \/ ~Runnable(r))}

Contract == INSTANCE WorkQueue WITH
    Message <- Row, status <- [r \in Row |-> StatusOf(r)],
    oneShot <- OneShot, deliveries <- readCt, runs <- ran,
    finished <- returned

(***************************************************************************)
(* The table, its consumers and the sweeps implement the message contract  *)
(* of WorkQueue.                                                           *)
(***************************************************************************)
ImplementsContract == Contract!Spec
=============================================================================
