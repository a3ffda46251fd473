---------------------------- MODULE LeaseRenewal ----------------------------
(***************************************************************************)
(* The renewable lease of one claimed queue message, with its clocks: the  *)
(* consumer that runs the task, its renewal thread (consumer.py,           *)
(* _lease_renewal and _renew_lease_loop), set_vt (client.py) and the       *)
(* reaper's re-arm sweep (reaper.py). It justifies the assumption module   *)
(* PgQueue makes with one bit per row, that the claim of a live consumer   *)
(* is never re-armed, and says what that costs in time.                    *)
(*                                                                         *)
(* The model starts at the claim and ends when the row is acknowledged or  *)
(* re-armed. Time is counted in whole seconds of the database's clock.     *)
(***************************************************************************)
EXTENDS Integers

CONSTANTS
    LeaseSeconds,  \* WORKER_PG_QUEUE_CONSUMER_LEASE_SECONDS
    VtSeconds,     \* WORKER_PG_QUEUE_CONSUMER_VT_SECONDS
    JoinTimeout,   \* _LEASE_JOIN_TIMEOUT_SECONDS
    Stall,         \* longest a thread start or a set_vt call takes
    MaxMissed,     \* connection deaths in a row that are covered
    SweepInterval, \* longest time between two re-arm sweeps
    Horizon        \* bound on the clock

ASSUME ConstantAssumption ==
    /\ LeaseSeconds \in Nat \ {0}
    /\ VtSeconds \in Nat \ {0}
    /\ JoinTimeout \in Nat
    /\ Stall \in Nat
    /\ MaxMissed \in Nat
    /\ SweepInterval \in Nat \ {0}
    /\ Horizon \in Nat

VARIABLES
    now,       \* the database's clock; the row was claimed at 0
    row,       \* state column of the row, or "deleted"
    vt,        \* vt column: the claim may be re-armed from then on
    worker,    \* the consumer's progress on the message
    thread,    \* the renewal thread
    deadline,  \* latest time the thread leaves its current phase
    missed,    \* renewals in a row that met a dead connection
    leftAt,    \* time at which the task ended or the consumer died
    nextSweep  \* latest time of the reaper's next sweep

vars == <<now, row, vt, worker, thread, deadline, missed, leftAt, nextSweep>>

RowStates == {"claimed", "ready", "deleted"}

\* acking: the task returned; left: it raised and the row is left to expire.
WorkerStates == {"running", "acking", "left", "acked", "dead"}

\* calling: set_vt is on its way; replying: the UPDATE has committed and the
\* thread does not know yet.
ThreadStates == {"starting", "waiting", "calling", "replying", "stopped"}

Lease == IF LeaseSeconds <= VtSeconds THEN LeaseSeconds ELSE VtSeconds

\* Mutant: renews every half lease.
IntervalHalf == IF Lease \div 2 > 1 THEN Lease \div 2 ELSE 1

Interval == IF Lease \div 3 > 1 THEN Lease \div 3 ELSE 1

(***************************************************************************)
(* The timing under which the lease cannot lapse: MaxMissed dead           *)
(* connections in a row, each preceded by one interval and lasting Stall,  *)
(* and the answer and the UPDATE around them.                              *)
(***************************************************************************)
Slack == (MaxMissed + 1) * (Interval + Stall) + Stall < Lease

Init ==
    /\ now = 0
    /\ row = "claimed"
    /\ vt = Lease
    /\ worker = "running"
    /\ thread = "starting"
    /\ deadline = Stall
    /\ missed = 0
    /\ leftAt = 0
    /\ nextSweep = SweepInterval

-----------------------------------------------------------------------------
(* Time passes unless a step is due now. *)

Tick ==
    /\ now < Horizon
    /\ thread # "stopped" => now < deadline
    /\ now < nextSweep
    /\ now' = now + 1
    /\ UNCHANGED <<row, vt, worker, thread, deadline, missed, leftAt,
                   nextSweep>>

-----------------------------------------------------------------------------
(* The renewal thread. *)

\* stop.wait(interval), entered again after each attempt; it returns at once
\* when the task has ended.
Sleep ==
    IF worker = "running"
    THEN /\ thread' = "waiting"
         /\ deadline' = now + Interval
    ELSE /\ thread' = "stopped"
         /\ UNCHANGED deadline

Begin ==
    /\ thread = "starting"
    /\ Sleep
    /\ UNCHANGED <<now, row, vt, worker, missed, leftAt, nextSweep>>

Wake ==
    /\ thread = "waiting"
    /\ now = deadline
    /\ thread' = "calling"
    /\ deadline' = now + Stall
    /\ UNCHANGED <<now, row, vt, worker, missed, leftAt, nextSweep>>

SetVt ==
    /\ thread = "calling"
    /\ row # "deleted"
    /\ vt' = now + Lease
    /\ missed' = 0
    /\ thread' = "replying"
    /\ UNCHANGED <<now, row, worker, deadline, leftAt, nextSweep>>

\* The answer arrives, or its connection dies after the commit: the thread
\* goes on either way.
Answered ==
    /\ thread = "replying"
    /\ Sleep
    /\ UNCHANGED <<now, row, vt, worker, missed, leftAt, nextSweep>>

\* A CONN_DEAD_ERRORS before the UPDATE committed: retried next time round.
ConnectionDies ==
    /\ thread = "calling"
    /\ missed < MaxMissed
    /\ missed' = missed + 1
    /\ Sleep
    /\ UNCHANGED <<now, row, vt, worker, leftAt, nextSweep>>

\* set_vt returns False, or any other error ends the thread.
RenewalEnds ==
    /\ thread \in {"calling", "replying"}
    /\ thread' = "stopped"
    /\ UNCHANGED <<now, row, vt, worker, deadline, missed, leftAt, nextSweep>>

-----------------------------------------------------------------------------
(* The consumer's main thread. *)

\* The context manager exits: stop is set, and a sleeping thread ends.
TaskEnds ==
    /\ worker = "running"
    /\ worker' \in {"acking", "left"}
    /\ leftAt' = now
    /\ thread' = IF thread = "waiting" THEN "stopped" ELSE thread
    /\ UNCHANGED <<now, row, vt, deadline, missed, nextSweep>>

\* Runs after the join of the thread, which gives up after JoinTimeout.
Ack ==
    /\ worker = "acking"
    /\ thread = "stopped" \/ now >= leftAt + JoinTimeout
    /\ worker' = "acked"
    /\ row' = "deleted"
    /\ UNCHANGED <<now, vt, thread, deadline, missed, leftAt, nextSweep>>

\* Mutant: the renewal thread outlives its process.
DiesAlone ==
    /\ worker \in {"running", "acking"}
    /\ worker' = "dead"
    /\ leftAt' = now
    /\ UNCHANGED <<now, row, vt, thread, deadline, missed, nextSweep>>

\* The process dies and takes the thread along; a call in flight may still
\* commit.
Die ==
    /\ worker \in {"running", "acking"}
    /\ worker' = "dead"
    /\ leftAt' = now
    /\ thread' = "stopped"
    /\ \/ UNCHANGED vt
       \/ /\ thread = "calling"
          /\ row # "deleted"
          /\ vt' = now + Lease
    /\ UNCHANGED <<now, row, deadline, missed, nextSweep>>

-----------------------------------------------------------------------------
(* The leader reaper's re-arm sweep, at the latest every SweepInterval. *)

RearmExpiredClaims ==
    /\ row' = IF row = "claimed" /\ vt <= now THEN "ready" ELSE row
    /\ nextSweep' = now + SweepInterval
    /\ UNCHANGED <<now, vt, worker, thread, deadline, missed, leftAt>>

Next ==
    \/ Tick
    \/ Begin \/ Wake \/ SetVt \/ Answered \/ ConnectionDies \/ RenewalEnds
    \/ TaskEnds \/ Ack \/ Die
    \/ RearmExpiredClaims

Spec == Init /\ [][Next]_vars

-----------------------------------------------------------------------------
(* Types of the variables, and that a claim never outlasts one lease. *)
TypeOK ==
    /\ now \in Nat
    /\ row \in RowStates
    /\ vt \in Nat /\ vt <= now + Lease
    /\ worker \in WorkerStates
    /\ thread \in ThreadStates
    /\ deadline \in Nat
    /\ missed \in 0..MaxMissed
    /\ leftAt \in 0..now
    /\ nextSweep \in Nat /\ now <= nextSweep
    /\ row = "deleted" => worker = "acked"

(* A live consumer keeps its claim: while the task runs and its renewal    *)
(* thread is alive, the row is claimed and no sweep can re-arm it, through *)
(* MaxMissed dead connections in a row (consumer.py: "a live one is never  *)
(* redelivered"). It needs Slack.                                          *)
LiveClaimHeld ==
    worker = "running" /\ thread # "stopped" => row = "claimed" /\ now < vt

(* A claim nobody works on any more is re-armed within one lease and one   *)
(* sweep interval of the task's end or the consumer's death, plus the call *)
(* that was in flight (consumer.py: "a dead worker's claim expires in      *)
(* ~LEASE").                                                               *)
DeadClaimFreed ==
    worker \in {"left", "dead"} /\ row = "claimed"
        => now <= leftAt + Stall + Lease + SweepInterval

=============================================================================
