-------------------------- MODULE ReaperLeadership --------------------------
(***************************************************************************)
(* The leadership lease of the orchestrator (pg_queue/leader_election.py)  *)
(* and the cycle of the reaper processes that compete for it               *)
(* (pg_queue/reaper.py, tick and run): maintain the lease, then do the     *)
(* recovery duties in their fixed order, then sleep.                       *)
(*                                                                         *)
(* The single pg_orchestrator_lock row is the pair leader, age: acquired_at*)
(* matters only through the time since, which saturates one past the       *)
(* lease. A duty takes any time at all, as it calls the database and the   *)
(* backend; what it does to the other tables is modelled elsewhere.        *)
(***************************************************************************)
EXTENDS Integers

CONSTANTS
    Reaper,    \* reaper processes; a restart is a new worker_id
    Free,      \* the leader column is ''
    Gone,      \* the leader column names a process that is no more
    Lease,     \* WORKER_PG_ORCHESTRATOR_LEASE_SECONDS, in ticks of the clock
    MaxFaults  \* bound on errors raised, stops and crashes

ASSUME ConstantAssumption ==
    /\ Lease \in Nat \ {0}
    /\ MaxFaults \in Nat
    /\ Free # Gone
    /\ Free \notin Reaper
    /\ Gone \notin Reaper

VARIABLES
    leader,     \* leader column of the lock row
    age,        \* now() - acquired_at, up to Lease + 1
    isLeader,   \* [Reaper -> BOOLEAN], _is_leader
    pc,         \* [Reaper -> where the process is in its cycle]
    confirmed,  \* [Reaper -> time since it last confirmed its lease], history
    faults

vars == <<leader, age, isLeader, pc, confirmed, faults>>

\* The parts of a leader's tick, in the order of PgReaper.tick.
Duties == {"barriers", "rearm", "promote", "schedules", "periodic", "sweeps"}
After == [barriers |-> "rearm", rearm |-> "promote", promote |-> "schedules",
          schedules |-> "periodic", periodic |-> "sweeps", sweeps |-> "sleep"]

\* sleep: between two ticks; acquire: inside one, before try_acquire.
Places == Duties \cup {"sleep", "acquire", "down"}

Age == 0..(Lease + 1)
Older(a) == IF a <= Lease THEN a + 1 ELSE a

Init ==
    /\ leader = Free
    /\ age \in {0, Lease + 1}
    /\ isLeader = [p \in Reaper |-> FALSE]
    /\ pc = [p \in Reaper |-> "acquire"]
    /\ confirmed = [p \in Reaper |-> Lease + 1]
    /\ faults = 0

Clock ==
    /\ age' = Older(age)
    /\ confirmed' = [p \in Reaper |-> Older(confirmed[p])]
    /\ UNCHANGED <<leader, isLeader, pc, faults>>

Fault ==
    /\ faults < MaxFaults
    /\ faults' = faults + 1

-----------------------------------------------------------------------------
(* The lease: one UPDATE each, decided on the database's clock. *)

\* Mutant: takes a lease that is about to expire.
StaleSoon == age >= Lease

\* Mutant: takes a free lease only.
StaleNever == FALSE

Stale == age > Lease

Take(p) ==
    /\ leader' = p
    /\ age' = 0

\* p has the answer and acts on it until its next tick.
Confirm(p) ==
    /\ isLeader' = [isLeader EXCEPT ![p] = TRUE]
    /\ pc' = [pc EXCEPT ![p] = "barriers"]
    /\ confirmed' = [confirmed EXCEPT ![p] = 0]

-----------------------------------------------------------------------------
(* The first half of tick: keep or get the lease. *)

Wake(p) ==
    /\ pc[p] = "sleep"
    /\ ~isLeader[p]
    /\ pc' = [pc EXCEPT ![p] = "acquire"]
    /\ UNCHANGED <<leader, age, isLeader, confirmed, faults>>

Renew(p) ==
    /\ pc[p] = "sleep"
    /\ isLeader[p]
    /\ leader = p
    /\ Take(p)
    /\ Confirm(p)
    /\ UNCHANGED faults

\* renew() is False: step down, and try_acquire in the same tick.
StepDown(p) ==
    /\ pc[p] = "sleep"
    /\ isLeader[p]
    /\ leader # p
    /\ isLeader' = [isLeader EXCEPT ![p] = FALSE]
    /\ pc' = [pc EXCEPT ![p] = "acquire"]
    /\ UNCHANGED <<leader, age, confirmed, faults>>

\* renew() raises, before or after its commit: leadership is unknown.
RenewRaises(p) ==
    /\ pc[p] = "sleep"
    /\ isLeader[p]
    /\ isLeader' = [isLeader EXCEPT ![p] = FALSE]
    /\ \/ UNCHANGED <<leader, age>>
       \/ leader = p /\ Take(p)
    /\ Fault
    /\ UNCHANGED <<pc, confirmed>>

TryAcquire(p) ==
    /\ pc[p] = "acquire"
    /\ leader = Free \/ Stale
    /\ Take(p)
    /\ Confirm(p)
    /\ UNCHANGED faults

StayStandby(p) ==
    /\ pc[p] = "acquire"
    /\ ~(leader = Free \/ Stale)
    /\ pc' = [pc EXCEPT ![p] = "sleep"]
    /\ UNCHANGED <<leader, age, isLeader, confirmed, faults>>

\* try_acquire raises; when it had committed, p holds a lease it does not
\* know of, and cannot take it before it is stale.
AcquireRaises(p) ==
    /\ pc[p] = "acquire"
    /\ pc' = [pc EXCEPT ![p] = "sleep"]
    /\ \/ UNCHANGED <<leader, age>>
       \/ (leader = Free \/ Stale) /\ Take(p)
    /\ Fault
    /\ UNCHANGED <<isLeader, confirmed>>

-----------------------------------------------------------------------------
(* The second half of tick: the duties of the leader. *)

Acting(p) == pc[p] \in Duties

DutyDone(p) ==
    /\ Acting(p)
    /\ pc' = [pc EXCEPT ![p] = After[pc[p]]]
    /\ UNCHANGED <<leader, age, isLeader, confirmed, faults>>

\* Any duty but the sweeps, which log their errors, ends the tick; run() logs
\* it and sleeps. The process still believes it leads.
DutyFails(p) ==
    /\ Acting(p)
    /\ pc[p] # "sweeps"
    /\ pc' = [pc EXCEPT ![p] = "sleep"]
    /\ Fault
    /\ UNCHANGED <<leader, age, isLeader, confirmed>>

-----------------------------------------------------------------------------
(* The end of a process. *)

\* The lease row of a process that will not use it again.
Abandoned(p) == IF leader = p THEN Gone ELSE leader

Leave(p) ==
    /\ isLeader' = [isLeader EXCEPT ![p] = FALSE]
    /\ pc' = [pc EXCEPT ![p] = "down"]
    /\ confirmed' = [confirmed EXCEPT ![p] = Lease + 1]
    /\ Fault

\* Mutant: release() without its "leader = us".
StopUnguarded(p) ==
    /\ pc[p] = "sleep"
    /\ \/ isLeader[p] /\ leader' = Free /\ age' = 0
       \/ ~isLeader[p] /\ leader' = Abandoned(p) /\ UNCHANGED age
    /\ Leave(p)

\* SIGTERM: run() finishes the tick and the sleep, then releases what it
\* believes it holds; a release that raises leaves the row as it is.
Stop(p) ==
    /\ pc[p] = "sleep"
    /\ \/ isLeader[p] /\ leader = p /\ leader' = Free /\ age' = 0
       \/ leader' = Abandoned(p) /\ UNCHANGED age
    /\ Leave(p)

Crash(p) ==
    /\ pc[p] # "down"
    /\ leader' = Abandoned(p)
    /\ UNCHANGED age
    /\ Leave(p)

\* A new process with a worker_id of its own.
Start(p) ==
    /\ pc[p] = "down"
    /\ pc' = [pc EXCEPT ![p] = "acquire"]
    /\ UNCHANGED <<leader, age, isLeader, confirmed, faults>>

-----------------------------------------------------------------------------
Tick(p) ==
    \/ Wake(p) \/ Renew(p) \/ StepDown(p) \/ TryAcquire(p) \/ StayStandby(p)
    \/ DutyDone(p)

Broken(p) ==
    \/ RenewRaises(p) \/ AcquireRaises(p) \/ DutyFails(p)
    \/ Stop(p) \/ Crash(p)

Next ==
    \/ Clock
    \/ \E p \in Reaper : Tick(p) \/ Broken(p) \/ Start(p)

Spec == Init /\ [][Next]_vars

(***************************************************************************)
(* Time passes, a process that runs keeps ticking (run() loops and every   *)
(* call it makes returns or raises), and one that died is started again by *)
(* whatever supervises it.                                                 *)
(***************************************************************************)
Fairness ==
    /\ WF_vars(Clock)
    /\ \A p \in Reaper : WF_vars(Tick(p)) /\ WF_vars(Start(p))

FairSpec == Spec /\ Fairness

-----------------------------------------------------------------------------
(* Types of the variables; only a process that believes it leads acts.     *)
TypeOK ==
    /\ leader \in Reaper \cup {Free, Gone}
    /\ age \in Age
    /\ isLeader \in [Reaper -> BOOLEAN]
    /\ pc \in [Reaper -> Places]
    /\ confirmed \in [Reaper -> Age]
    /\ faults \in 0..MaxFaults
    /\ \A p \in Reaper : Acting(p) => isLeader[p]

(* Two reapers act at once only when one of them has been in its tick for  *)
(* longer than the lease: the lease row is what keeps recovery single      *)
(* (leader_election.py: "exactly one active instance").                    *)
SoleActor ==
    \A p, q \in Reaper :
        p # q /\ Acting(p) /\ Acting(q)
            => confirmed[p] > Lease \/ confirmed[q] > Lease

(* Nobody takes a lease younger than its window: it ends before that only  *)
(* with the process that holds it, so no late release, no standby and no   *)
(* answer that was lost can wipe a new holder (leader_election.py,         *)
(* release: "a late release can't wipe the new holder").                   *)
NoEarlyTakeover ==
    [][\A p \in Reaper :
           leader = p /\ age <= Lease /\ leader' # p => pc'[p] = "down"]_vars

(* Leadership is never lost for good: whatever fails, crashes or commits   *)
(* without an answer, some reaper later finishes the duties that recovery  *)
(* and delivery wait for, including the sweeps at the end of the tick.     *)
RecoveryRecurs == []<>(\E p \in Reaper : pc[p] = "sweeps")
=============================================================================
