------------------------ MODULE ApiAdmission_proofs ------------------------
(***************************************************************************)
(* Proofs about ApiAdmission for every set of requests and organizations,  *)
(* every limit and any number of faults: by how much the limits are        *)
(* exceeded, and what becomes of the slot, the input and the row of an     *)
(* execution.                                                              *)
(***************************************************************************)
EXTENDS ApiAdmission, FiniteSetTheorems, TLAPS

-----------------------------------------------------------------------------
(* The inductive invariant.                                                *)

\* A request in the section holds the lock, or its lock has run out.
Locked(r) == pc[r] \in Section => r \in lapsed \/ lock[orgOf[r]] = r

Lapsed(o) == {r \in lapsed : orgOf[r] = o}

\* The slots of an organization, and those about to be taken.
Claims(o) == SlotsOf(o) \cup
             {r \in Request : orgOf[r] = o /\ pc[r] \in {"global", "add"}}

OrgBound(o) == Cardinality(Claims(o)) <= OrgLimit[o] + Cardinality(Lapsed(o))

OrgsOf(S) == {orgOf[r] : r \in S}

Takers == globalSlots \cup {r \in Request : pc[r] = "add"}

GlobalBound ==
    Takers # {} => Cardinality(Takers) - Cardinality(OrgsOf(Takers))
                      < GlobalLimit + Cardinality(lapsed)

BeforeRow == {"lock", "create"} \cup Section
BeforeMessage == BeforeRow \cup {"stage", "unstage", "dispatch"}

\* What the request did not learn, or did not write down.
Unrecorded == faults \cap {"answer", "stamp", "crash"} # {}

\* A message may be delivered again.
Again == faults \cap {"crash", "lapse"} # {}

Sent(r) == job[r][1] # "none"

Closed(r) == \E d \in Deliveries : job[r][d] = "closed"

Ordered(r) ==
    /\ pc[r] \in BeforeRow => status[r] = "none"
    /\ pc[r] \in BeforeMessage => ~ Sent(r)
    /\ pc[r] \in {"stamp", "handle"} => Sent(r)
    /\ ~ Sent(r) => r \notin stamped \cup handled
    /\ ~ Sent(r) => status[r] # "EXECUTING"

\* There are more runs than one only of a message delivered again.
Counted(r) ==
    /\ ~ Sent(r) => \A d \in Deliveries : job[r][d] = "none"
    /\ Again \/ \A d \in Deliveries \ {1} : job[r][d] = "none"

Evident(r) ==
    Sent(r) =>
        /\ pc[r] = "undo" => "answer" \in faults
        /\ pc[r] = "cleanup" => faults \cap {"enrich", "answer"} # {}
        /\ \/ r \in handled \/ pc[r] \in {"stamp", "handle"}
           \/ faults \cap {"answer", "handle", "crash"} # {}
        /\ status[r] = "PENDING" => \/ r \in stamped \cup handled
                                    \/ pc[r] = "stamp" \/ Unrecorded

Held(r) ==
    r \notin slotless =>
        /\ pc[r] \in {"admit", "create", "stage", "dispatch"}
           => r \in orgSlots /\ r \in globalSlots
        /\ Running(r)
           => \/ r \in orgSlots /\ (r \in globalSlots \/ "enrich" \in faults)
              \/ Unrecorded \/ Again

Freed(r) ==
    r \in orgSlots \cup globalSlots /\ status[r] \in Terminal
        => "redis" \in faults

Swept(r) ==
    r \in swept => /\ pc[r] \in {"answer", "cleanup", "done", "dead"}
                   /\ Sent(r) => Unrecorded

Staged(r) ==
    /\ pc[r] = "dispatch" => r \in input
    /\ Sent(r)
       => r \in input \/ Closed(r) \/ faults \cap {"enrich", "answer"} # {}

Ended(r) ==
    Sent(r) /\ ~ Running(r)
        => \/ status[r] \notin {"PENDING", "EXECUTING"}
           \/ "orchestrator" \in faults

Sound(r) ==
    /\ Ordered(r) /\ Counted(r) /\ Evident(r) /\ Held(r) /\ Freed(r)
    /\ Swept(r) /\ Staged(r) /\ Ended(r)

-----------------------------------------------------------------------------
(* Types.                                                                  *)

BaseOK ==
    /\ orgOf \in [Request -> Org]
    /\ pc \in [Request -> Steps]
    /\ lock \in [Org -> Request \cup {Nobody}]
    /\ status \in [Request -> Statuses]
    /\ job \in [Request -> [Deliveries -> Jobs]]
    /\ lapsed \subseteq Request /\ orgSlots \subseteq Request
    /\ globalSlots \subseteq Request /\ slotless \subseteq Request
    /\ stamped \subseteq Request /\ handled \subseteq Request
    /\ swept \subseteq Request /\ input \subseteq Request
    /\ snap \subseteq Request \X Deliveries
    /\ faults \subseteq Kinds

LEMMA FirstIsDelivery == 1 \in Deliveries
BY ApiAssumption DEF Deliveries

LEMMA FaultGrows ==
    ASSUME faults \subseteq Kinds, NEW kind \in Kinds, Fault(kind)
    PROVE  /\ faults' \subseteq Kinds
           /\ faults \subseteq faults' /\ kind \in faults'
BY DEF Fault

LEMMA KindsAre ==
    {"redis", "crash", "lapse", "request", "orchestrator", "final", "answer",
     "stamp", "handle", "enrich"} \subseteq Kinds
BY DEF Kinds

LEMMA GotoTyped ==
    ASSUME BaseOK, NEW r \in Request, NEW s \in Steps, Goto(r, s)
    PROVE  /\ pc' \in [Request -> Steps] /\ orgOf' \in [Request -> Org]
           /\ pc'[r] = s /\ \A q \in Request \ {r} : pc'[q] = pc[q]
BY DEF Goto, BaseOK

LEMMA GoJobTyped ==
    ASSUME BaseOK, NEW r \in Request, NEW d \in Deliveries, NEW j \in Jobs,
           GoJob(r, d, j)
    PROVE  /\ job' \in [Request -> [Deliveries -> Jobs]]
           /\ job'[r][d] = j
           /\ \A e \in Deliveries \ {d} : job'[r][e] = job[r][e]
           /\ \A q \in Request \ {r} : job'[q] = job[q]
BY DEF GoJob, BaseOK

LEMMA ReleaseEffect ==
    ASSUME BaseOK, NEW r \in Request, Release(r) \/ ReleaseOrganization(r)
    PROVE  /\ orgSlots' \subseteq orgSlots /\ globalSlots' \subseteq globalSlots
           /\ orgSlots \ {r} \subseteq orgSlots'
           /\ globalSlots \ {r} \subseteq globalSlots'
           /\ faults \subseteq faults' /\ faults' \subseteq Kinds
           /\ Release(r) => \/ "redis" \in faults'
                            \/ r \notin orgSlots' /\ r \notin globalSlots'
<1>1. CASE Fault("redis") /\ UNCHANGED slots
  BY <1>1, FaultGrows, KindsAre DEF BaseOK, slots
<1>2. CASE orgSlots' \in {orgSlots, orgSlots \ {r}}
           /\ globalSlots' = globalSlots \ {r} /\ UNCHANGED faults
           /\ (Release(r) => orgSlots' = orgSlots \ {r} \/ "redis" \in faults')
  BY <1>2 DEF BaseOK
<1>3. QED
  BY <1>1, <1>2 DEF Release, ReleaseOrganization

LEMMA CloseEffect ==
    ASSUME BaseOK, NEW r \in Request, NEW s \in Terminal, Close(r, s)
    PROVE  /\ status' \in [Request -> Statuses]
           /\ \A q \in Request \ {r} : status'[q] = status[q]
           /\ status'[r] \in Terminal
           /\ orgSlots' \subseteq orgSlots /\ globalSlots' \subseteq globalSlots
           /\ orgSlots \ {r} \subseteq orgSlots'
           /\ globalSlots \ {r} \subseteq globalSlots'
           /\ faults \subseteq faults' /\ faults' \subseteq Kinds
           /\ \/ "redis" \in faults'
              \/ r \notin orgSlots' /\ r \notin globalSlots'
              \/ /\ status[r] \in Terminal
                 /\ UNCHANGED <<status, orgSlots, globalSlots, faults>>
<1>1. s \in Statuses /\ "COMPLETED" \in Terminal
  BY DEF Statuses, Terminal
<1>2. CASE r \in handled /\ status[r] = "COMPLETED" /\ s # "COMPLETED"
  BY <1>1, <1>2 DEF Close, slots, BaseOK
<1>3. CASE ~(r \in handled /\ status[r] = "COMPLETED" /\ s # "COMPLETED")
  <2>1. status' = [status EXCEPT ![r] = s] /\ Release(r)
    BY <1>3 DEF Close
  <2>2. QED
    BY <1>1, <2>1, ReleaseEffect DEF BaseOK
<1>4. QED
  BY <1>2, <1>3

LEMMA LimiterKeepsTypes ==
    ASSUME BaseOK, NEW r \in Request,
           \/ Acquire(r) \/ FailOpen(r) \/ CountOrg(r) \/ CountGlobal(r)
           \/ Add(r) \/ Unlock(r)
    PROVE  BaseOK' /\ faults \subseteq faults'
<1> USE DEF slots, row, evidence, run
<1>1. {"count", "create", "admit", "refuse", "global", "add", "done"}
         \subseteq Steps
  BY DEF Steps, Serving, Section, InTransit
<1>2. "redis" \in Kinds /\ orgOf[r] \in Org
  BY KindsAre DEF BaseOK
<1>3. CASE Acquire(r)
  <2>1. faults' \subseteq Kinds /\ faults \subseteq faults'
    BY <1>2, <1>3, FaultGrows DEF Acquire, BaseOK
  <2>2. pc' \in [Request -> Steps] /\ orgOf' \in [Request -> Org]
    BY <1>1, <1>3, GotoTyped DEF Acquire
  <2>3. lock' \in [Org -> Request \cup {Nobody}]
    BY <1>2, <1>3 DEF Acquire, BaseOK
  <2>4. QED
    BY <1>3, <2>1, <2>2, <2>3 DEF Acquire, BaseOK
<1>4. CASE FailOpen(r)
  <2>1. faults' \subseteq Kinds /\ faults \subseteq faults'
    BY <1>2, <1>4, FaultGrows DEF FailOpen, BaseOK
  <2>2. QED
    BY <1>1, <1>4, <2>1, GotoTyped DEF FailOpen, BaseOK
<1>5. CASE CountOrg(r)
  <2>1. pc' \in [Request -> Steps] /\ orgOf' \in [Request -> Org]
    BY <1>1, <1>5, GotoTyped DEF CountOrg
  <2>2. QED
    BY <1>5, <2>1 DEF CountOrg, BaseOK
<1>6. CASE CountGlobal(r)
  <2>1. pc' \in [Request -> Steps] /\ orgOf' \in [Request -> Org]
    BY <1>1, <1>6, GotoTyped DEF CountGlobal
  <2>2. QED
    BY <1>6, <2>1 DEF CountGlobal, BaseOK, limiter
<1>7. CASE Add(r)
  <2>1. faults' \subseteq Kinds /\ faults \subseteq faults'
    BY <1>2, <1>7, FaultGrows DEF Add, BaseOK
  <2>2. QED
    BY <1>1, <1>7, <2>1, GotoTyped DEF Add, BaseOK
<1>8. CASE Unlock(r)
  <2>1. faults' \subseteq Kinds /\ faults \subseteq faults'
    BY <1>2, <1>8, FaultGrows DEF Unlock, BaseOK
  <2>2. pc' \in [Request -> Steps] /\ orgOf' \in [Request -> Org]
    BY <1>1, <1>8, GotoTyped DEF Unlock
  <2>3. lock' \in [Org -> Request \cup {Nobody}]
    BY <1>2, <1>8 DEF Unlock, BaseOK
  <2>4. QED
    BY <1>8, <2>1, <2>2, <2>3 DEF Unlock, BaseOK
<1>9. QED
  BY <1>3, <1>4, <1>5, <1>6, <1>7, <1>8

LEMMA RequestKeepsTypes ==
    ASSUME BaseOK, NEW r \in Request,
           \/ Create(r) \/ Stage(r) \/ Unstage(r) \/ Dispatch(r) \/ Undo(r)
           \/ Stamp(r) \/ RecordHandle(r) \/ Answer(r) \/ CleanUp(r)
           \/ RequestDies(r)
    PROVE  BaseOK' /\ faults \subseteq faults'
<1> USE DEF limiter, slots, row, evidence, run
<1>1. {"done", "stage", "dispatch", "unstage", "cleanup", "stamp", "undo",
       "answer", "handle", "dead"} \subseteq Steps
  BY DEF Steps, Serving, Section, InTransit
<1>2. /\ {"PENDING", "ERROR"} \subseteq Statuses /\ "ERROR" \in Terminal
      /\ "queued" \in Jobs
  BY DEF Statuses, Terminal, Jobs, Live
<1>3. CASE Create(r)
  <2>1. CASE ReleaseOrganization(r) /\ Goto(r, "done")
             /\ status' \in {status, [status EXCEPT ![r] = "PENDING"]}
    BY <1>1, <1>2, <1>3, <2>1, GotoTyped, ReleaseEffect DEF Create, BaseOK
  <2>2. CASE UNCHANGED <<slots, faults>> /\ Goto(r, "stage")
             /\ status' = [status EXCEPT ![r] = "PENDING"]
    BY <1>1, <1>2, <1>3, <2>2, GotoTyped DEF Create, BaseOK
  <2>3. QED
    BY <1>3, <2>1, <2>2 DEF Create
<1>4. CASE Stage(r)
  BY <1>1, <1>4, GotoTyped DEF Stage, BaseOK
<1>5. CASE Unstage(r)
  <2>1. pc' \in [Request -> Steps] /\ orgOf' \in [Request -> Org]
    BY <1>1, <1>5, GotoTyped DEF Unstage
  <2>2. CASE Close(r, "ERROR")
    BY <1>2, <1>5, <2>1, <2>2, CloseEffect DEF Unstage, BaseOK
  <2>3. CASE Fault("request") /\ UNCHANGED <<status, slots>>
    BY <1>5, <2>1, <2>3, FaultGrows, KindsAre DEF Unstage, BaseOK
  <2>4. QED
    BY <1>5, <2>2, <2>3 DEF Unstage
<1>6. CASE Dispatch(r)
  <2>1. faults' \subseteq Kinds /\ faults \subseteq faults'
    BY <1>6, FaultGrows, KindsAre DEF Dispatch, BaseOK
  <2>2. pc' \in [Request -> Steps] /\ orgOf' \in [Request -> Org]
    BY <1>1, <1>6, GotoTyped DEF Dispatch
  <2>3. job' \in [Request -> [Deliveries -> Jobs]]
    BY <1>2, <1>6, FirstIsDelivery, GoJobTyped DEF Dispatch, BaseOK
  <2>4. QED
    BY <1>6, <2>1, <2>2, <2>3 DEF Dispatch, BaseOK
<1>7. CASE Undo(r)
  <2>1. pc' \in [Request -> Steps] /\ orgOf' \in [Request -> Org]
    BY <1>1, <1>7, GotoTyped DEF Undo
  <2>2. CASE Close(r, "ERROR")
    BY <1>2, <1>7, <2>1, <2>2, CloseEffect DEF Undo, BaseOK
  <2>3. CASE Fault("request") /\ UNCHANGED <<status, slots>>
    BY <1>7, <2>1, <2>3, FaultGrows, KindsAre DEF Undo, BaseOK
  <2>4. QED
    BY <1>7, <2>2, <2>3 DEF Undo
<1>8. CASE Stamp(r)
  BY <1>1, <1>8, GotoTyped, FaultGrows, KindsAre DEF Stamp, BaseOK
<1>9. CASE RecordHandle(r)
  BY <1>1, <1>9, GotoTyped, FaultGrows, KindsAre DEF RecordHandle, BaseOK
<1>10. CASE Answer(r)
  BY <1>1, <1>10, GotoTyped, FaultGrows, KindsAre DEF Answer, BaseOK
<1>11. CASE CleanUp(r)
  BY <1>1, <1>11, GotoTyped, ReleaseEffect DEF CleanUp, BaseOK
<1>12. CASE RequestDies(r)
  BY <1>1, <1>12, GotoTyped, FaultGrows, KindsAre DEF RequestDies, BaseOK
<1>13. QED
  BY <1>3, <1>4, <1>5, <1>6, <1>7, <1>8, <1>9, <1>10, <1>11, <1>12

LEMMA JobsAre ==
    Jobs = {"none", "queued", "taken", "opening", "working", "called",
            "closing", "failing", "erring", "lost", "gone", "closed"}
BY DEF Jobs, Live, Orchestrating

LEMMA RedeliverEffect ==
    ASSUME BaseOK, NEW r \in Request, NEW d \in Deliveries, Redeliver(r, d)
    PROVE  /\ faults' \subseteq Kinds /\ faults \subseteq faults' /\ Again'
           /\ job' \in [Request -> [Deliveries -> Jobs]]
           /\ d + 1 \in Deliveries /\ d + 1 # d
           /\ job[r][d] # "none" /\ job[r][d + 1] = "none"
           /\ job'[r][d + 1] = "queued"
           /\ \/ job'[r][d] = job[r][d]
              \/ job'[r][d] = "gone" /\ job[r][d] \in Orchestrating
           /\ \A e \in Deliveries \ {d, d + 1} : job'[r][e] = job[r][e]
           /\ \A q \in Request \ {r} : job'[q] = job[q]
<1>1. faults' \subseteq Kinds /\ faults \subseteq faults' /\ Again'
  BY FaultGrows, KindsAre DEF Redeliver, BaseOK, Again
<1>2. /\ d + 1 \in Deliveries /\ d + 1 # d
      /\ job[r][d] # "none" /\ job[r][d + 1] = "none"
  BY DEF Redeliver, Deliveries
<1>3. CASE GoJob(r, d + 1, "queued")
  <2>1. "queued" \in Jobs
    BY JobsAre
  <2>2. QED
    BY <1>1, <1>2, <1>3, <2>1, GoJobTyped
<1>4. CASE /\ job' = [job EXCEPT ![r][d] = "gone", ![r][d + 1] = "queued"]
           /\ job[r][d] \in Orchestrating
  BY <1>1, <1>2, <1>4, JobsAre DEF BaseOK
<1>5. QED
  BY <1>3, <1>4 DEF Redeliver

LEMMA WorkKeepsTypes ==
    ASSUME BaseOK, NEW r \in Request, NEW d \in Deliveries, Work(r, d)
    PROVE  BaseOK' /\ faults \subseteq faults'
<1> USE DEF limiter, slots, row, evidence, run, unsaved
<1>1. /\ {"EXECUTING", "ERROR"} \subseteq Statuses /\ "ERROR" \in Terminal
  BY DEF Statuses, Terminal
<1>2. CASE Take(r, d)
  BY <1>2, JobsAre, GoJobTyped DEF Take, BaseOK
<1>3. CASE OrchestrationFails(r, d)
  BY <1>3, JobsAre, GoJobTyped, FaultGrows, KindsAre
  DEF OrchestrationFails, BaseOK
<1>4. CASE Redeliver(r, d)
  BY <1>4, RedeliverEffect DEF Redeliver, BaseOK
<1>5. CASE ReadRow(r, d)
  BY <1>5, JobsAre, GoJobTyped DEF ReadRow, BaseOK
<1>6. CASE Open(r, d)
  <2>1. job' \in [Request -> [Deliveries -> Jobs]]
    BY <1>6, JobsAre, GoJobTyped DEF Open
  <2>2. status' \in [Request -> Statuses]
    BY <1>1, <1>6 DEF Open, BaseOK
  <2>3. QED
    BY <1>6, <2>1, <2>2 DEF Open, Save, BaseOK
<1>7. CASE SkipBatches(r, d) \/ CallBack(r, d)
  BY <1>7, JobsAre, GoJobTyped DEF SkipBatches, CallBack, BaseOK
<1>8. CASE EndRun(r, d)
  <2>1. job' \in [Request -> [Deliveries -> Jobs]] /\ input' \subseteq Request
    BY <1>8, JobsAre, GoJobTyped DEF EndRun, BaseOK
  <2>2. CASE (\E s \in Terminal : Close(r, s)) /\ Save(r, d)
    <3>1. PICK s \in Terminal : Close(r, s)
      BY <2>2
    <3>2. QED
      BY <1>8, <2>1, <2>2, <3>1, CloseEffect DEF EndRun, Save, BaseOK
  <2>3. CASE (\E k \in {"orchestrator", "final"} : Fault(k))
             /\ UNCHANGED unsaved
    BY <1>8, <2>1, <2>3, FaultGrows, KindsAre DEF EndRun, BaseOK
  <2>4. QED
    BY <1>1, <1>8, <2>2, <2>3 DEF EndRun
<1>9. QED
  BY <1>2, <1>3, <1>4, <1>5, <1>6, <1>7, <1>8 DEF Work

Works(r) == \E d \in Deliveries : Work(r, d)

LEMMA RunKeepsTypes ==
    ASSUME BaseOK, NEW r \in Request,
           Works(r) \/ Sweep(r) \/ RecoverStuck(r)
    PROVE  BaseOK' /\ faults \subseteq faults'
<1> USE DEF limiter, slots, row, evidence, run, unsaved
<1>2. /\ {"EXECUTING", "ERROR"} \subseteq Statuses /\ "ERROR" \in Terminal
  BY DEF Statuses, Terminal
<1>10. CASE Sweep(r)
  <2>1. status' \in [Request -> Statuses]
    BY <1>2, <1>10 DEF Sweep, BaseOK
  <2>2. QED
    BY <1>10, <2>1, ReleaseEffect DEF Sweep, ReleaseAbandoned, BaseOK
<1>11. CASE RecoverStuck(r)
  <2>1. PICK s \in Terminal : Close(r, s)
    BY <1>11 DEF RecoverStuck
  <2>2. job' \in [Request -> [Deliveries -> Jobs]]
    BY <1>11, JobsAre, GoJobTyped DEF RecoverStuck
  <2>3. QED
    BY <1>11, <2>1, <2>2, CloseEffect DEF RecoverStuck, BaseOK
<1>12. QED
  BY <1>10, <1>11, WorkKeepsTypes DEF Works

-----------------------------------------------------------------------------
(* What a step of one request leaves of another, and Sound with it.        *)

Stays(q) ==
    /\ pc'[q] = pc[q] /\ status'[q] = status[q] /\ job'[q] = job[q]
    /\ q \in slotless' <=> q \in slotless
    /\ q \in stamped' <=> q \in stamped
    /\ q \in handled' <=> q \in handled
    /\ q \in swept' <=> q \in swept
    /\ q \in input' <=> q \in input
    /\ q \in orgSlots' => q \in orgSlots
    /\ q \in globalSlots' => q \in globalSlots
    /\ q \in orgSlots /\ q \notin orgSlots' => q \in Leftover
    /\ q \in globalSlots /\ q \notin globalSlots' => q \in Leftover

LEMMA StaysSound ==
    ASSUME NEW q \in Request, Stays(q), faults \subseteq faults', Sound(q)
    PROVE  Sound(q)'
<1> USE DEF Sound, Stays
<1> USE DEF Sent, Running, Closed, Again
<1>1. Ordered(q)' /\ Counted(q)'
  BY DEF Ordered, Counted
<1>2. Evident(q)'
  BY DEF Evident, Unrecorded
<1>3. Held(q)'
  <2>1. q \in Leftover => pc[q] \in {"done", "dead"} /\ ~ Running(q)
    BY DEF Leftover
  <2>2. QED
    BY <2>1 DEF Held, Unrecorded
<1>4. Freed(q)'
  BY DEF Freed
<1>5. Swept(q)'
  BY DEF Swept, Unrecorded
<1>6. Staged(q)'
  BY DEF Staged
<1>7. Ended(q)'
  BY DEF Ended
<1>8. QED
  BY <1>1, <1>2, <1>3, <1>4, <1>5, <1>6, <1>7

LEMMA GotoStays ==
    ASSUME BaseOK, NEW r \in Request, NEW s, NEW q \in Request \ {r},
           Goto(r, s) \/ UNCHANGED pc
    PROVE  pc'[q] = pc[q]
BY DEF Goto, BaseOK

LEMMA GoJobStays ==
    ASSUME BaseOK, NEW r \in Request, NEW d, NEW j, NEW q \in Request \ {r},
           GoJob(r, d, j) \/ UNCHANGED job
    PROVE  job'[q] = job[q]
BY DEF GoJob, BaseOK

LEMMA LimiterStays ==
    ASSUME BaseOK, NEW r \in Request, NEW q \in Request \ {r},
           \/ Acquire(r) \/ FailOpen(r) \/ CountOrg(r) \/ CountGlobal(r)
           \/ Add(r) \/ Unlock(r)
    PROVE  Stays(q)
<1> USE DEF limiter, slots, row, evidence, run
<1>1. pc'[q] = pc[q]
  BY GotoStays DEF Acquire, FailOpen, CountOrg, CountGlobal, Add, Unlock
<1>2. UNCHANGED <<status, job, stamped, handled, swept, input>>
  BY DEF Acquire, FailOpen, CountOrg, CountGlobal, Add, Unlock
<1>3. CASE Acquire(r) \/ FailOpen(r) \/ CountGlobal(r) \/ Unlock(r)
  BY <1>1, <1>2, <1>3 DEF Acquire, FailOpen, CountGlobal, Unlock, Stays
<1>4. CASE CountOrg(r)
  BY <1>1, <1>2, <1>4 DEF CountOrg, Stays
<1>5. CASE Add(r)
  BY <1>1, <1>2, <1>5 DEF Add, Stays
<1>6. QED
  BY <1>3, <1>4, <1>5

LEMMA RequestStays ==
    ASSUME BaseOK, NEW r \in Request, NEW q \in Request \ {r},
           \/ Create(r) \/ Stage(r) \/ Unstage(r) \/ Dispatch(r) \/ Undo(r)
           \/ Stamp(r) \/ RecordHandle(r) \/ Answer(r) \/ CleanUp(r)
           \/ RequestDies(r)
    PROVE  Stays(q)
<1> USE DEF limiter, slots, row, evidence, run
<1>1. pc'[q] = pc[q]
  BY GotoStays DEF Create, Stage, Unstage, Dispatch, Undo, Stamp,
                   RecordHandle, Answer, CleanUp, RequestDies
<1>2. CASE Create(r)
  <2>1. status'[q] = status[q]
    BY <1>2 DEF Create, BaseOK
  <2>2. CASE ReleaseOrganization(r)
    BY <1>1, <1>2, <2>1, <2>2, ReleaseEffect DEF Create, Stays
  <2>3. CASE UNCHANGED <<slots, faults>>
    BY <1>1, <1>2, <2>1, <2>3 DEF Create, Stays
  <2>4. QED
    BY <1>2, <2>2, <2>3 DEF Create
<1>3. CASE Stage(r)
  BY <1>1, <1>3 DEF Stage, Stays
<1>4. CASE Unstage(r) \/ Undo(r)
  <2>1. CASE Close(r, "ERROR")
    BY <1>1, <1>4, <2>1, CloseEffect DEF Unstage, Undo, Stays, Terminal
  <2>2. CASE UNCHANGED <<status, slots>>
    BY <1>1, <1>4, <2>2 DEF Unstage, Undo, Stays
  <2>3. QED
    BY <1>4, <2>1, <2>2 DEF Unstage, Undo
<1>5. CASE Dispatch(r)
  <2>1. job'[q] = job[q]
    BY <1>5, GoJobStays DEF Dispatch
  <2>2. QED
    BY <1>1, <1>5, <2>1 DEF Dispatch, Stays
<1>6. CASE Stamp(r) \/ RecordHandle(r) \/ Answer(r) \/ RequestDies(r)
  BY <1>1, <1>6 DEF Stamp, RecordHandle, Answer, RequestDies, Stays
<1>7. CASE CleanUp(r)
  BY <1>1, <1>7, ReleaseEffect DEF CleanUp, Stays
<1>8. QED
  BY <1>2, <1>3, <1>4, <1>5, <1>6, <1>7

LEMMA WorkStays ==
    ASSUME BaseOK, NEW r \in Request, NEW q \in Request \ {r},
           NEW d \in Deliveries, Work(r, d)
    PROVE  Stays(q)
<1> USE DEF limiter, slots, row, evidence, run, unsaved
<1>1. UNCHANGED <<pc, slotless, handled, swept>>
  BY DEF Work, Take, OrchestrationFails, Redeliver, ReadRow, Open,
         SkipBatches, CallBack, EndRun
<1>2. job'[q] = job[q]
  BY GoJobStays, RedeliverEffect
  DEF Work, Take, OrchestrationFails, ReadRow, Open, SkipBatches, CallBack,
      EndRun
<1>3. CASE \/ Take(r, d) \/ OrchestrationFails(r, d) \/ Redeliver(r, d)
           \/ ReadRow(r, d) \/ SkipBatches(r, d) \/ CallBack(r, d)
  BY <1>1, <1>2, <1>3
  DEF Take, OrchestrationFails, Redeliver, ReadRow, SkipBatches, CallBack,
      Stays
<1>4. CASE Open(r, d)
  <2>1. status'[q] = status[q]
    BY <1>4 DEF Open, BaseOK
  <2>2. QED
    BY <1>1, <1>2, <1>4, <2>1 DEF Open, Save, Stays
<1>5. CASE EndRun(r, d)
  <2>1. q \in input' <=> q \in input
    BY <1>5 DEF EndRun
  <2>2. CASE (\E s \in Terminal : Close(r, s)) /\ Save(r, d)
    <3>1. PICK s \in Terminal : Close(r, s)
      BY <2>2
    <3>2. QED
      BY <1>1, <1>2, <2>1, <2>2, <3>1, CloseEffect DEF Save, Stays
  <2>3. CASE UNCHANGED unsaved
    BY <1>1, <1>2, <2>1, <2>3 DEF Stays
  <2>4. QED
    BY <1>5, <2>2, <2>3 DEF EndRun, Terminal
<1>6. QED
  BY <1>3, <1>4, <1>5 DEF Work

LEMMA RunStays ==
    ASSUME BaseOK, NEW r \in Request, NEW q \in Request \ {r},
           Works(r) \/ Sweep(r) \/ RecoverStuck(r)
    PROVE  Stays(q)
<1> USE DEF limiter, slots, row, evidence, run, unsaved
<1>1. Sweep(r) \/ RecoverStuck(r) => UNCHANGED <<pc, slotless, handled, input>>
  BY DEF Sweep, ReleaseAbandoned, RecoverStuck
<1>2. Sweep(r) \/ RecoverStuck(r) => job'[q] = job[q]
  BY GoJobStays DEF Sweep, RecoverStuck
<1>6. CASE Sweep(r)
  <2>1. status'[q] = status[q]
    BY <1>6 DEF Sweep, BaseOK
  <2>2. QED
    BY <1>1, <1>2, <1>6, <2>1, ReleaseEffect
    DEF Sweep, ReleaseAbandoned, Stays
<1>7. CASE RecoverStuck(r)
  <2>1. PICK s \in Terminal : Close(r, s)
    BY <1>7 DEF RecoverStuck
  <2>2. QED
    BY <1>1, <1>2, <1>7, <2>1, CloseEffect DEF RecoverStuck, Stays
<1>8. QED
  BY <1>6, <1>7, WorkStays DEF Works

-----------------------------------------------------------------------------
(* Sound, of the request that takes the step.                              *)

LEMMA PcIs ==
    ASSUME BaseOK, NEW r \in Request, NEW s, Goto(r, s)
    PROVE  pc'[r] = s
BY DEF Goto, BaseOK

LEMMA JobIs ==
    ASSUME BaseOK, NEW r \in Request, NEW d \in Deliveries, NEW j,
           GoJob(r, d, j)
    PROVE  /\ job'[r][d] = j
           /\ \A e \in Deliveries \ {d} : job'[r][e] = job[r][e]
BY DEF GoJob, BaseOK

LEMMA SameJobs ==
    ASSUME NEW r \in Request, UNCHANGED job, faults \subseteq faults'
    PROVE  /\ (Sent(r)' <=> Sent(r)) /\ (Running(r)' <=> Running(r))
           /\ (Closed(r)' <=> Closed(r)) /\ (Counted(r) => Counted(r)')
           /\ (Again => Again')
BY DEF Sent, Running, Closed, Counted, Again

\* What has not been sent does not run.
LEMMA Unsent ==
    ASSUME NEW r \in Request, Counted(r), ~ Sent(r)
    PROVE  ~ Running(r) /\ ~ Closed(r)
BY DEF Counted, Running, Closed, Live, Orchestrating

LEMMA LimiterSound ==
    ASSUME BaseOK, NEW r \in Request, Sound(r), faults \subseteq faults',
           \/ Acquire(r) \/ FailOpen(r) \/ CountOrg(r) \/ CountGlobal(r)
           \/ Add(r) \/ Unlock(r)
    PROVE  Sound(r)'
<1> USE DEF slots, limiter, row, evidence, run
<1>1. pc[r] \in BeforeRow
  BY DEF BeforeRow, Section, Acquire, FailOpen, CountOrg, CountGlobal, Add,
         Unlock
<1>2. UNCHANGED <<status, job, stamped, handled, swept, input>>
  BY DEF Acquire, FailOpen, CountOrg, CountGlobal, Add, Unlock
<1>3. /\ status[r] = "none" /\ ~ Sent(r) /\ r \notin swept
      /\ r \notin stamped \cup handled
  BY <1>1 DEF Sound, Ordered, Swept, BeforeMessage, BeforeRow, Section
<1>4. ~ Sent(r)' /\ ~ Running(r)' /\ Counted(r)'
  BY <1>2, <1>3, SameJobs, Unsent DEF Sound
<1>5. pc'[r] \in {"count", "global", "add", "admit", "refuse", "create", "done"}
  BY PcIs DEF Acquire, FailOpen, CountOrg, CountGlobal, Add, Unlock
<1>6. Held(r)'
  <2>1. CASE Acquire(r) \/ FailOpen(r)
    BY <1>4, <2>1, PcIs DEF Acquire, FailOpen, Held
  <2>2. CASE CountOrg(r) \/ CountGlobal(r)
    BY <1>4, <2>2, PcIs DEF CountOrg, CountGlobal, Held
  <2>3. CASE Add(r)
    BY <1>4, <2>3 DEF Add, Held
  <2>4. CASE Unlock(r)
    BY <1>4, <2>4, PcIs DEF Unlock, Held, Sound
  <2>5. QED
    BY <2>1, <2>2, <2>3, <2>4
<1>7. Ordered(r)'
  BY <1>2, <1>3, <1>5, <1>4 DEF Ordered
<1>8. Evident(r)' /\ Freed(r)' /\ Swept(r)' /\ Staged(r)' /\ Ended(r)'
  BY <1>2, <1>3, <1>5, <1>4 DEF Evident, Freed, Swept, Staged, Ended, Terminal
<1>9. QED
  BY <1>6, <1>7, <1>8, <1>4 DEF Sound

LEMMA StageSound ==
    ASSUME BaseOK, NEW r \in Request, Sound(r), faults \subseteq faults',
           Create(r) \/ Stage(r) \/ Unstage(r) \/ Dispatch(r)
    PROVE  Sound(r)'
<1> USE DEF limiter, slots, row, evidence, run
<1>1. pc[r] \in BeforeMessage /\ UNCHANGED <<slotless, stamped, handled, swept>>
  BY DEF BeforeMessage, BeforeRow, Create, Stage, Unstage, Dispatch
<1>2. /\ ~ Sent(r) /\ r \notin swept /\ r \notin stamped \cup handled
  BY <1>1 DEF Sound, Ordered, Swept, BeforeMessage, BeforeRow, Section
<1>3. CASE Create(r)
  <2>1. /\ status[r] = "none" /\ ~ Sent(r)' /\ ~ Running(r)' /\ Counted(r)'
    BY <1>2, <1>3, SameJobs, Unsent DEF Create, Sound, Ordered, BeforeRow
  <2>2. status'[r] \in {"none", "PENDING"}
    BY <1>3, <2>1 DEF Create, BaseOK
  <2>3. CASE pc'[r] = "done"
    BY <1>1, <1>2, <2>1, <2>2, <2>3
    DEF Sound, Ordered, Evident, Held, Freed, Swept, Staged, Ended, Terminal,
        BeforeRow, BeforeMessage, Section
  <2>4. CASE UNCHANGED <<slots, faults>> /\ pc'[r] = "stage"
    BY <1>1, <1>2, <1>3, <2>1, <2>2, <2>4
    DEF Create, Sound, Ordered, Evident, Held, Freed, Swept, Staged, Ended,
        Terminal, BeforeRow, BeforeMessage, Section
  <2>5. QED
    BY <1>3, <2>3, <2>4, PcIs DEF Create
<1>4. CASE Stage(r)
  <2>1. /\ UNCHANGED <<orgSlots, globalSlots, status, faults>>
        /\ r \in input' /\ pc'[r] \in {"dispatch", "unstage"}
        /\ ~ Sent(r)' /\ ~ Running(r)' /\ Counted(r)'
    BY <1>2, <1>4, PcIs, SameJobs, Unsent DEF Stage, Sound
  <2>2. pc[r] = "stage"
    BY <1>4 DEF Stage
  <2>3. QED
    BY <1>1, <1>2, <2>1, <2>2
    DEF Sound, Ordered, Evident, Held, Freed, Swept, Staged, Ended,
        BeforeRow, BeforeMessage, Section
<1>5. CASE Unstage(r)
  <2>1. /\ pc'[r] = "cleanup"
        /\ ~ Sent(r)' /\ ~ Running(r)' /\ Counted(r)'
    BY <1>2, <1>5, PcIs, SameJobs, Unsent DEF Unstage, Sound
  <2>2. /\ status'[r] # "EXECUTING"
        /\ r \in orgSlots' \cup globalSlots' /\ status'[r] \in Terminal
           => "redis" \in faults'
    <3>1. CASE Close(r, "ERROR")
      <4>1. "ERROR" \in Terminal /\ "EXECUTING" \notin Terminal
        BY DEF Terminal
      <4>2. QED
        BY <3>1, <4>1, CloseEffect DEF Sound, Freed
    <3>2. CASE UNCHANGED <<status, slots>>
      BY <1>2, <3>2 DEF Sound, Freed, Ordered
    <3>3. QED
      BY <1>5, <3>1, <3>2 DEF Unstage
  <2>3. QED
    BY <1>1, <1>2, <2>1, <2>2
    DEF Sound, Ordered, Evident, Held, Freed, Swept, Staged, Ended,
        BeforeRow, BeforeMessage, Section
<1>6. CASE Dispatch(r)
  <2>1. /\ UNCHANGED <<orgSlots, globalSlots, status, input>>
        /\ pc[r] = "dispatch" /\ pc'[r] \in {"stamp", "undo"}
    BY <1>6, PcIs DEF Dispatch
  <2>2. CASE GoJob(r, 1, "queued") /\ (pc'[r] = "undo" => "answer" \in faults')
    <3>1. /\ job'[r][1] = "queued"
          /\ \A d \in Deliveries \ {1} : job'[r][d] = "none"
      BY <1>2, <2>2, FirstIsDelivery, JobIs DEF Sound, Counted
    <3>2. Sent(r)' /\ Counted(r)' /\ Running(r)'
      BY <3>1, FirstIsDelivery DEF Sent, Counted, Running, Live
    <3>3. Held(r)'
      BY <1>1, <2>1 DEF Sound, Held
    <3>4. Ordered(r)' /\ Evident(r)'
      BY <1>1, <1>2, <2>1, <2>2, <3>2
      DEF Sound, Ordered, Evident, Unrecorded, BeforeRow, BeforeMessage,
          Section
    <3>5. Freed(r)' /\ Swept(r)' /\ Staged(r)' /\ Ended(r)'
      BY <1>1, <1>2, <2>1, <3>2 DEF Sound, Freed, Swept, Staged, Ended
    <3>6. QED
      BY <3>2, <3>3, <3>4, <3>5 DEF Sound
  <2>3. CASE UNCHANGED <<job, faults>> /\ pc'[r] = "undo"
    <3>1. ~ Sent(r)' /\ ~ Running(r)' /\ Counted(r)'
      BY <1>2, <2>3, SameJobs, Unsent DEF Sound
    <3>2. QED
      BY <1>1, <1>2, <2>1, <2>3, <3>1
      DEF Sound, Ordered, Evident, Held, Freed, Swept, Staged, Ended,
          BeforeRow, BeforeMessage, Section
  <2>4. QED
    BY <1>6, <2>2, <2>3, PcIs, FaultGrows, KindsAre DEF Dispatch, BaseOK
<1>7. QED
  BY <1>3, <1>4, <1>5, <1>6

LEMMA RequestSound ==
    ASSUME BaseOK, NEW r \in Request, Sound(r), faults \subseteq faults',
           \/ Undo(r) \/ Stamp(r) \/ RecordHandle(r) \/ Answer(r)
           \/ CleanUp(r) \/ RequestDies(r)
    PROVE  Sound(r)'
<1> USE DEF limiter, slots, row, evidence, run
<1>1. UNCHANGED <<slotless, swept>> /\ (Sent(r)' <=> Sent(r))
      /\ (Running(r)' <=> Running(r)) /\ (Closed(r)' <=> Closed(r))
      /\ Counted(r)' /\ (Again => Again')
  BY SameJobs
  DEF Undo, Stamp, RecordHandle, Answer, CleanUp, RequestDies, Sound
<1>2. CASE Undo(r)
  <2>1. /\ pc[r] = "undo" /\ pc'[r] \in {"answer", "cleanup"}
        /\ UNCHANGED <<stamped, handled, input>>
    BY <1>2, PcIs DEF Undo
  <2>2. r \notin swept
    BY <2>1 DEF Sound, Swept
  <2>3. Sent(r) => "answer" \in faults'
    BY <2>1 DEF Sound, Evident
  <2>4. /\ status'[r] \in Terminal \/ status'[r] = status[r]
        /\ r \in orgSlots' \cup globalSlots' /\ status'[r] \in Terminal
           => "redis" \in faults'
    <3>1. CASE Close(r, "ERROR")
      BY <3>1, CloseEffect DEF Sound, Freed, Terminal
    <3>2. CASE UNCHANGED <<status, slots>>
      BY <3>2 DEF Sound, Freed
    <3>3. QED
      BY <1>2, <3>1, <3>2 DEF Undo
  <2>5. status'[r] = status[r] \/ status'[r] \in {"COMPLETED", "ERROR"}
    BY <2>4 DEF Terminal
  <2>6. Ordered(r)' /\ Ended(r)'
    BY <1>1, <2>1, <2>5
    DEF Sound, Ordered, Ended, BeforeRow, BeforeMessage, Section
  <2>7. Evident(r)' /\ Staged(r)' /\ Held(r)'
    BY <1>1, <2>1, <2>3, Unsent DEF Sound, Evident, Staged, Held, Unrecorded
  <2>8. QED
    BY <1>1, <2>2, <2>4, <2>6, <2>7 DEF Sound, Freed, Swept
<1>3. CASE Stamp(r)
  <2>1. /\ UNCHANGED <<status, orgSlots, globalSlots, handled, input>>
        /\ pc[r] = "stamp" /\ pc'[r] = "handle" /\ Sent(r)
        /\ \/ r \in stamped'
           \/ "stamp" \in faults' /\ UNCHANGED stamped
    BY <1>3, PcIs, FaultGrows, KindsAre
    DEF Stamp, BaseOK, Sound, Ordered
  <2>2. Ordered(r)' /\ Evident(r)'
    BY <1>1, <2>1 DEF Sound, Ordered, Evident, Unrecorded, BeforeRow,
                      BeforeMessage, Section
  <2>3. QED
    BY <1>1, <2>1, <2>2
    DEF Sound, Held, Freed, Swept, Staged, Ended, Unrecorded
<1>4. CASE RecordHandle(r)
  <2>1. /\ UNCHANGED <<status, orgSlots, globalSlots, stamped, input>>
        /\ pc[r] = "handle" /\ pc'[r] = "answer" /\ Sent(r)
        /\ \/ r \in handled'
           \/ "handle" \in faults' /\ UNCHANGED handled
    BY <1>4, PcIs, FaultGrows, KindsAre
    DEF RecordHandle, BaseOK, Sound, Ordered
  <2>2. Ordered(r)' /\ Evident(r)'
    BY <1>1, <2>1 DEF Sound, Ordered, Evident, Unrecorded, BeforeRow,
                      BeforeMessage, Section
  <2>3. QED
    BY <1>1, <2>1, <2>2
    DEF Sound, Held, Freed, Swept, Staged, Ended, Unrecorded
<1>5. CASE Answer(r)
  <2>1. /\ UNCHANGED <<status, orgSlots, globalSlots, stamped, handled, input>>
        /\ pc[r] = "answer"
        /\ \/ pc'[r] = "done"
           \/ pc'[r] = "cleanup" /\ "enrich" \in faults'
    BY <1>5, PcIs, FaultGrows, KindsAre DEF Answer, BaseOK
  <2>2. Ordered(r)' /\ Evident(r)'
    BY <1>1, <2>1 DEF Sound, Ordered, Evident, Unrecorded, BeforeRow,
                      BeforeMessage, Section
  <2>3. QED
    BY <1>1, <2>1, <2>2
    DEF Sound, Held, Freed, Swept, Staged, Ended, Unrecorded
<1>6. CASE CleanUp(r)
  <2>1. /\ UNCHANGED <<status, orgSlots, stamped, handled>>
        /\ globalSlots' \subseteq globalSlots
        /\ pc[r] = "cleanup" /\ pc'[r] = "done"
    BY <1>6, PcIs DEF CleanUp, ReleaseOrganization
  <2>2. Sent(r) => faults' \cap {"enrich", "answer"} # {}
    BY <2>1 DEF Sound, Evident
  <2>3. Ordered(r)' /\ Evident(r)'
    BY <1>1, <2>1 DEF Sound, Ordered, Evident, Unrecorded, BeforeRow,
                      BeforeMessage, Section
  <2>4. Held(r)'
    BY <1>1, <2>1, <2>2, Unsent DEF Sound, Held, Unrecorded
  <2>5. QED
    BY <1>1, <2>1, <2>2, <2>3, <2>4
    DEF Sound, Freed, Swept, Staged, Ended, Unrecorded
<1>7. CASE RequestDies(r)
  <2>1. /\ UNCHANGED <<status, orgSlots, globalSlots, stamped, handled, input>>
        /\ pc'[r] = "dead" /\ "crash" \in faults'
    BY <1>7, PcIs, FaultGrows, KindsAre DEF RequestDies, BaseOK
  <2>2. Ordered(r)' /\ Evident(r)'
    BY <1>1, <2>1 DEF Sound, Ordered, Evident, Unrecorded, BeforeRow,
                      BeforeMessage, Section
  <2>3. QED
    BY <1>1, <2>1, <2>2
    DEF Sound, Held, Freed, Swept, Staged, Ended, Unrecorded
<1>8. QED
  BY <1>2, <1>3, <1>4, <1>5, <1>6, <1>7

\* One run moves on.
LEMMA OwnStep ==
    ASSUME BaseOK, NEW r \in Request, Sound(r), faults \subseteq faults',
           NEW d \in Deliveries, NEW j \in Jobs \ {"none"}, GoJob(r, d, j),
           job[r][d] \in Live
    PROVE  /\ Running(r) /\ Sent(r) /\ Sent(r)' /\ Counted(r)'
           /\ (Closed(r) => Closed(r)') /\ (Again => Again')
           /\ (j = "closed" => Closed(r)')
           /\ (j \in Live => Running(r)')
           /\ (j \notin Live => ~ Running(r)' \/ Again')
<1>1. /\ job'[r][d] = j
      /\ \A e \in Deliveries \ {d} : job'[r][e] = job[r][e]
  BY JobIs
<1>2. "none" \notin Live /\ "closed" \notin Live
  BY DEF Live, Orchestrating
<1>3. Running(r) /\ Sent(r)
  BY <1>2 DEF Running, Sound, Counted
<1>4. Sent(r)' /\ (Closed(r) => Closed(r)') /\ (j = "closed" => Closed(r)')
  BY <1>1, <1>2, <1>3, FirstIsDelivery DEF Sent, Closed
<1>5. Again => Again'
  BY DEF Again
<1>6. Again \/ d = 1
  BY <1>2 DEF Sound, Counted
<1>7. Again \/ \A e \in Deliveries \ {d} : job'[r][e] = "none"
  BY <1>1, <1>6 DEF Sound, Counted
<1>8. Counted(r)'
  BY <1>1, <1>4, <1>5, <1>6, <1>7 DEF Counted
<1>9. j \in Live => Running(r)'
  BY <1>1 DEF Running
<1>10. j \notin Live => ~ Running(r)' \/ Again'
  BY <1>1, <1>2, <1>5, <1>7 DEF Running
<1>11. QED
  BY <1>3, <1>4, <1>5, <1>8, <1>9, <1>10

\* A message that is delivered again.
LEMMA NextDelivery ==
    ASSUME BaseOK, NEW r \in Request, Sound(r), NEW d \in Deliveries,
           Redeliver(r, d)
    PROVE  /\ Sent(r) /\ Sent(r)' /\ Counted(r)' /\ Again'
           /\ Running(r)' /\ (Closed(r) => Closed(r)')
<1>1. Sent(r)
  BY RedeliverEffect DEF Sound, Counted
<1>2. "closed" \notin Orchestrating /\ "none" \notin Orchestrating
  BY DEF Orchestrating
<1>3. \A e \in Deliveries : /\ job[r][e] # "none" => job'[r][e] # "none"
                            /\ job[r][e] = "closed" => job'[r][e] = "closed"
  BY <1>2, RedeliverEffect
<1>4. Sent(r)' /\ (Closed(r) => Closed(r)')
  BY <1>1, <1>3, FirstIsDelivery DEF Sent, Closed
<1>5. Running(r)'
  BY RedeliverEffect DEF Running, Live
<1>6. QED
  BY <1>1, <1>4, <1>5, RedeliverEffect DEF Counted

\* A step of a run without a write of the row.
LEMMA GoingOnSound ==
    ASSUME BaseOK, NEW r \in Request, Sound(r), faults \subseteq faults',
           UNCHANGED <<pc, slotless, handled, input, swept, status>>,
           UNCHANGED <<stamped, orgSlots, globalSlots>>,
           Sent(r), Sent(r)', Counted(r)', Closed(r) => Closed(r)',
           Running(r)' => Running(r) \/ Again',
           Running(r)' \/ status[r] \in Terminal \/ "orchestrator" \in faults'
    PROVE  Sound(r)'
<1>1. Ordered(r)' /\ Evident(r)'
  BY DEF Sound, Ordered, Evident, Unrecorded, BeforeRow, BeforeMessage, Section
<1>2. Held(r)' /\ Freed(r)' /\ Swept(r)' /\ Staged(r)'
  <2>1. Again => Again'
    BY DEF Again
  <2>2. QED
    BY <2>1 DEF Sound, Held, Freed, Swept, Staged, Unrecorded
<1>3. Ended(r)'
  BY DEF Ended, Terminal
<1>4. QED
  BY <1>1, <1>2, <1>3 DEF Sound

\* A run that ends with a terminal status.
LEMMA ClosedSound ==
    ASSUME BaseOK, NEW r \in Request, Sound(r), faults \subseteq faults',
           UNCHANGED <<pc, slotless, handled, swept>>,
           NEW s \in Terminal, Close(r, s),
           Sent(r), Sent(r)', Counted(r)', Closed(r) => Closed(r)',
           UNCHANGED input \/ Closed(r)',
           ~ Running(r)' \/ Again',
           r \in handled \/ stamped' = stamped \/ status'[r] # "PENDING"
    PROVE  Sound(r)'
<1>1. status'[r] \in {"COMPLETED", "ERROR"}
  BY CloseEffect DEF Terminal
<1>2. Freed(r)'
  BY CloseEffect DEF Sound, Freed
<1>3. Ordered(r)' /\ Evident(r)'
  BY <1>1
  DEF Sound, Ordered, Evident, Unrecorded, BeforeRow, BeforeMessage, Section
<1>4. pc[r] \notin BeforeMessage
  BY DEF Sound, Ordered
<1>5. Held(r)'
  BY <1>4 DEF Held, BeforeMessage, BeforeRow, Section
<1>6. Swept(r)' /\ Staged(r)' /\ Ended(r)'
  BY <1>1, <1>4
  DEF Sound, Swept, Staged, Ended, Unrecorded, BeforeMessage
<1>7. QED
  BY <1>2, <1>3, <1>5, <1>6 DEF Sound

LEMMA WorkSound ==
    ASSUME BaseOK, NEW r \in Request, Sound(r), faults \subseteq faults',
           NEW d \in Deliveries, Work(r, d)
    PROVE  Sound(r)'
<1> USE DEF limiter, slots, row, evidence, run, unsaved
<1>1. UNCHANGED <<pc, slotless, handled, swept>>
  BY DEF Work, Take, OrchestrationFails, Redeliver, ReadRow, Open,
         SkipBatches, CallBack, EndRun
<1>2. {"queued", "taken", "opening", "working", "called", "closing",
       "failing", "erring", "lost"} = Live /\ "gone" \notin Live
      /\ "closed" \notin Live
  BY DEF Live, Orchestrating
<1>3. CASE Take(r, d) \/ ReadRow(r, d) \/ CallBack(r, d)
  <2>1. /\ UNCHANGED <<status, stamped, orgSlots, globalSlots, input>>
        /\ job[r][d] \in Live /\ \E j \in Live : GoJob(r, d, j)
    BY <1>2, <1>3 DEF Take, ReadRow, CallBack
  <2>2. PICK j \in Live : GoJob(r, d, j)
    BY <2>1
  <2>3. j \in Jobs \ {"none"}
    BY <1>2, JobsAre
  <2>4. QED
    BY <1>1, <2>1, <2>2, <2>3, OwnStep, GoingOnSound
<1>4. CASE OrchestrationFails(r, d) \/ SkipBatches(r, d)
  <2>1. /\ UNCHANGED <<status, stamped, orgSlots, globalSlots, input>>
        /\ job[r][d] \in Live
        /\ \E j \in {"gone", "failing"} :
              /\ GoJob(r, d, j)
              /\ j = "gone" => \/ status[r] \in Terminal
                               \/ "orchestrator" \in faults'
    BY <1>2, <1>4, FaultGrows, KindsAre
    DEF OrchestrationFails, SkipBatches, BaseOK
  <2>2. PICK j \in {"gone", "failing"} :
              /\ GoJob(r, d, j)
              /\ j = "gone" => \/ status[r] \in Terminal
                               \/ "orchestrator" \in faults'
    BY <2>1
  <2>3. j \in Jobs \ {"none"}
    BY JobsAre
  <2>4. QED
    BY <1>1, <1>2, <2>1, <2>2, <2>3, OwnStep, GoingOnSound
<1>5. CASE Redeliver(r, d)
  <2>1. UNCHANGED <<status, stamped, orgSlots, globalSlots, input>>
    BY <1>5 DEF Redeliver
  <2>2. QED
    BY <1>1, <1>5, <2>1, NextDelivery, GoingOnSound
<1>6. CASE Open(r, d)
  <2>1. /\ UNCHANGED <<orgSlots, globalSlots, faults, input>>
        /\ GoJob(r, d, "working") /\ job[r][d] \in Live
        /\ status'[r] \in {"EXECUTING", "COMPLETED"}
        /\ status'[r] = "COMPLETED" => status[r] = "COMPLETED"
    BY <1>2, <1>6 DEF Open, BaseOK
  <2>2. /\ Running(r) /\ Sent(r) /\ Sent(r)' /\ Counted(r)' /\ Running(r)'
        /\ (Closed(r) => Closed(r)') /\ (Again => Again')
    BY <1>2, <2>1, JobsAre, OwnStep
  <2>3. Ordered(r)' /\ Evident(r)'
    BY <1>1, <2>1, <2>2
    DEF Sound, Ordered, Evident, Unrecorded, BeforeRow, BeforeMessage, Section
  <2>4. QED
    BY <1>1, <2>1, <2>2, <2>3
    DEF Sound, Held, Freed, Swept, Staged, Ended, Unrecorded, Terminal
<1>7. CASE EndRun(r, d)
  <2>1. job[r][d] \in Live /\ {"gone", "closed", "lost"} \subseteq Jobs
    BY <1>2, <1>7, JobsAre DEF EndRun
  <2>2. ASSUME NEW s \in Terminal, Close(r, s),
               \/ GoJob(r, d, "gone") /\ UNCHANGED input
               \/ GoJob(r, d, "closed")
        PROVE  Sound(r)'
    <3>1. status'[r] # "PENDING"
      BY <2>2, CloseEffect DEF Terminal
    <3>2. /\ Sent(r) /\ Sent(r)' /\ Counted(r)' /\ (Closed(r) => Closed(r)')
          /\ UNCHANGED input \/ Closed(r)'
          /\ ~ Running(r)' \/ Again'
      BY <1>2, <2>1, <2>2, OwnStep
    <3>3. QED
      BY <1>1, <2>2, <3>1, <3>2, ClosedSound
  <2>3. CASE /\ UNCHANGED unsaved
             /\ \/ GoJob(r, d, "lost")
                \/ GoJob(r, d, "gone") /\ "orchestrator" \in faults'
    BY <1>1, <1>2, <2>1, <2>3, OwnStep, GoingOnSound
  <2>4. "ERROR" \in Terminal
    BY DEF Terminal
  <2>5. QED
    BY <1>7, <2>2, <2>3, <2>4, FaultGrows, KindsAre DEF EndRun, BaseOK
<1>8. QED
  BY <1>3, <1>4, <1>5, <1>6, <1>7 DEF Work

LEMMA RunSound ==
    ASSUME BaseOK, NEW r \in Request, Sound(r), faults \subseteq faults',
           Works(r) \/ RecoverStuck(r)
    PROVE  Sound(r)'
<1>1. CASE RecoverStuck(r)
  <2>1. PICK s \in Terminal : Close(r, s)
    BY <1>1 DEF RecoverStuck
  <2>2. PICK d \in Deliveries : job[r][d] = "lost" /\ GoJob(r, d, "gone")
    BY <1>1 DEF RecoverStuck
  <2>3. /\ "gone" \in Jobs \ {"none"} /\ "lost" \in Live
        /\ "gone" \notin Live
    BY JobsAre DEF Live, Orchestrating
  <2>4. /\ Sent(r) /\ Sent(r)' /\ Counted(r)' /\ (Closed(r) => Closed(r)')
        /\ ~ Running(r)' \/ Again'
    BY <2>2, <2>3, OwnStep
  <2>5. UNCHANGED <<pc, slotless, handled, swept, input, stamped>>
    BY <1>1 DEF RecoverStuck, evidence
  <2>6. QED
    BY <2>1, <2>4, <2>5, ClosedSound
<1>2. QED
  BY <1>1, WorkSound DEF Works

LEMMA SweepSound ==
    ASSUME BaseOK, NEW r \in Request, Sound(r), faults \subseteq faults',
           Sweep(r)
    PROVE  Sound(r)'
<1> USE DEF slots, row, evidence, run
<1>1. /\ UNCHANGED <<pc, slotless, stamped, handled, input>>
      /\ (Sent(r)' <=> Sent(r)) /\ (Running(r)' <=> Running(r))
      /\ (Closed(r)' <=> Closed(r)) /\ Counted(r)' /\ (Again => Again')
      /\ status[r] = "PENDING" /\ status'[r] = "ERROR"
      /\ r \notin stamped \cup handled /\ pc[r] \notin InTransit
  BY SameJobs DEF Sweep, ReleaseAbandoned, Undispatched, BaseOK, Sound
<1>2. pc[r] \in {"answer", "cleanup", "done", "dead"}
  BY <1>1 DEF Sound, Ordered, BaseOK, Steps, Serving, InTransit, BeforeRow
<1>3. Sent(r) => Unrecorded'
  BY <1>1, <1>2 DEF Sound, Evident, Unrecorded
<1>4. Freed(r)'
  BY ReleaseEffect DEF Sweep, ReleaseAbandoned, Freed
<1>5. Ordered(r)' /\ Evident(r)'
  BY <1>1, <1>2
  DEF Sound, Ordered, Evident, Unrecorded, BeforeRow, BeforeMessage, Section
<1>6. Held(r)'
  BY <1>1, <1>2, <1>3, Unsent DEF Sound, Held
<1>7. QED
  BY <1>1, <1>2, <1>3, <1>4, <1>5, <1>6 DEF Sound, Swept, Staged, Ended

-----------------------------------------------------------------------------
(* The locks and the limits.                                               *)

LEMMA LimiterKeepsLocked ==
    ASSUME BaseOK, NEW r \in Request, \A q \in Request : Locked(q),
           \/ Acquire(r) \/ FailOpen(r) \/ CountOrg(r) \/ CountGlobal(r)
           \/ Add(r) \/ Unlock(r)
    PROVE  \A q \in Request : Locked(q)'
<1> SUFFICES ASSUME NEW q \in Request PROVE Locked(q)'
  OBVIOUS
<1> USE DEF limiter, slots, row, evidence, run
<1>1. /\ q # r => pc'[q] = pc[q]
      /\ UNCHANGED <<orgOf, lapsed>> /\ Locked(q) /\ Locked(r)
  BY GotoStays
  DEF Acquire, FailOpen, CountOrg, CountGlobal, Add, Unlock, Goto
<1>2. CASE Acquire(r)
  <2>1. CASE lock[orgOf[r]] = Nobody /\ lock' = [lock EXCEPT ![orgOf[r]] = r]
    <3>1. Nobody \notin Request
      BY ApiAssumption
    <3>2. QED
      BY <1>1, <2>1, <3>1 DEF Locked, BaseOK
  <2>2. CASE UNCHANGED lock /\ pc'[r] = "create"
    BY <1>1, <2>2 DEF Locked, Section
  <2>3. QED
    BY <1>2, <2>1, <2>2, PcIs DEF Acquire
<1>3. CASE FailOpen(r) \/ CountOrg(r) \/ CountGlobal(r) \/ Add(r)
  <2>1. pc[r] \in Section /\ UNCHANGED lock
    BY <1>3 DEF Section, FailOpen, CountOrg, CountGlobal, Add
  <2>2. QED
    BY <1>1, <2>1 DEF Locked
<1>4. CASE Unlock(r)
  <2>1. pc'[r] \notin Section /\ pc[r] \in Section
    BY <1>4, PcIs DEF Unlock, Section
  <2>2. CASE UNCHANGED lock
    BY <1>1, <2>1, <2>2 DEF Locked
  <2>3. CASE lock' = [lock EXCEPT ![orgOf[r]] = IF @ = r THEN Nobody ELSE @]
    BY <1>1, <2>1, <2>3 DEF Locked, BaseOK
  <2>4. QED
    BY <1>4, <2>2, <2>3 DEF Unlock
<1>5. QED
  BY <1>2, <1>3, <1>4

\* What every step outside the limiter's section leaves of it.
Quiet ==
    /\ UNCHANGED <<orgOf, lock, lapsed>>
    /\ orgSlots' \subseteq orgSlots /\ globalSlots' \subseteq globalSlots
    /\ \A q \in Request : pc'[q] \in Section => pc'[q] = pc[q]

LEMMA RequestIsQuiet ==
    ASSUME BaseOK, NEW r \in Request,
           \/ Create(r) \/ Stage(r) \/ Unstage(r) \/ Dispatch(r) \/ Undo(r)
           \/ Stamp(r) \/ RecordHandle(r) \/ Answer(r) \/ CleanUp(r)
           \/ RequestDies(r)
    PROVE  Quiet
<1>1. /\ \A q \in Request : pc'[q] \in Section => pc'[q] = pc[q]
      /\ UNCHANGED orgOf
  <2>1. \A q \in Request \ {r} : pc'[q] = pc[q]
    BY RequestStays DEF Stays
  <2>2. /\ pc'[r] \notin {"count", "global", "add", "admit", "refuse"}
        /\ UNCHANGED orgOf
    BY PcIs DEF Create, Stage, Unstage, Dispatch, Undo, Stamp, RecordHandle,
                Answer, CleanUp, RequestDies, Goto
  <2>3. QED
    BY <2>1, <2>2 DEF Section
<1>2. UNCHANGED <<lock, lapsed>>
  BY DEF Create, Stage, Unstage, Dispatch, Undo, Stamp, RecordHandle, Answer,
         CleanUp, RequestDies, limiter
<1>3. orgSlots' \subseteq orgSlots /\ globalSlots' \subseteq globalSlots
  <2>1. "ERROR" \in Terminal
    BY DEF Terminal
  <2>2. QED
    BY <2>1, ReleaseEffect, CloseEffect
    DEF Create, Stage, Unstage, Dispatch, Undo, Stamp, RecordHandle, Answer,
        CleanUp, RequestDies, limiter, slots
<1>4. QED
  BY <1>1, <1>2, <1>3 DEF Quiet

LEMMA RunIsQuiet ==
    ASSUME BaseOK, NEW r \in Request,
           Works(r) \/ Sweep(r) \/ RecoverStuck(r)
    PROVE  Quiet
<1>1. UNCHANGED <<orgOf, pc, lock, lapsed>>
  BY DEF Works, Work, Take, OrchestrationFails, Redeliver, ReadRow, Open,
         SkipBatches, CallBack, EndRun, Sweep, RecoverStuck, limiter
<1>2. orgSlots' \subseteq orgSlots /\ globalSlots' \subseteq globalSlots
  <2>1. "ERROR" \in Terminal
    BY DEF Terminal
  <2>2. ASSUME NEW d \in Deliveries, Work(r, d)
        PROVE  /\ orgSlots' \subseteq orgSlots
               /\ globalSlots' \subseteq globalSlots
    BY <2>1, <2>2, CloseEffect
    DEF Work, Take, OrchestrationFails, Redeliver, ReadRow, Open,
        SkipBatches, CallBack, EndRun, limiter, unsaved, slots
  <2>3. CASE Sweep(r)
    BY <2>3, ReleaseEffect DEF Sweep, ReleaseAbandoned
  <2>4. CASE RecoverStuck(r)
    BY <2>4, CloseEffect DEF RecoverStuck
  <2>5. QED
    BY <2>2, <2>3, <2>4 DEF Works
<1>3. QED
  BY <1>1, <1>2 DEF Quiet

LEMMA SubsetsFinite ==
    ASSUME NEW S, S \subseteq Request
    PROVE  IsFiniteSet(S) /\ Cardinality(S) \in Nat
BY ApiAssumption, FS_Subset, FS_CardinalityType

LEMMA Smaller ==
    ASSUME NEW S, S \subseteq Request, NEW T, T \subseteq S
    PROVE  Cardinality(T) <= Cardinality(S)
BY SubsetsFinite, FS_Subset

LEMMA UnionBound ==
    ASSUME NEW S, S \subseteq Request, NEW T, T \subseteq Request
    PROVE  Cardinality(S \cup T) <= Cardinality(S) + Cardinality(T)
<1>1. /\ IsFiniteSet(S) /\ IsFiniteSet(T)
      /\ Cardinality(S) \in Nat /\ Cardinality(T) \in Nat
      /\ Cardinality(S \cap T) \in Nat
  BY SubsetsFinite
<1>2. Cardinality(S \cup T)
          = Cardinality(S) + Cardinality(T) - Cardinality(S \cap T)
  BY <1>1, FS_Union, Zenon
<1>3. QED
  BY <1>1, <1>2

LEMMA OrgsFinite ==
    ASSUME BaseOK, NEW S, S \subseteq Request
    PROVE  /\ OrgsOf(S) \subseteq Org
           /\ IsFiniteSet(OrgsOf(S)) /\ Cardinality(OrgsOf(S)) \in Nat
<1>1. OrgsOf(S) \subseteq Org
  BY DEF OrgsOf, BaseOK
<1>2. QED
  BY <1>1, ApiAssumption, FS_Subset, FS_CardinalityType

LEMMA OrgsSurjection ==
    ASSUME BaseOK, NEW S, S \subseteq Request
    PROVE  [r \in S |-> orgOf[r]] \in Surjection(S, OrgsOf(S))
BY DEF OrgsOf, Surjection

LEMMA AtMostOrgs ==
    ASSUME BaseOK, NEW S, S \subseteq Request
    PROVE  Cardinality(OrgsOf(S)) <= Cardinality(S)
BY OrgsSurjection, SubsetsFinite, FS_Surjection

LEMMA DistinctOrgs ==
    ASSUME BaseOK, NEW S, S \subseteq Request,
           \A x, y \in S : orgOf[x] = orgOf[y] => x = y
    PROVE  Cardinality(OrgsOf(S)) = Cardinality(S)
<1>1. [r \in S |-> orgOf[r]] \in Injection(S, OrgsOf(S))
  BY DEF OrgsOf, Injection, IsInjective
<1>2. QED
  BY <1>1, OrgsSurjection, SubsetsFinite, FS_Surjection

\* Fewer requests are not further above the number of their organizations.
LEMMA ExcessShrinks ==
    ASSUME BaseOK, NEW S, S \subseteq Request, NEW T, T \subseteq S
    PROVE  Cardinality(T) - Cardinality(OrgsOf(T))
               <= Cardinality(S) - Cardinality(OrgsOf(S))
<1> DEFINE D == S \ T
<1>1. /\ Cardinality(D) = Cardinality(S) - Cardinality(T)
      /\ Cardinality(S) \in Nat /\ Cardinality(T) \in Nat
  <2>1. S \cap T = T
    OBVIOUS
  <2>2. QED
    BY <2>1, SubsetsFinite, FS_Difference
<1>2. Cardinality(OrgsOf(D)) <= Cardinality(D)
  BY AtMostOrgs
<1>3. /\ Cardinality(OrgsOf(S)) \in Nat /\ Cardinality(OrgsOf(T)) \in Nat
      /\ Cardinality(OrgsOf(D)) \in Nat
      /\ IsFiniteSet(OrgsOf(T)) /\ IsFiniteSet(OrgsOf(D))
  BY OrgsFinite
<1>4. OrgsOf(S) = OrgsOf(T) \cup OrgsOf(D)
  BY DEF OrgsOf
<1>5. Cardinality(OrgsOf(S)) <= Cardinality(OrgsOf(T)) + Cardinality(OrgsOf(D))
  <2>1. Cardinality(OrgsOf(T) \cap OrgsOf(D)) \in Nat
    BY <1>3, FS_Intersection, FS_CardinalityType
  <2>2. Cardinality(OrgsOf(S)) = Cardinality(OrgsOf(T))
            + Cardinality(OrgsOf(D)) - Cardinality(OrgsOf(T) \cap OrgsOf(D))
    BY <1>3, <1>4, FS_Union, Zenon
  <2>3. QED
    BY <1>3, <2>1, <2>2
<1> HIDE DEF D
<1>6. QED
  BY <1>1, <1>2, <1>3, <1>5

LEMMA OrgBoundKept ==
    ASSUME BaseOK, NEW o \in Org, OrgBound(o), UNCHANGED orgOf,
           lapsed \subseteq lapsed', lapsed' \subseteq Request,
           Claims(o)' \subseteq Claims(o)
    PROVE  OrgBound(o)'
<1>1. /\ Claims(o) \subseteq Request /\ Lapsed(o) \subseteq Lapsed(o)'
      /\ Lapsed(o)' \subseteq Request
  BY DEF Claims, SlotsOf, Lapsed, BaseOK
<1>2. /\ Cardinality(Claims(o)') <= Cardinality(Claims(o))
      /\ Cardinality(Lapsed(o)) <= Cardinality(Lapsed(o)')
  BY <1>1, Smaller
<1>3. /\ Cardinality(Claims(o)) \in Nat /\ Cardinality(Claims(o)') \in Nat
      /\ Cardinality(Lapsed(o)) \in Nat /\ Cardinality(Lapsed(o)') \in Nat
      /\ OrgLimit[o] \in Nat
  BY <1>1, SubsetsFinite, ApiAssumption
<1>4. Cardinality(Claims(o)) <= OrgLimit[o] + Cardinality(Lapsed(o))
  BY DEF OrgBound
<1>5. Cardinality(Claims(o)') <= OrgLimit[o] + Cardinality(Lapsed(o)')
  BY <1>2, <1>3, <1>4
<1>6. QED
  BY <1>5 DEF OrgBound

LEMMA GlobalBoundKept ==
    ASSUME BaseOK, GlobalBound, UNCHANGED orgOf, lapsed \subseteq lapsed',
           lapsed' \subseteq Request, Takers' \subseteq Takers
    PROVE  GlobalBound'
<1> SUFFICES ASSUME Takers' # {}
             PROVE  Cardinality(Takers') - Cardinality(OrgsOf(Takers'))
                        < GlobalLimit + Cardinality(lapsed')
  BY DEF GlobalBound, OrgsOf
<1>1. Takers \subseteq Request
  BY DEF Takers, BaseOK
<1>2. Cardinality(Takers') - Cardinality(OrgsOf(Takers'))
          <= Cardinality(Takers) - Cardinality(OrgsOf(Takers))
  BY <1>1, ExcessShrinks
<1>3. Cardinality(lapsed) <= Cardinality(lapsed')
  BY Smaller
<1>4. Cardinality(Takers) - Cardinality(OrgsOf(Takers))
          < GlobalLimit + Cardinality(lapsed)
  BY DEF GlobalBound
<1>5. /\ Cardinality(Takers) \in Nat /\ Cardinality(OrgsOf(Takers)) \in Nat
      /\ Cardinality(Takers') \in Nat /\ Cardinality(OrgsOf(Takers')) \in Nat
      /\ Cardinality(lapsed) \in Nat /\ Cardinality(lapsed') \in Nat
      /\ GlobalLimit \in Nat
  BY <1>1, SubsetsFinite, OrgsFinite, ApiAssumption DEF BaseOK
<1>6. QED
  BY <1>2, <1>3, <1>4, <1>5

\* Those of one organization who rely on its lock are the holder and the
\* requests whose lock ran out.
LEMMA CountedIsBounded ==
    ASSUME BaseOK, NEW r \in Request, CountOrg(r), pc'[r] = "global",
           NEW o \in Org, orgOf[r] = o, \A q \in Request : Locked(q)'
    PROVE  OrgBound(o)'
<1> DEFINE P == {q \in Request : orgOf[q] = o /\ pc'[q] \in {"global", "add"}}
           S == {x \in orgSlots' : orgOf[x] = o}
<1>1. /\ UNCHANGED <<orgOf, lapsed, lock>>
      /\ orgSlots' \subseteq Request
  BY DEF CountOrg, Goto, BaseOK
<1>2. Claims(o)' = S \cup P /\ Lapsed(o)' = Lapsed(o)
  BY <1>1 DEF Claims, SlotsOf, Lapsed
<1>3. Cardinality(S) < OrgLimit[o]
  <2>1. ~ (Cardinality(S) >= OrgLimit[o])
    BY PcIs DEF CountOrg
  <2>2. Cardinality(S) \in Nat /\ OrgLimit[o] \in Nat
    BY <1>1, SubsetsFinite, ApiAssumption
  <2> HIDE DEF S
  <2>3. QED
    BY <2>1, <2>2
<1>4. P \subseteq Lapsed(o) \cup {lock[o]}
  BY <1>1 DEF Locked, Lapsed, Section
<1>5. Cardinality(P) <= Cardinality(Lapsed(o)) + 1
  <2>1. /\ Lapsed(o) \subseteq Request /\ IsFiniteSet(Lapsed(o))
        /\ Cardinality(Lapsed(o)) \in Nat
    BY SubsetsFinite DEF Lapsed, BaseOK
  <2>2. /\ IsFiniteSet(Lapsed(o) \cup {lock[o]})
        /\ Cardinality(Lapsed(o) \cup {lock[o]}) <= Cardinality(Lapsed(o)) + 1
        /\ Cardinality(Lapsed(o) \cup {lock[o]}) \in Nat
    <3>1. /\ IsFiniteSet(Lapsed(o) \cup {lock[o]})
          /\ Cardinality(Lapsed(o) \cup {lock[o]})
                = IF lock[o] \in Lapsed(o) THEN Cardinality(Lapsed(o))
                                           ELSE Cardinality(Lapsed(o)) + 1
      BY <2>1, FS_AddElement, Zenon
    <3>2. QED
      BY <2>1, <3>1
  <2>3. Cardinality(P) <= Cardinality(Lapsed(o) \cup {lock[o]})
    BY <1>4, <2>2, FS_Subset
  <2>4. Cardinality(P) \in Nat
    BY SubsetsFinite
  <2> HIDE DEF P
  <2>5. QED
    BY <2>1, <2>2, <2>3, <2>4
<1>6. Cardinality(S \cup P) <= Cardinality(S) + Cardinality(P)
  BY <1>1, UnionBound
<1>7. /\ Cardinality(S \cup P) \in Nat /\ Cardinality(S) \in Nat
      /\ Cardinality(P) \in Nat /\ Cardinality(Lapsed(o)) \in Nat
      /\ OrgLimit[o] \in Nat
  BY <1>1, SubsetsFinite, ApiAssumption DEF Lapsed, BaseOK
<1> HIDE DEF P, S
<1>8. Cardinality(S \cup P) <= OrgLimit[o] + Cardinality(Lapsed(o))
  BY <1>3, <1>5, <1>6, <1>7
<1>9. Cardinality(Claims(o)') <= OrgLimit[o] + Cardinality(Lapsed(o)')
  BY <1>2, <1>8
<1>10. QED
  BY <1>9 DEF OrgBound

\* Those about to add themselves whose locks did not run out are of
\* different organizations.
LEMMA AdmittedIsBounded ==
    ASSUME BaseOK, NEW r \in Request, CountGlobal(r), pc'[r] = "add",
           \A q \in Request : Locked(q)'
    PROVE  GlobalBound'
<1> DEFINE A == {q \in Request : pc'[q] = "add"}
           B == A \ lapsed
           T == globalSlots \cup A
<1>1. /\ UNCHANGED <<orgOf, lapsed, globalSlots, lock>>
      /\ lapsed \subseteq Request /\ globalSlots \subseteq Request
  BY DEF CountGlobal, Goto, limiter, BaseOK
<1>2. Takers' = T /\ T \subseteq Request
  BY <1>1 DEF Takers
<1>3. Cardinality(globalSlots) < GlobalLimit
  <2>1. ~ (Cardinality(globalSlots) >= GlobalLimit)
    BY PcIs DEF CountGlobal
  <2>2. QED
    BY <1>1, <2>1, SubsetsFinite, ApiAssumption
<1>4. Cardinality(OrgsOf(B)) = Cardinality(B)
  <2>1. \A x, y \in B : orgOf[x] = orgOf[y] => x = y
    BY <1>1 DEF Locked, Section
  <2>2. QED
    BY <2>1, DistinctOrgs
<1>5. Cardinality(OrgsOf(B)) <= Cardinality(OrgsOf(T))
  <2>1. OrgsOf(B) \subseteq OrgsOf(T)
    BY DEF OrgsOf
  <2>2. QED
    BY <1>2, <2>1, OrgsFinite, FS_Subset
<1>6. Cardinality(A) <= Cardinality(B) + Cardinality(lapsed)
  <2>1. A \subseteq B \cup lapsed /\ B \subseteq Request
    OBVIOUS
  <2>2. Cardinality(A) <= Cardinality(B \cup lapsed)
    BY <1>1, <2>1, Smaller
  <2>3. Cardinality(B \cup lapsed) <= Cardinality(B) + Cardinality(lapsed)
    BY <1>1, <2>1, UnionBound
  <2>4. /\ Cardinality(A) \in Nat /\ Cardinality(B) \in Nat
        /\ Cardinality(B \cup lapsed) \in Nat /\ Cardinality(lapsed) \in Nat
    BY <1>1, <2>1, SubsetsFinite
  <2> HIDE DEF A, B
  <2>5. QED
    BY <2>2, <2>3, <2>4
<1>7. Cardinality(T) <= Cardinality(globalSlots) + Cardinality(A)
  BY <1>1, UnionBound
<1>8. /\ Cardinality(T) \in Nat /\ Cardinality(A) \in Nat
      /\ Cardinality(B) \in Nat /\ Cardinality(globalSlots) \in Nat
      /\ Cardinality(lapsed) \in Nat /\ Cardinality(OrgsOf(T)) \in Nat
      /\ GlobalLimit \in Nat
  BY <1>1, <1>2, SubsetsFinite, OrgsFinite, ApiAssumption
<1>9. OrgsOf(Takers)' = OrgsOf(T)
  BY <1>1, <1>2 DEF OrgsOf
<1> HIDE DEF A, B, T
<1>10. Cardinality(T) - Cardinality(OrgsOf(T))
           < GlobalLimit + Cardinality(lapsed)
  BY <1>3, <1>4, <1>5, <1>6, <1>7, <1>8
<1>11. QED
  BY <1>1, <1>2, <1>9, <1>10 DEF GlobalBound

Bounded == GlobalBound /\ \A o \in Org : OrgBound(o)

LEMMA QuietKeepsBounds ==
    ASSUME BaseOK, Bounded, Quiet, \A q \in Request : Locked(q)
    PROVE  Bounded' /\ \A q \in Request : Locked(q)'
<1>1. \A q \in Request : Locked(q)'
  BY DEF Quiet, Locked
<1>2. lapsed \subseteq lapsed' /\ lapsed' \subseteq Request /\ UNCHANGED orgOf
  BY DEF Quiet, BaseOK
<1>3. Takers' \subseteq Takers
  BY DEF Quiet, Takers, Section
<1>4. GlobalBound'
  BY <1>2, <1>3, GlobalBoundKept DEF Bounded
<1>5. ASSUME NEW o \in Org PROVE OrgBound(o)'
  <2>1. Claims(o)' \subseteq Claims(o)
    BY DEF Quiet, Claims, SlotsOf, Section
  <2>2. QED
    BY <1>2, <2>1, OrgBoundKept DEF Bounded
<1>6. QED
  BY <1>1, <1>4, <1>5 DEF Bounded

LEMMA LimiterKeepsBounds ==
    ASSUME BaseOK, Bounded, NEW r \in Request,
           \A q \in Request : Locked(q),
           \/ Acquire(r) \/ FailOpen(r) \/ CountOrg(r) \/ CountGlobal(r)
           \/ Add(r) \/ Unlock(r)
    PROVE  Bounded'
<1>1. \A q \in Request : Locked(q)'
  BY LimiterKeepsLocked
<1>2. /\ lapsed \subseteq lapsed' /\ lapsed' \subseteq Request
      /\ UNCHANGED orgOf
      /\ \A q \in Request \ {r} : pc'[q] = pc[q]
  BY LimiterStays
  DEF Acquire, FailOpen, CountOrg, CountGlobal, Add, Unlock, Goto, BaseOK,
      limiter, Stays
<1>3. CASE pc'[r] \notin {"global", "add"} /\ ~Add(r)
  <2>1. orgSlots' \subseteq orgSlots /\ globalSlots' \subseteq globalSlots
    BY <1>3
    DEF Acquire, FailOpen, CountOrg, CountGlobal, Unlock, limiter, slots
  <2>2. /\ Takers' \subseteq Takers
        /\ \A o \in Org : Claims(o)' \subseteq Claims(o)
    BY <1>2, <1>3, <2>1 DEF Takers, Claims, SlotsOf
  <2>3. QED
    BY <1>2, <2>2, GlobalBoundKept, OrgBoundKept DEF Bounded
<1>4. CASE Add(r)
  <2>1. /\ orgSlots' \subseteq orgSlots \cup {r}
        /\ globalSlots' \subseteq globalSlots \cup {r}
        /\ pc[r] = "add" /\ pc'[r] = "admit"
    BY <1>4, PcIs DEF Add, slots
  <2>2. /\ Takers' \subseteq Takers
        /\ \A o \in Org : Claims(o)' \subseteq Claims(o)
    BY <1>2, <2>1 DEF Takers, Claims, SlotsOf
  <2>3. QED
    BY <1>2, <2>2, GlobalBoundKept, OrgBoundKept DEF Bounded
<1>5. CASE CountOrg(r) /\ pc'[r] = "global"
  <2>1. orgSlots' \subseteq orgSlots /\ globalSlots' \subseteq globalSlots
    BY <1>5 DEF CountOrg
  <2>2. GlobalBound'
    <3>1. Takers' \subseteq Takers
      BY <1>2, <1>5, <2>1 DEF Takers
    <3>2. QED
      BY <1>2, <3>1, GlobalBoundKept DEF Bounded
  <2>3. ASSUME NEW o \in Org PROVE OrgBound(o)'
    <3>1. CASE orgOf[r] = o
      BY <1>1, <1>5, <3>1, CountedIsBounded
    <3>2. CASE orgOf[r] # o
      <4>1. Claims(o)' \subseteq Claims(o)
        BY <1>2, <2>1, <3>2 DEF Claims, SlotsOf
      <4>2. QED
        BY <1>2, <4>1, OrgBoundKept DEF Bounded
    <3>3. QED
      BY <3>1, <3>2
  <2>4. QED
    BY <2>2, <2>3 DEF Bounded
<1>6. CASE CountGlobal(r) /\ pc'[r] = "add"
  <2>1. UNCHANGED orgSlots /\ pc[r] = "global"
    BY <1>6 DEF CountGlobal, limiter
  <2>2. \A o \in Org : Claims(o)' \subseteq Claims(o)
    BY <1>2, <2>1 DEF Claims, SlotsOf
  <2>3. QED
    BY <1>1, <1>2, <1>6, <2>2, AdmittedIsBounded, OrgBoundKept DEF Bounded
<1>7. QED
  <2>1. Acquire(r) \/ FailOpen(r) \/ Unlock(r)
        => pc'[r] \notin {"global", "add"}
    BY PcIs DEF Acquire, FailOpen, Unlock
  <2>2. CountOrg(r) => pc'[r] \in {"refuse", "global"}
    BY PcIs DEF CountOrg
  <2>3. CountGlobal(r) => pc'[r] \in {"refuse", "add"}
    BY PcIs DEF CountGlobal
  <2>4. CASE CountOrg(r)
    BY <1>3, <1>4, <1>5, <2>2, <2>4
  <2>5. CASE CountGlobal(r)
    BY <1>3, <1>4, <1>6, <2>3, <2>5
  <2>6. CASE Acquire(r) \/ FailOpen(r) \/ Unlock(r) \/ Add(r)
    BY <1>3, <1>4, <2>1, <2>6
  <2>7. QED
    BY <2>4, <2>5, <2>6

LEMMA LapseKeepsAll ==
    ASSUME BaseOK, Bounded, NEW l \in Org, LockLapses(l),
           \A q \in Request : Sound(q) /\ Locked(q)
    PROVE  /\ BaseOK' /\ Bounded'
           /\ \A q \in Request : Sound(q)' /\ Locked(q)'
<1> USE DEF slots, row, evidence, run
<1>1. /\ UNCHANGED <<orgOf, pc, orgSlots, globalSlots, slotless, status,
                    stamped, handled, swept, input, job, snap, faults>>
      /\ lock' = [lock EXCEPT ![l] = Nobody] /\ lock[l] \in Request
      /\ lapsed' \in {lapsed, lapsed \cup {lock[l]}}
      /\ pc[lock[l]] \in Section => lock[l] \in lapsed'
  BY DEF LockLapses, BaseOK
<1>2. BaseOK'
  BY <1>1 DEF BaseOK
<1>3. \A q \in Request : Locked(q)'
  BY <1>1 DEF Locked, BaseOK
<1>4. \A q \in Request : Sound(q)'
  <2> SUFFICES ASSUME NEW q \in Request PROVE Sound(q)'
    OBVIOUS
  <2>1. Stays(q) /\ faults \subseteq faults'
    BY <1>1 DEF Stays
  <2>2. QED
    BY <2>1, StaysSound
<1>5. /\ lapsed \subseteq lapsed' /\ lapsed' \subseteq Request
      /\ Takers' \subseteq Takers
      /\ \A o \in Org : Claims(o)' \subseteq Claims(o)
  BY <1>1, <1>2 DEF Takers, Claims, SlotsOf, BaseOK
<1>6. Bounded'
  BY <1>1, <1>5, GlobalBoundKept, OrgBoundKept DEF Bounded
<1>7. QED
  BY <1>2, <1>3, <1>4, <1>6

-----------------------------------------------------------------------------
(* The invariant and the theorems.                                         *)

ApiInv ==
    /\ BaseOK /\ Bounded
    /\ \A q \in Request : Sound(q) /\ Locked(q)

LEMMA InvInit == Init => ApiInv
<1> SUFFICES ASSUME Init PROVE ApiInv
  OBVIOUS
<1>1. BaseOK
  BY JobsAre DEF Init, BaseOK, Steps, Serving, Statuses
<1>2. Bounded
  <2>1. Takers = {} /\ \A o \in Org : Claims(o) = {} /\ Lapsed(o) = {}
    BY DEF Init, Takers, Claims, SlotsOf, Lapsed
  <2>2. QED
    BY <2>1, FS_EmptySet, ApiAssumption DEF Bounded, GlobalBound, OrgBound
<1>3. ASSUME NEW q \in Request PROVE Sound(q) /\ Locked(q)
  <2>1. ~ Sent(q) /\ Counted(q)
    BY FirstIsDelivery DEF Init, Sent, Counted
  <2>2. QED
    BY <2>1, Unsent
    DEF Init, Sound, Ordered, Evident, Held, Freed, Swept, Staged, Ended,
        Locked, Section, BeforeRow, BeforeMessage
<1>4. QED
  BY <1>1, <1>2, <1>3 DEF ApiInv

LEMMA InvNext == ApiInv /\ [Next]_vars => ApiInv'
<1> SUFFICES ASSUME ApiInv, [Next]_vars PROVE ApiInv'
  OBVIOUS
<1> USE DEF ApiInv
<1>1. CASE UNCHANGED vars
  <2>1. BaseOK'
    BY <1>1 DEF BaseOK, vars, limiter, row, evidence, run
  <2>2. Bounded'
    BY <1>1 DEF Bounded, GlobalBound, OrgBound, Takers, Claims, SlotsOf,
                Lapsed, OrgsOf, vars, limiter, row, evidence, run
  <2>3. ASSUME NEW q \in Request PROVE Sound(q)' /\ Locked(q)'
    BY <1>1, StaysSound
    DEF Stays, Locked, vars, limiter, row, evidence, run
  <2>4. QED
    BY <2>1, <2>2, <2>3
<1>2. ASSUME NEW o \in Org, LockLapses(o) PROVE ApiInv'
  BY <1>2, LapseKeepsAll
<1>3. ASSUME NEW r \in Request,
             \/ Acquire(r) \/ FailOpen(r) \/ CountOrg(r) \/ CountGlobal(r)
             \/ Add(r) \/ Unlock(r)
      PROVE  ApiInv'
  <2>1. BaseOK' /\ faults \subseteq faults'
    BY <1>3, LimiterKeepsTypes
  <2>2. \A q \in Request : Locked(q)'
    BY <1>3, LimiterKeepsLocked
  <2>3. Bounded'
    BY <1>3, LimiterKeepsBounds
  <2>4. Sound(r)'
    BY <1>3, <2>1, LimiterSound
  <2>5. ASSUME NEW q \in Request \ {r} PROVE Sound(q)'
    BY <1>3, <2>1, LimiterStays, StaysSound
  <2>6. QED
    BY <2>1, <2>2, <2>3, <2>4, <2>5
<1>4. ASSUME NEW r \in Request,
             \/ Create(r) \/ Stage(r) \/ Unstage(r) \/ Dispatch(r) \/ Undo(r)
             \/ Stamp(r) \/ RecordHandle(r) \/ Answer(r) \/ CleanUp(r)
             \/ RequestDies(r)
      PROVE  ApiInv'
  <2>1. BaseOK' /\ faults \subseteq faults'
    BY <1>4, RequestKeepsTypes
  <2>2. Bounded' /\ \A q \in Request : Locked(q)'
    BY <1>4, RequestIsQuiet, QuietKeepsBounds
  <2>3. Sound(r)'
    BY <1>4, <2>1, StageSound, RequestSound
  <2>4. ASSUME NEW q \in Request \ {r} PROVE Sound(q)'
    BY <1>4, <2>1, RequestStays, StaysSound
  <2>5. QED
    BY <2>1, <2>2, <2>3, <2>4
<1>5. ASSUME NEW r \in Request, Works(r) \/ Sweep(r) \/ RecoverStuck(r)
      PROVE  ApiInv'
  <2>1. BaseOK' /\ faults \subseteq faults'
    BY <1>5, RunKeepsTypes
  <2>2. Bounded' /\ \A q \in Request : Locked(q)'
    BY <1>5, RunIsQuiet, QuietKeepsBounds
  <2>3. Sound(r)'
    BY <1>5, <2>1, RunSound, SweepSound
  <2>4. ASSUME NEW q \in Request \ {r} PROVE Sound(q)'
    BY <1>5, <2>1, RunStays, StaysSound
  <2>5. QED
    BY <2>1, <2>2, <2>3, <2>4
<1>6. QED
  BY <1>1, <1>2, <1>3, <1>4, <1>5 DEF Next, Serve, Works

LEMMA Invariance == Spec => []ApiInv
BY InvInit, InvNext, PTL DEF Spec

(***************************************************************************)
(* Limiter, rows and runs keep their types, and dispatched_at or           *)
(* queue_message_id is found only on the rows of executions whose message  *)
(* was enqueued (execute_workflow_async).                                  *)
(***************************************************************************)
THEOREM ApiTypesHold == Spec => []ApiTypeOK
<1>1. ApiInv => ApiTypeOK
  BY DEF ApiInv, BaseOK, ApiTypeOK, Sound, Ordered, Dispatched, Sent
<1>2. QED
  BY <1>1, Invariance, PTL

(***************************************************************************)
(* Whatever the limits and however many requests, check_and_acquire lets   *)
(* an organization over its limit only by as many requests as had their    *)
(* lock run out under them.                                                *)
(***************************************************************************)
THEOREM OrgOvershootHolds == Spec => []OrgOvershootBounded
<1>1. ApiInv => OrgOvershootBounded
  <2> SUFFICES ASSUME ApiInv, NEW o \in Org
               PROVE  Cardinality(SlotsOf(o))
                          <= OrgLimit[o]
                             + Cardinality({r \in lapsed : orgOf[r] = o})
    BY DEF OrgOvershootBounded
  <2>1. /\ OrgBound(o)
        /\ Claims(o) \subseteq Request /\ Lapsed(o) \subseteq Request
    BY DEF ApiInv, Bounded, Claims, SlotsOf, Lapsed, BaseOK
  <2>2. /\ Cardinality(SlotsOf(o)) <= Cardinality(Claims(o))
        /\ SlotsOf(o) \subseteq Request
    BY <2>1, Smaller DEF Claims
  <2>3. /\ Cardinality(SlotsOf(o)) \in Nat /\ Cardinality(Claims(o)) \in Nat
        /\ Cardinality(Lapsed(o)) \in Nat /\ OrgLimit[o] \in Nat
    BY <2>1, <2>2, SubsetsFinite, ApiAssumption
  <2>4. Cardinality(SlotsOf(o)) <= OrgLimit[o] + Cardinality(Lapsed(o))
    BY <2>1, <2>2, <2>3 DEF OrgBound
  <2>5. QED
    BY <2>4 DEF Lapsed
<1>2. QED
  BY <1>1, Invariance, PTL

(***************************************************************************)
(* check_and_acquire, which reads the global count without a lock of its   *)
(* own, exceeds the global limit by one request of each other organization *)
(* at most, and by the requests whose lock ran out.                        *)
(***************************************************************************)
THEOREM GlobalOvershootHolds == Spec => []GlobalOvershootBounded
<1>1. ApiInv => GlobalOvershootBounded
  <2> SUFFICES ASSUME ApiInv, globalSlots # {}
               PROVE  Cardinality(globalSlots)
                          - Cardinality(OrgsOf(globalSlots))
                          < GlobalLimit + Cardinality(lapsed)
    BY DEF GlobalOvershootBounded, OrgsOf
  <2>1. /\ BaseOK /\ Takers # {} /\ GlobalBound /\ Takers \subseteq Request
        /\ globalSlots \subseteq Takers
    BY DEF ApiInv, Bounded, Takers, BaseOK
  <2>2. Cardinality(globalSlots) - Cardinality(OrgsOf(globalSlots))
            <= Cardinality(Takers) - Cardinality(OrgsOf(Takers))
    BY <2>1, ExcessShrinks
  <2>3. /\ Cardinality(Takers) \in Nat /\ Cardinality(OrgsOf(Takers)) \in Nat
        /\ Cardinality(globalSlots) \in Nat /\ Cardinality(lapsed) \in Nat
        /\ Cardinality(OrgsOf(globalSlots)) \in Nat /\ GlobalLimit \in Nat
    BY <2>1, SubsetsFinite, OrgsFinite, ApiAssumption DEF BaseOK
  <2>4. QED
    BY <2>1, <2>2, <2>3 DEF GlobalBound
<1>2. QED
  BY <1>1, Invariance, PTL

(***************************************************************************)
(* Neither an expiry nor the error paths of the request take the slot of a *)
(* run that has not ended (execute_workflow, release_slot), but for the    *)
(* excuses that the property names.                                        *)
(***************************************************************************)
THEOREM LiveRunHolds == Spec => []LiveRunKeepsItsSlot
<1>1. ApiInv => LiveRunKeepsItsSlot
  BY DEF ApiInv, BaseOK, LiveRunKeepsItsSlot, Dispatched, Sound, Held,
         Unrecorded, Again
<1>2. QED
  BY <1>1, Invariance, PTL

(***************************************************************************)
(* Every way in which an execution can end (request, run, reaper or sweep) *)
(* gives its slot back, unless Redis failed (update_execution,             *)
(* _release_abandoned_resources).                                          *)
(***************************************************************************)
THEOREM EndedRunHolds == Spec => []EndedRunFreesItsSlot
<1>1. ApiInv => EndedRunFreesItsSlot
  BY DEF ApiInv, BaseOK, EndedRunFreesItsSlot, Sound, Freed
<1>2. QED
  BY <1>1, Invariance, PTL

(***************************************************************************)
(* sweep_undispatched_executions tells the user that nothing ran only of   *)
(* executions that were not enqueued, unless the request could not know or *)
(* record that.                                                            *)
(***************************************************************************)
THEOREM NotStartedHolds == Spec => []NotStartedIsTrue
<1>1. ApiInv => NotStartedIsTrue
  BY DEF ApiInv, BaseOK, NotStartedIsTrue, Dispatched, Sound, Swept,
         Unrecorded, Sent
<1>2. QED
  BY <1>1, Invariance, PTL

(***************************************************************************)
(* As long as it goes on, a run finds the input that its request staged,   *)
(* however often its message is delivered: neither a sweep nor an          *)
(* orchestrator that fails deletes it. Who does is the callback of another *)
(* run of the execution (_cleanup_execution_resources), or a request that  *)
(* fails after the dispatch (execute_workflow).                            *)
(***************************************************************************)
THEOREM InputHolds == Spec => []InputOutlivesRun
<1>1. ApiInv => InputOutlivesRun
  <2> SUFFICES ASSUME ApiInv, NEW r \in Request, NEW d \in Deliveries,
                      job[r][d] \in Live
               PROVE  \/ r \in input
                      \/ \E e \in Deliveries \ {d} : job[r][e] = "closed"
                      \/ faults \cap {"enrich", "answer"} # {}
    BY DEF InputOutlivesRun
  <2>1. Counted(r) /\ Staged(r)
    BY DEF ApiInv, Sound
  <2>2. job[r][d] # "none" /\ job[r][d] # "closed"
    BY DEF Live, Orchestrating
  <2>3. Sent(r)
    BY <2>1, <2>2 DEF Counted
  <2>4. QED
    BY <2>1, <2>2, <2>3 DEF Staged, Closed
<1>2. QED
  BY <1>1, Invariance, PTL

(***************************************************************************)
(* The two sweeps, sweep_undispatched_executions and                       *)
(* recover_stuck_pg_executions, leave no execution to nobody, apart from   *)
(* the two gaps that the property names.                                   *)
(***************************************************************************)
THEOREM ExhaustiveHolds == Spec => []EveryExecutionIsSwept
<1>1. ApiInv => EveryExecutionIsSwept
  <2> SUFFICES ASSUME ApiInv, NEW r \in Request,
                      status[r] \in {"PENDING", "EXECUTING"},
                      ~ \E d \in Deliveries : job[r][d] \in Live \ {"lost"},
                      pc[r] \notin {"stamp", "handle"},
                      "orchestrator" \notin faults
               PROVE  \/ Undispatched(r) \/ Stuck(r)
                      \/ /\ \E d \in Deliveries : job[r][d] = "lost"
                         /\ faults \cap {"answer", "handle", "crash"} # {}
    BY DEF EveryExecutionIsSwept
  <2>1. Ordered(r) /\ Evident(r) /\ Ended(r)
    BY DEF ApiInv, Sound
  <2>2. CASE ~ Sent(r)
    BY <2>1, <2>2 DEF Ordered, Undispatched
  <2>3. CASE Sent(r) /\ Running(r)
    <3>1. \E d \in Deliveries : job[r][d] = "lost"
      BY <2>3 DEF Running
    <3>2. QED
      BY <2>1, <2>3, <3>1 DEF Evident, Stuck
  <2>4. CASE Sent(r) /\ ~ Running(r)
    BY <2>1, <2>4 DEF Ended
  <2>5. QED
    BY <2>2, <2>3, <2>4
<1>2. QED
  BY <1>1, Invariance, PTL
=============================================================================
