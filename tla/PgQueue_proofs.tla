--------------------------- MODULE PgQueue_proofs ---------------------------
(***************************************************************************)
(* Proofs about PgQueue for every table, set of payloads, set of consumers,*)
(* batch size and number of attempts and faults.                           *)
(***************************************************************************)
EXTENDS PgQueue, SequenceTheorems, FiniteSetTheorems, TLAPS

LEMMA ClaimSizeType == ClaimSize \in Nat \ {0}
BY ConstantAssumption DEF ConstantAssumption, ClaimSize

(* A consumer that is handling a message has one at the head of its batch. *)
LEMMA Handling ==
    ASSUME TypeOK, NEW c \in Consumer, phase[c] \notin {"idle", "down"}
    PROVE  /\ batch[c] \in Seq(Delivery)
           /\ InFlight(c) \in Row
           /\ SeenReadCt(c) \in Nat
           /\ Tail(batch[c]) \in Seq(Delivery)
           /\ Len(batch[c]) \in Nat \ {0}
           /\ Len(Tail(batch[c])) = Len(batch[c]) - 1
           /\ \A i \in 1..Len(Tail(batch[c])) :
                  Tail(batch[c])[i] = batch[c][i + 1]
           /\ Tail(batch[c]) = <<>> <=> ~(Len(batch[c]) > 1)
           /\ Head(batch[c]) = batch[c][1]
<1>1. batch[c] \in Seq(Delivery) /\ batch[c] # <<>>
  BY DEF TypeOK
<1>2. /\ Head(batch[c]) \in Delivery
      /\ Tail(batch[c]) \in Seq(Delivery)
      /\ Len(Tail(batch[c])) = Len(batch[c]) - 1
      /\ \A i \in 1..Len(Tail(batch[c])) :
             Tail(batch[c])[i] = batch[c][i + 1]
  BY <1>1, HeadTailProperties, Zenon
<1>3. Len(batch[c]) \in Nat \ {0}
  BY <1>1, EmptySeq, Zenon
<1>4. Tail(batch[c]) = <<>> <=> ~(Len(batch[c]) > 1)
  <2>1. Tail(batch[c]) = <<>> => Len(Tail(batch[c])) = 0
    BY EmptySeq
  <2>2. Tail(batch[c]) # <<>> => Len(Tail(batch[c])) \in Nat \ {0}
    BY <1>2, EmptySeq, Zenon
  <2>3. QED
    BY <1>2, <1>3, <2>1, <2>2
<1>5. Head(batch[c]) = batch[c][1]
  BY <1>1
<1>6. InFlight(c) \in Row /\ SeenReadCt(c) \in Nat
  BY <1>2 DEF InFlight, SeenReadCt, Delivery
<1>7. QED
  BY <1>1, <1>2, <1>3, <1>4, <1>5, <1>6

\* What the steps of a consumer leave well typed.
WorkerTypes ==
    /\ phase \in [Consumer -> Phases]
    /\ batch \in [Consumer -> Seq(Delivery)]
    /\ outcome \in [Consumer -> Outcomes]
    /\ lapsed \in [Consumer -> SUBSET Row]
    /\ \A c \in Consumer : batch[c] = <<>> <=> phase[c] \in {"idle", "down"}

LEMMA AdvanceType ==
    ASSUME TypeOK, NEW c \in Consumer, phase[c] \notin {"idle", "down"},
           Advance(c)
    PROVE  WorkerTypes'
BY Handling DEF TypeOK, WorkerTypes, Advance, Phases, Outcomes

LEMMA AbandonBatchType ==
    ASSUME TypeOK, NEW c \in Consumer, NEW p \in {"idle", "down"},
           AbandonBatch(c, p)
    PROVE  WorkerTypes' /\ renewing' \in [Consumer -> BOOLEAN]
BY EmptySeq DEF TypeOK, WorkerTypes, AbandonBatch, Phases, Outcomes

LEMMA SurfaceType ==
    ASSUME TypeOK, NEW c \in Consumer, phase[c] \notin {"idle", "down"},
           NEW o \in Outcomes, Surface(c, o), UNCHANGED <<batch, lapsed>>
    PROVE  WorkerTypes'
BY DEF TypeOK, WorkerTypes, Surface, Phases

\* A step of c to another phase in which it is handling the same message.
LEMMA PhaseType ==
    ASSUME TypeOK, NEW c \in Consumer, phase[c] \notin {"idle", "down"},
           NEW p \in Phases \ {"idle", "down"},
           phase' = [phase EXCEPT ![c] = p],
           UNCHANGED <<batch, outcome, lapsed>>
    PROVE  WorkerTypes'
BY DEF TypeOK, WorkerTypes, Phases

-----------------------------------------------------------------------------
(* Type correctness, one group of actions at a time. *)

TableTypes ==
    /\ state \in [Row -> {"none", "scheduled", "ready", "claimed", "deleted"}]
    /\ payload \in [Row -> SUBSET Job]
    /\ readCt \in [Row -> Nat]
    /\ due \in [Row -> BOOLEAN]
    /\ unsent \in SUBSET Job

RestTypes ==
    /\ result \in [Job -> Outcomes \cup {"none"}]
    /\ chained \in [Row -> SUBSET Outcomes]
    /\ marked \in SUBSET Job
    /\ renewing \in [Consumer -> BOOLEAN]
    /\ ran \in [Row -> SUBSET Nat]
    /\ returned \in SUBSET Row
    /\ lost \in SUBSET Row
    /\ faults \in Nat

LEMMA TypesTogether ==
    ASSUME TableTypes', WorkerTypes', RestTypes'
    PROVE  TypeOK'
BY DEF TypeOK, TableTypes, WorkerTypes, RestTypes

LEMMA ClaimType ==
    ASSUME TypeOK, NEW c \in Consumer, NEW n \in 1..ClaimSize,
           NEW rows \in [1..n -> Row], Claim(c, rows)
    PROVE  TypeOK'
<1> DEFINE chosen == {rows[i] : i \in DOMAIN rows}
           got == [i \in DOMAIN rows |-> DeliveryOf(rows[i])]
<1>1. n \in Nat \ {0} /\ DOMAIN rows = 1..n
  BY ClaimSizeType
<1>2. \A i \in 1..n : DeliveryOf(rows[i]) \in Delivery
  BY DEF DeliveryOf, Delivery, TypeOK
<1>3. got \in [1..n -> Delivery]
  BY <1>1, <1>2
<1>4. got \in Seq(Delivery) /\ got # <<>>
  BY <1>1, <1>3
<1>5. batch' = [batch EXCEPT ![c] = got] /\ phase[c] = "idle"
      /\ phase' = [phase EXCEPT ![c] = "resolve"]
      /\ UNCHANGED <<outcome, lapsed>>
  BY DEF Claim, historyVars
<1>6. WorkerTypes'
  <2> HIDE DEF got
  <2>1. batch' \in [Consumer -> Seq(Delivery)]
    BY <1>4, <1>5 DEF TypeOK
  <2>2. phase' \in [Consumer -> Phases]
    BY <1>5 DEF TypeOK, Phases
  <2>3. ASSUME NEW d \in Consumer
        PROVE  batch'[d] = <<>> <=> phase'[d] \in {"idle", "down"}
    BY <1>4, <1>5 DEF TypeOK
  <2>4. QED
    BY <1>5, <2>1, <2>2, <2>3 DEF TypeOK, WorkerTypes
<1>7. TableTypes'
  <2>1. /\ state' = [r \in Row |-> IF r \in chosen THEN "claimed" ELSE state[r]]
        /\ due' = [r \in Row |-> IF r \in chosen THEN FALSE ELSE due[r]]
        /\ readCt' = [r \in Row |->
                        IF r \in chosen THEN readCt[r] + 1 ELSE readCt[r]]
        /\ UNCHANGED <<payload, unsent>>
    BY DEF Claim
  <2> HIDE DEF chosen
  <2>2. due' \in [Row -> BOOLEAN]
    <3>1. \A r \in Row : due[r] \in BOOLEAN
      BY DEF TypeOK
    <3>2. \A r \in Row : (IF r \in chosen THEN FALSE ELSE due[r]) \in BOOLEAN
      BY <3>1
    <3>3. QED
      BY <2>1, <3>2
  <2>3. state' \in
          [Row -> {"none", "scheduled", "ready", "claimed", "deleted"}]
    BY <2>1 DEF TypeOK
  <2>4. readCt' \in [Row -> Nat]
    BY <2>1 DEF TypeOK
  <2>5. QED
    BY <2>1, <2>2, <2>3, <2>4 DEF TypeOK, TableTypes
<1>8. RestTypes'
  <2>1. UNCHANGED <<result, chained, marked, renewing, ran, returned, lost,
                    faults>>
    BY DEF Claim, channelVars, historyVars
  <2>2. QED
    BY <2>1 DEF TypeOK, RestTypes
<1>9. QED
  BY <1>6, <1>7, <1>8, TypesTogether

LEMMA ProduceType ==
    ASSUME TypeOK, Produce
    PROVE  TypeOK'
<1>1. PICK r \in Row, j \in Job :
        Send(r, j) \/ SendDelayed(r, j) \/ SendRetriedAfterCommit(r, j)
  BY DEF Produce
<1>2. \E t \in {"ready", "scheduled"} :
        /\ state' = [state EXCEPT ![r] = t]
        /\ payload' = [payload EXCEPT ![r] = {j}]
        /\ unsent' \in {unsent, unsent \ {j}}
        /\ faults' \in {faults, faults + 1}
        /\ UNCHANGED <<readCt, due, channelVars, workerVars, historyVars>>
  BY <1>1 DEF Send, SendDelayed, SendRetriedAfterCommit, Insert
<1>3. TableTypes'
  BY <1>2 DEF TypeOK, TableTypes
<1>4. WorkerTypes'
  BY <1>2 DEF TypeOK, WorkerTypes, workerVars, historyVars
<1>5. RestTypes'
  BY <1>2 DEF TypeOK, RestTypes, channelVars, workerVars, historyVars
<1>6. QED
  BY <1>3, <1>4, <1>5, TypesTogether

LEMMA ResolveType ==
    ASSUME TypeOK, NEW c \in Consumer, Resolve(c)
    PROVE  TypeOK'
<1> USE DEF tableVars, channelVars, historyVars
<1>1. phase[c] = "resolve"
  BY DEF Resolve, DropUnrunnable, FindPoison, StartTask
<1>2. TableTypes'
  BY DEF Resolve, DropUnrunnable, FindPoison, StartTask, TypeOK, TableTypes
<1>3. WorkerTypes'
  <2>1. CASE DropUnrunnable(c)
    BY <1>1, <2>1, SurfaceType DEF DropUnrunnable, Outcomes
  <2>2. CASE FindPoison(c)
    BY <1>1, <2>2, PhaseType DEF FindPoison, Phases
  <2>3. CASE StartTask(c)
    BY <1>1, <2>3, PhaseType DEF StartTask, Phases
  <2>4. QED
    BY <2>1, <2>2, <2>3 DEF Resolve
<1>4. RestTypes'
  <2>1. CASE DropUnrunnable(c) \/ FindPoison(c)
    BY <2>1 DEF DropUnrunnable, FindPoison, TypeOK, RestTypes
  <2>2. CASE StartTask(c)
    <3>1. InFlight(c) \in Row /\ SeenReadCt(c) \in Nat
      BY <1>1, Handling
    <3>2. ran' \in [Row -> SUBSET Nat]
      BY <2>2, <3>1 DEF StartTask, TypeOK
    <3>3. renewing' \in [Consumer -> BOOLEAN]
      BY <2>2 DEF StartTask, TypeOK
    <3>4. UNCHANGED <<result, chained, marked, returned, lost, faults>>
      BY <2>2 DEF StartTask
    <3>5. QED
      BY <3>2, <3>3, <3>4 DEF TypeOK, RestTypes
  <2>3. QED
    BY <2>1, <2>2 DEF Resolve
<1>5. QED
  BY <1>2, <1>3, <1>4, TypesTogether

LEMMA TaskEndsType ==
    ASSUME TypeOK, NEW c \in Consumer, TaskEnds(c)
    PROVE  TypeOK'
<1> USE DEF tableVars, channelVars, historyVars
<1>1. phase[c] = "running"
  BY DEF TaskEnds, TaskReturns, TaskRaises
<1>2. TableTypes'
  BY DEF TaskEnds, TaskReturns, TaskRaises, TypeOK, TableTypes
<1>3. WorkerTypes'
  BY <1>1, SurfaceType, AdvanceType
  DEF TaskEnds, TaskReturns, TaskRaises, Outcomes
<1>4. RestTypes'
  BY <1>1, Handling DEF TaskEnds, TaskReturns, TaskRaises, TypeOK, RestTypes
<1>5. QED
  BY <1>2, <1>3, <1>4, TypesTogether

LEMMA DeliverType ==
    ASSUME TypeOK, NEW c \in Consumer, Deliver(c)
    PROVE  TypeOK'
<1> USE DEF tableVars, channelVars, historyVars
<1>1. phase[c] \in {"storing", "chaining"}
  BY DEF Deliver, StoreOutcome, StoreFails, Chain, ChainFails
<1>2. TableTypes'
  BY DEF Deliver, StoreOutcome, StoreFails, Chain, ChainFails, TypeOK,
         TableTypes
<1>3. WorkerTypes'
  <2>1. CASE StoreOutcome(c) \/ StoreFails(c)
    <3>1. PICK p \in {"acking", "chaining"} : phase' = [phase EXCEPT ![c] = p]
      BY <2>1 DEF StoreOutcome, StoreFails, AfterStore
    <3>2. UNCHANGED <<batch, outcome, lapsed>>
      BY <2>1 DEF StoreOutcome, StoreFails
    <3>3. QED
      BY <1>1, <3>1, <3>2, PhaseType DEF Phases
  <2>2. CASE Chain(c)
    BY <1>1, <2>2, PhaseType DEF Chain, Phases
  <2>3. CASE ChainFails(c)
    BY <1>1, <2>3, PhaseType, SurfaceType DEF ChainFails, Phases, Outcomes
  <2>4. QED
    BY <2>1, <2>2, <2>3 DEF Deliver
<1>4. RestTypes'
  <2>1. CASE StoreOutcome(c)
    BY <2>1 DEF StoreOutcome, FirstWriteWins, TypeOK, RestTypes
  <2>2. CASE Chain(c)
    <3>1. InFlight(c) \in Row
      BY <1>1, Handling
    <3>2. outcome[c] \in Outcomes
      BY DEF TypeOK
    <3>3. chained' \in [Row -> SUBSET Outcomes]
      BY <2>2, <3>1, <3>2 DEF Chain, TypeOK
    <3>4. UNCHANGED <<result, marked, renewing, ran, returned, lost, faults>>
      BY <2>2 DEF Chain
    <3>5. QED
      BY <3>3, <3>4 DEF TypeOK, RestTypes
  <2>3. CASE StoreFails(c) \/ ChainFails(c)
    <3>1. InFlight(c) \in Row
      BY <1>1, Handling
    <3>2. lost' \in {lost, lost \cup {InFlight(c)}}
      BY <2>3 DEF StoreFails, ChainFails
    <3>3. UNCHANGED <<channelVars, renewing, ran, returned, faults>>
      BY <2>3 DEF StoreFails, ChainFails
    <3>4. QED
      BY <3>1, <3>2, <3>3 DEF TypeOK, RestTypes
  <2>4. QED
    BY <2>1, <2>2, <2>3 DEF Deliver
<1>5. QED
  BY <1>2, <1>3, <1>4, TypesTogether

LEMMA DropPoisonType ==
    ASSUME TypeOK, NEW c \in Consumer, DropPoison(c)
    PROVE  TypeOK'
<1> USE DEF tableVars, channelVars, historyVars
<1>1. phase[c] = "poison"
  BY DEF DropPoison, DropPoisonAnswering, DropPoisonUnmarkable,
         MarkPoisonError, DropPoisonUnconfirmed, RePark
<1>2. CASE DropPoisonAnswering(c)
  <2>1. WorkerTypes'
    BY <1>1, <1>2, SurfaceType DEF DropPoisonAnswering, Outcomes
  <2>2. TableTypes' /\ RestTypes'
    BY <1>2 DEF DropPoisonAnswering, TypeOK, TableTypes, RestTypes
  <2>3. QED
    BY <2>1, <2>2, TypesTogether
<1>3. CASE \/ DropPoisonUnmarkable(c)
           \/ MarkPoisonError(c)
           \/ DropPoisonUnconfirmed(c)
  <2>1. WorkerTypes'
    BY <1>1, <1>3, PhaseType
    DEF DropPoisonUnmarkable, MarkPoisonError, DropPoisonUnconfirmed, Phases
  <2>2. TableTypes' /\ UNCHANGED <<result, chained, renewing, ran, returned,
                                   lost, faults>>
    BY <1>3 DEF DropPoisonUnmarkable, MarkPoisonError, DropPoisonUnconfirmed,
                TypeOK, TableTypes
  <2>3. marked' \in SUBSET Job
    BY <1>1, <1>3, Handling
    DEF DropPoisonUnmarkable, MarkPoisonError, DropPoisonUnconfirmed, TypeOK
  <2>4. QED
    BY <2>1, <2>2, <2>3, TypesTogether DEF TypeOK, RestTypes
<1>4. CASE RePark(c)
  <2>1. WorkerTypes'
    BY <1>1, <1>4, AdvanceType DEF RePark
  <2>2. TableTypes' /\ RestTypes'
    BY <1>1, <1>4, Handling DEF RePark, TypeOK, TableTypes, RestTypes
  <2>3. QED
    BY <2>1, <2>2, TypesTogether
<1>5. QED
  BY <1>2, <1>3, <1>4 DEF DropPoison

LEMMA AckType ==
    ASSUME TypeOK, NEW c \in Consumer, Ack(c)
    PROVE  TypeOK'
<1> USE DEF channelVars
<1>1. phase[c] = "acking"
  BY DEF Ack
<1>2. WorkerTypes'
  BY <1>1, AdvanceType DEF Ack
<1>3. TableTypes' /\ RestTypes'
  BY <1>1, Handling DEF Ack, TypeOK, TableTypes, RestTypes
<1>4. QED
  BY <1>2, <1>3, TypesTogether

LEMMA FaultType ==
    ASSUME TypeOK, NEW c \in Consumer,
           Fault(c) \/ RenewalRecovers(c) \/ Restart(c)
    PROVE  TypeOK'
<1> USE DEF tableVars, channelVars, historyVars
<1>1. CASE AckFails(c) \/ Crash(c)
  <2>1. PICK p \in {"idle", "down"} : AbandonBatch(c, p)
    BY <1>1 DEF AckFails, Crash
  <2>2. WorkerTypes' /\ renewing' \in [Consumer -> BOOLEAN]
    BY <2>1, AbandonBatchType
  <2>3. TableTypes' /\ UNCHANGED <<channelVars, ran, returned, lost>>
        /\ faults' = faults + 1
    BY <1>1 DEF AckFails, Crash, TypeOK, TableTypes
  <2>4. QED
    BY <2>2, <2>3, TypesTogether DEF TypeOK, RestTypes
<1>2. CASE RenewalFails(c)
  <2>1. TableTypes' /\ WorkerTypes'
    BY <1>2 DEF RenewalFails, TypeOK, TableTypes, WorkerTypes
  <2>2. RestTypes'
    BY <1>2 DEF RenewalFails, TypeOK, RestTypes
  <2>3. QED
    BY <2>1, <2>2, TypesTogether
<1>3. CASE RenewalRecovers(c)
  <2>1. WorkerTypes'
    BY <1>3 DEF RenewalRecovers, TypeOK, WorkerTypes
  <2>2. TableTypes' /\ RestTypes'
    BY <1>3, Handling
    DEF RenewalRecovers, TypeOK, TableTypes, RestTypes
  <2>3. QED
    BY <2>1, <2>2, TypesTogether
<1>4. CASE Restart(c)
  <2>1. WorkerTypes'
    BY <1>4 DEF Restart, TypeOK, WorkerTypes, Phases
  <2>2. TableTypes' /\ RestTypes'
    BY <1>4 DEF Restart, TypeOK, TableTypes, RestTypes
  <2>3. QED
    BY <2>1, <2>2, TypesTogether
<1>5. QED
  BY <1>1, <1>2, <1>3, <1>4 DEF Fault

LEMMA EnvironmentType ==
    ASSUME TypeOK,
           \/ \E r \in Row : TimePasses(r)
           \/ RearmExpiredClaims
           \/ PromoteDueScheduled
    PROVE  TypeOK'
<1> USE DEF channelVars, historyVars, workerVars
<1>1. CASE \E r \in Row : TimePasses(r)
  <2>1. PICK r \in Row : TimePasses(r)
    BY <1>1
  <2>2. lapsed' \in [Consumer -> SUBSET Row]
    BY <2>1 DEF TimePasses, TypeOK
  <2>3. WorkerTypes'
    BY <2>1, <2>2 DEF TimePasses, TypeOK, WorkerTypes
  <2>4. TableTypes' /\ RestTypes'
    BY <2>1 DEF TimePasses, TypeOK, TableTypes, RestTypes
  <2>5. QED
    BY <2>3, <2>4, TypesTogether
<1>2. CASE RearmExpiredClaims \/ PromoteDueScheduled
  <2>1. state' \in
          [Row -> {"none", "scheduled", "ready", "claimed", "deleted"}]
    BY <1>2 DEF RearmExpiredClaims, PromoteDueScheduled, TypeOK
  <2>2. UNCHANGED <<payload, readCt, due, unsent, channelVars, workerVars,
                    historyVars, faults>>
    BY <1>2 DEF RearmExpiredClaims, PromoteDueScheduled
  <2>3. QED
    BY <2>1, <2>2 DEF TypeOK
<1>3. QED
  BY <1>1, <1>2

(* Every variable keeps its type, and a consumer has messages exactly when *)
(* it is neither idle nor down.                                            *)
THEOREM TypeCorrect == Spec => []TypeOK
<1>1. Init => TypeOK
  BY EmptySeq DEF Init, TypeOK, Phases, Outcomes
<1>2. TypeOK /\ [Next]_vars => TypeOK'
  <2> SUFFICES ASSUME TypeOK, [Next]_vars
               PROVE  TypeOK'
    OBVIOUS
  <2>1. CASE Produce
    BY <2>1, ProduceType
  <2>2. ASSUME NEW c \in Consumer,
               ConsumerStep(c) \/ Fault(c) \/ RenewalRecovers(c) \/ Restart(c)
        PROVE  TypeOK'
    <3>1. CASE Poll(c)
      BY <3>1, ClaimType DEF Poll
    <3>2. CASE Resolve(c) \/ TaskEnds(c) \/ Deliver(c)
      BY <3>2, ResolveType, TaskEndsType, DeliverType
    <3>3. CASE DropPoison(c) \/ Ack(c)
      BY <3>3, DropPoisonType, AckType
    <3>4. CASE Fault(c) \/ RenewalRecovers(c) \/ Restart(c)
      BY <3>4, FaultType
    <3>5. QED
      BY <2>2, <3>1, <3>2, <3>3, <3>4 DEF ConsumerStep
  <2>3. CASE \/ \E r \in Row : TimePasses(r)
             \/ RearmExpiredClaims
             \/ PromoteDueScheduled
    BY <2>3, EnvironmentType
  <2>4. CASE UNCHANGED vars
    BY <2>4 DEF vars, tableVars, workerVars, channelVars, historyVars, TypeOK
  <2>5. QED
    BY <2>1, <2>2, <2>3, <2>4 DEF Next
<1>3. QED
  BY <1>1, <1>2, PTL DEF Spec

-----------------------------------------------------------------------------
(* One lease holder per row. *)

\* c claimed r and has not lost its lease since.
Leases(c, r) == Holds(c, r) /\ r \notin lapsed[c]

(***************************************************************************)
(* SoleLeaseHolder is not inductive by itself: the next claim decides on   *)
(* the row's state, and the re-arm sweep on its state and lease, so the    *)
(* invariant ties both to the leases that are held. That a batch has no    *)
(* row twice keeps a consumer from forgetting a lost lease when it is done *)
(* with the message before, and needs every queued row to have a payload,  *)
(* whose priority orders it.                                               *)
(***************************************************************************)
LeasedRowsClaimed ==
    \A c \in Consumer, r \in Row : Leases(c, r) =>
        \/ state[r] = "deleted"
        \/ state[r] = "claimed" /\ ~due[r]

BatchRowsDiffer ==
    \A c \in Consumer : \A i, k \in 1..Len(batch[c]) :
        batch[c][i].row = batch[c][k].row => i = k

Queued == {"scheduled", "ready", "claimed"}

RowsHavePayload ==
    \A r \in Row : state[r] \in Queued => \E j \in Job : payload[r] = {j}

LeaseInv ==
    LeasedRowsClaimed /\ BatchRowsDiffer /\ RowsHavePayload
        /\ SoleLeaseHolder

LEMMA AdvanceForgetsHead ==
    ASSUME TypeOK, BatchRowsDiffer, NEW c \in Consumer,
           phase[c] \notin {"idle", "down"}, Advance(c)
    PROVE  /\ BatchRowsDiffer'
           /\ \A d \in Consumer, r \in Row :
                  /\ Holds(d, r)' => Holds(d, r)
                  /\ Leases(d, r)' => Leases(d, r)
                  /\ Holds(d, r)' /\ r \in lapsed[d] => r \in lapsed'[d]
<1>1. batch'[c] = Tail(batch[c]) /\ lapsed'[c] = lapsed[c] \ {InFlight(c)}
      /\ \A d \in Consumer \ {c} :
             batch'[d] = batch[d] /\ lapsed'[d] = lapsed[d]
  BY DEF Advance, TypeOK
<1>2. \A i \in 1..Len(batch'[c]) :
          i + 1 \in 1..Len(batch[c]) /\ batch'[c][i] = batch[c][i + 1]
  BY <1>1, Handling
<1>3. \A i \in 1..Len(batch'[c]) : batch'[c][i].row # InFlight(c)
  BY <1>2, Handling DEF BatchRowsDiffer, InFlight
<1>4. BatchRowsDiffer'
  <2> SUFFICES ASSUME NEW d \in Consumer,
                      NEW i \in 1..Len(batch'[d]), NEW k \in 1..Len(batch'[d]),
                      batch'[d][i].row = batch'[d][k].row
               PROVE  i = k
    BY DEF BatchRowsDiffer
  <2>1. CASE d = c
    <3>1. /\ i + 1 \in 1..Len(batch[c]) /\ k + 1 \in 1..Len(batch[c])
          /\ batch[c][i + 1].row = batch[c][k + 1].row
      BY <1>2, <2>1
    <3>2. i + 1 = k + 1
      BY <3>1 DEF BatchRowsDiffer
    <3>3. i \in Int /\ k \in Int
      BY <1>1, <2>1, Handling
    <3>4. QED
      BY <3>2, <3>3
  <2>2. CASE d # c
    BY <1>1, <2>2 DEF BatchRowsDiffer
  <2>3. QED
    BY <2>1, <2>2
<1>5. ASSUME NEW d \in Consumer, NEW r \in Row, Holds(d, r)'
      PROVE  Holds(d, r) /\ (d = c => r # InFlight(c))
  <2>1. CASE d = c
    <3>1. PICK i \in 1..Len(batch'[c]) : batch'[c][i].row = r
      BY <1>5, <2>1 DEF Holds
    <3>2. r # InFlight(c)
      BY <1>3, <3>1
    <3>3. i + 1 \in 1..Len(batch[c]) /\ batch[c][i + 1].row = r
      BY <1>2, <3>1
    <3>4. QED
      BY <2>1, <3>2, <3>3 DEF Holds
  <2>2. CASE d # c
    BY <1>1, <1>5, <2>2 DEF Holds
  <2>3. QED
    BY <2>1, <2>2
<1>6. QED
  BY <1>1, <1>4, <1>5 DEF Leases

LEMMA AbandonForgetsAll ==
    ASSUME TypeOK, BatchRowsDiffer, NEW c \in Consumer, NEW p,
           AbandonBatch(c, p)
    PROVE  /\ BatchRowsDiffer'
           /\ \A d \in Consumer, r \in Row :
                  /\ Holds(d, r)' => Holds(d, r)
                  /\ Leases(d, r)' => Leases(d, r)
                  /\ Holds(d, r)' /\ r \in lapsed[d] => r \in lapsed'[d]
<1>1. batch'[c] = <<>> /\ \A d \in Consumer \ {c} :
          batch'[d] = batch[d] /\ lapsed'[d] = lapsed[d]
  BY DEF AbandonBatch, TypeOK
<1>2. 1..Len(batch'[c]) = {}
  BY <1>1
<1>3. \A d \in Consumer, r \in Row : Holds(d, r)' => d # c /\ Holds(d, r)
  BY <1>1, <1>2 DEF Holds
<1>4. BatchRowsDiffer'
  BY <1>1, <1>2 DEF BatchRowsDiffer
<1>5. QED
  BY <1>1, <1>3, <1>4 DEF Leases

(* A step that hands out no message and forgets no lost lease keeps the    *)
(* invariant if it leaves the leased rows claimed.                         *)
LEMMA NothingHandedOut ==
    ASSUME LeaseInv,
           \A d \in Consumer, r \in Row :
               /\ Holds(d, r)' => Holds(d, r)
               /\ Leases(d, r)' => Leases(d, r)
               /\ Holds(d, r)' /\ r \in lapsed[d] => r \in lapsed'[d],
           \A d \in Consumer, r \in Row : Leases(d, r)' =>
               \/ state'[r] = state[r] /\ due'[r] = due[r]
               \/ state'[r] = "deleted"
               \/ state'[r] = state[r] /\ ~due'[r],
           BatchRowsDiffer', RowsHavePayload'
    PROVE  LeaseInv'
<1>1. LeasedRowsClaimed'
  BY DEF LeaseInv, LeasedRowsClaimed
<1>2. SoleLeaseHolder'
  BY DEF LeaseInv, SoleLeaseHolder
<1>3. QED
  BY <1>1, <1>2 DEF LeaseInv

LEMMA PayloadsStay ==
    ASSUME TypeOK, RowsHavePayload, UNCHANGED payload,
           \A r \in Row : state'[r] \in Queued => state[r] \in Queued
    PROVE  RowsHavePayload'
BY DEF RowsHavePayload

(* The claim statement returns no row twice: they are in strict order.     *)
LEMMA DequeuedDistinct ==
    ASSUME TypeOK, RowsHavePayload, NEW n \in Nat, NEW rows \in [1..n -> Row],
           Dequeued(rows), NEW i \in 1..n, NEW k \in 1..n, rows[i] = rows[k]
    PROVE  i = k
<1>1. ASSUME NEW a \in 1..n, NEW b \in 1..n, a < b
      PROVE  rows[a] # rows[b]
  <2>1. state[rows[a]] = "ready" /\ ClaimedBefore(rows[a], rows[b])
    BY <1>1 DEF Dequeued
  <2>2. PICK j \in Job : payload[rows[a]] = {j}
    BY <2>1 DEF RowsHavePayload, Queued
  <2>3. Priority[j] \in Int /\ rows[a] \in Nat
    BY ConstantAssumption DEF ConstantAssumption
  <2>4. QED
    BY <2>1, <2>2, <2>3 DEF ClaimedBefore
<1>2. QED
  BY <1>1

LEMMA ClaimKeepsLeases ==
    ASSUME TypeOK, LeaseInv, NEW c \in Consumer, NEW n \in 1..ClaimSize,
           NEW rows \in [1..n -> Row], Claim(c, rows)
    PROVE  LeaseInv'
<1> DEFINE chosen == {rows[i] : i \in DOMAIN rows}
<1>1. n \in Nat /\ DOMAIN rows = 1..n
  BY ClaimSizeType
<1>2. /\ state' = [r \in Row |-> IF r \in chosen THEN "claimed" ELSE state[r]]
      /\ due' = [r \in Row |-> IF r \in chosen THEN FALSE ELSE due[r]]
      /\ Dequeued(rows)
      /\ UNCHANGED <<payload, lapsed>>
  BY DEF Claim, historyVars
<1>3. batch'[c] = [i \in 1..n |-> DeliveryOf(rows[i])]
      /\ \A d \in Consumer \ {c} : batch'[d] = batch[d]
  BY <1>1 DEF Claim, TypeOK
<1>4. Len(batch'[c]) = n /\ \A i \in 1..n : batch'[c][i].row = rows[i]
  BY <1>1, <1>3 DEF DeliveryOf
<1>5. \A r \in Row : Holds(c, r)' => r \in chosen
  BY <1>1, <1>4 DEF Holds
<1>6. \A d \in Consumer \ {c}, r \in Row :
          (Holds(d, r)' <=> Holds(d, r)) /\ (Leases(d, r)' <=> Leases(d, r))
  BY <1>2, <1>3 DEF Holds, Leases
<1>7. \A r \in chosen : r \in Row /\ state[r] = "ready"
  BY <1>1, <1>2 DEF Dequeued
<1>8. \A d \in Consumer, r \in chosen : ~Leases(d, r)
  BY <1>7 DEF LeaseInv, LeasedRowsClaimed
<1> HIDE DEF chosen
<1>9. LeasedRowsClaimed'
  BY <1>2, <1>5, <1>6, <1>8 DEF LeaseInv, LeasedRowsClaimed, Leases
<1>10. BatchRowsDiffer'
  <2> SUFFICES ASSUME NEW d \in Consumer,
                      NEW i \in 1..Len(batch'[d]), NEW k \in 1..Len(batch'[d]),
                      batch'[d][i].row = batch'[d][k].row
               PROVE  i = k
    BY DEF BatchRowsDiffer
  <2>1. CASE d = c
    BY <1>1, <1>2, <1>4, <2>1, DequeuedDistinct DEF LeaseInv
  <2>2. CASE d # c
    BY <1>3, <2>2 DEF LeaseInv, BatchRowsDiffer
  <2>3. QED
    BY <2>1, <2>2
<1>11. RowsHavePayload'
  BY <1>2, <1>7 DEF LeaseInv, RowsHavePayload, Queued, TypeOK
<1>12. SoleLeaseHolder'
  <2> SUFFICES ASSUME NEW d \in Consumer, NEW e \in Consumer, NEW r \in Row,
                      d # e, Holds(d, r)', Holds(e, r)'
               PROVE  r \in lapsed'[d] \cup lapsed'[e]
    BY DEF SoleLeaseHolder
  <2>1. CASE c \notin {d, e}
    BY <1>2, <1>6, <2>1 DEF LeaseInv, SoleLeaseHolder
  <2>2. CASE d = c
    BY <1>2, <1>5, <1>6, <1>8, <2>2 DEF Leases
  <2>3. CASE e = c
    BY <1>2, <1>5, <1>6, <1>8, <2>3 DEF Leases
  <2>4. QED
    BY <2>1, <2>2, <2>3
<1>13. QED
  BY <1>9, <1>10, <1>11, <1>12 DEF LeaseInv

LEMMA ConsumerKeepsLeases ==
    ASSUME TypeOK, LeaseInv, NEW c \in Consumer,
           ConsumerStep(c) \/ Fault(c) \/ RenewalRecovers(c) \/ Restart(c)
    PROVE  LeaseInv'
<1> USE DEF tableVars, channelVars, historyVars
<1>1. CASE Poll(c)
  BY <1>1, ClaimKeepsLeases DEF Poll
\* Most steps move a consumer on and leave rows, batches and leases alone.
<1>2. CASE \/ Resolve(c) \/ TaskReturns(c) \/ Deliver(c)
           \/ DropPoisonAnswering(c) \/ DropPoisonUnmarkable(c)
           \/ MarkPoisonError(c) \/ DropPoisonUnconfirmed(c)
           \/ RenewalFails(c) \/ Restart(c)
  <2>1. UNCHANGED <<state, payload, due, batch, lapsed>>
    BY <1>2
    DEF Resolve, DropUnrunnable, FindPoison, StartTask, TaskReturns, Deliver,
        StoreOutcome, StoreFails, Chain, ChainFails, DropPoisonAnswering,
        DropPoisonUnmarkable, MarkPoisonError, DropPoisonUnconfirmed,
        RenewalFails, Restart
  <2>2. QED
    BY <2>1
    DEF LeaseInv, LeasedRowsClaimed, BatchRowsDiffer, RowsHavePayload,
        SoleLeaseHolder, Leases, Holds
<1>3. CASE TaskRaises(c)
  <2>1. phase[c] = "running" /\ UNCHANGED <<state, payload, due>>
    BY <1>3 DEF TaskRaises
  <2>2. CASE UNCHANGED <<batch, lapsed>>
    BY <2>1, <2>2
    DEF LeaseInv, LeasedRowsClaimed, BatchRowsDiffer, RowsHavePayload,
        SoleLeaseHolder, Leases, Holds
  <2>3. CASE Advance(c)
    <3>1. RowsHavePayload'
      BY <2>1, PayloadsStay DEF LeaseInv
    <3>2. QED
      BY <2>1, <2>3, <3>1, AdvanceForgetsHead, NothingHandedOut DEF LeaseInv
  <2>4. QED
    BY <1>3, <2>2, <2>3 DEF TaskRaises
<1>4. CASE RePark(c)
  <2>1. phase[c] = "poison" /\ Advance(c) /\ UNCHANGED <<state, payload>>
        /\ due' = [due EXCEPT ![InFlight(c)] = FALSE]
    BY <1>4 DEF RePark
  <2>2. RowsHavePayload'
    BY <2>1, PayloadsStay DEF LeaseInv
  <2>3. \A r \in Row : due'[r] = due[r] \/ ~due'[r]
    BY <2>1 DEF TypeOK
  <2>4. QED
    BY <2>1, <2>2, <2>3, AdvanceForgetsHead, NothingHandedOut DEF LeaseInv
<1>5. CASE Ack(c)
  <2>1. phase[c] = "acking" /\ Advance(c) /\ UNCHANGED payload
        /\ state' = [state EXCEPT ![InFlight(c)] = "deleted"]
        /\ due' = [due EXCEPT ![InFlight(c)] = FALSE]
    BY <1>5 DEF Ack
  <2>2. InFlight(c) \in Row
    BY <2>1, Handling
  <2>3. \A r \in Row :
            \/ state'[r] = "deleted"
            \/ state'[r] = state[r] /\ due'[r] = due[r]
    BY <2>1, <2>2 DEF TypeOK
  <2>4. RowsHavePayload'
    BY <2>1, <2>3, PayloadsStay DEF LeaseInv, Queued
  <2>5. QED
    BY <2>1, <2>3, <2>4, AdvanceForgetsHead, NothingHandedOut DEF LeaseInv
<1>6. CASE AckFails(c) \/ Crash(c)
  <2>1. PICK p \in {"idle", "down"} : AbandonBatch(c, p)
    BY <1>6 DEF AckFails, Crash
  <2>2. UNCHANGED <<state, payload, due>>
    BY <1>6 DEF AckFails, Crash
  <2>3. RowsHavePayload'
    BY <2>2, PayloadsStay DEF LeaseInv
  <2>4. QED
    BY <2>1, <2>2, <2>3, AbandonForgetsAll, NothingHandedOut DEF LeaseInv
<1>7. CASE RenewalRecovers(c)
  <2>1. UNCHANGED <<state, payload, batch, lapsed>>
        /\ due' = [due EXCEPT ![InFlight(c)] = FALSE]
    BY <1>7 DEF RenewalRecovers
  <2>2. \A r \in Row : due'[r] = due[r] \/ ~due'[r]
    BY <2>1 DEF TypeOK
  <2>3. QED
    BY <2>1, <2>2
    DEF LeaseInv, LeasedRowsClaimed, BatchRowsDiffer, RowsHavePayload,
        SoleLeaseHolder, Leases, Holds
<1>8. QED
  BY <1>1, <1>2, <1>3, <1>4, <1>5, <1>6, <1>7
  DEF ConsumerStep, TaskEnds, DropPoison, Fault

LEMMA EnvironmentKeepsLeases ==
    ASSUME TypeOK, LeaseInv,
           \/ Produce
           \/ \E r \in Row : TimePasses(r)
           \/ RearmExpiredClaims
           \/ PromoteDueScheduled
    PROVE  LeaseInv'
<1> USE DEF channelVars, historyVars, workerVars
<1>1. CASE Produce
  <2>1. PICK r \in Row, j \in Job :
          /\ state[r] = "none"
          /\ \E t \in {"ready", "scheduled"} : state' = [state EXCEPT ![r] = t]
          /\ payload' = [payload EXCEPT ![r] = {j}]
          /\ UNCHANGED <<due, batch, lapsed>>
    BY <1>1
    DEF Produce, Send, SendDelayed, SendRetriedAfterCommit, Insert
  <2>2. \A q \in Row : q # r => state'[q] = state[q] /\ payload'[q] = payload[q]
    BY <2>1 DEF TypeOK
  <2>3. payload'[r] = {j}
    BY <2>1 DEF TypeOK
  <2>4. RowsHavePayload'
    BY <2>2, <2>3 DEF LeaseInv, RowsHavePayload
  <2>5. \A d \in Consumer : ~Leases(d, r)
    BY <2>1 DEF LeaseInv, LeasedRowsClaimed
  <2>6. LeasedRowsClaimed'
    BY <2>1, <2>2, <2>5 DEF LeaseInv, LeasedRowsClaimed, Leases, Holds
  <2>7. QED
    BY <2>1, <2>4, <2>6
    DEF LeaseInv, BatchRowsDiffer, SoleLeaseHolder, Holds
<1>2. CASE \E r \in Row : TimePasses(r)
  <2>1. PICK r \in Row : TimePasses(r)
    BY <1>2
  <2>2. UNCHANGED <<state, payload, batch>>
        /\ due' = [due EXCEPT ![r] = TRUE]
        /\ \A d \in Consumer : lapsed'[d] =
               IF Holds(d, r) THEN lapsed[d] \cup {r} ELSE lapsed[d]
    BY <2>1 DEF TimePasses
  <2>3. \A d \in Consumer, q \in Row :
            /\ Holds(d, q)' <=> Holds(d, q)
            /\ Leases(d, q)' => q # r /\ Leases(d, q)
            /\ q \in lapsed[d] => q \in lapsed'[d]
    BY <2>2 DEF Holds, Leases
  <2>4. \A q \in Row : q # r => due'[q] = due[q]
    BY <2>2 DEF TypeOK
  <2>5. BatchRowsDiffer' /\ RowsHavePayload'
    BY <2>2 DEF LeaseInv, BatchRowsDiffer, RowsHavePayload
  <2>6. QED
    BY <2>2, <2>3, <2>4, <2>5, NothingHandedOut
<1>3. CASE RearmExpiredClaims \/ PromoteDueScheduled
  <2>1. /\ UNCHANGED <<payload, due, batch, lapsed>>
        /\ \A r \in Row :
              \/ state'[r] = state[r]
              \/ /\ state[r] = "scheduled" \/ (state[r] = "claimed" /\ due[r])
                 /\ state'[r] = "ready"
    BY <1>3 DEF RearmExpiredClaims, PromoteDueScheduled, Expired, Promotable
  <2>2. RowsHavePayload'
    BY <2>1, PayloadsStay DEF LeaseInv, Queued
  <2>3. BatchRowsDiffer'
    BY <2>1 DEF LeaseInv, BatchRowsDiffer
  <2>4. \A d \in Consumer, r \in Row :
            (Holds(d, r)' <=> Holds(d, r)) /\ (Leases(d, r)' <=> Leases(d, r))
    BY <2>1 DEF Holds, Leases
  <2>5. \A d \in Consumer, r \in Row :
            Leases(d, r) => state'[r] = state[r] /\ due'[r] = due[r]
    BY <2>1 DEF LeaseInv, LeasedRowsClaimed
  <2>6. QED
    BY <2>1, <2>2, <2>3, <2>4, <2>5, NothingHandedOut
<1>4. QED
  BY <1>1, <1>2, <1>3

LEMMA LeasesAlways == Spec => []LeaseInv
<1>1. Spec => []TypeOK
  BY TypeCorrect
<1>2. Init => LeaseInv
  <2> SUFFICES ASSUME Init
               PROVE  LeaseInv
    OBVIOUS
  <2>1. \A c \in Consumer : 1..Len(batch[c]) = {}
    BY DEF Init
  <2>2. QED
    BY <2>1
    DEF Init, LeaseInv, LeasedRowsClaimed, BatchRowsDiffer, RowsHavePayload,
        Queued, SoleLeaseHolder, Leases, Holds
<1>3. TypeOK /\ LeaseInv /\ [Next]_vars => LeaseInv'
  <2> SUFFICES ASSUME TypeOK, LeaseInv, [Next]_vars
               PROVE  LeaseInv'
    OBVIOUS
  <2>1. CASE UNCHANGED vars
    BY <2>1
    DEF vars, tableVars, workerVars, historyVars, LeaseInv, LeasedRowsClaimed,
        BatchRowsDiffer, RowsHavePayload, SoleLeaseHolder, Leases, Holds
  <2>2. QED
    BY <2>1, ConsumerKeepsLeases, EnvironmentKeepsLeases DEF Next
<1>4. QED
  BY <1>1, <1>2, <1>3, PTL DEF Spec

(* Two consumers hold one row only when one of them has lost its lease     *)
(* since it claimed, for every number of rows, consumers and faults.       *)
THEOREM OneLeaseHolder == Spec => []SoleLeaseHolder
<1>1. LeaseInv => SoleLeaseHolder
  BY DEF LeaseInv
<1>2. QED
  BY <1>1, LeasesAlways, PTL

-----------------------------------------------------------------------------
(* The deliveries of a row are numbered, and its bodies run by number. *)

(***************************************************************************)
(* read_ct counts the deliveries of a row: a consumer holds a number that  *)
(* was given out, and never one that another holds. So the bodies that     *)
(* started are some of the deliveries, and the one about to start is none  *)
(* of them, whoever else still works on an earlier delivery.               *)
(***************************************************************************)
DeliveriesCounted ==
    \A c \in Consumer : \A i \in 1..Len(batch[c]) :
        batch[c][i].readCt \in 1..readCt[batch[c][i].row]

NumbersDiffer ==
    \A c, d \in Consumer :
        \A i \in 1..Len(batch[c]), k \in 1..Len(batch[d]) :
            c # d /\ batch[c][i].row = batch[d][k].row =>
                batch[c][i].readCt # batch[d][k].readCt

RunsCounted ==
    \A r \in Row : ran[r] \subseteq (1..readCt[r]) \cap (1..MaxAttempts)

PendingNotRun ==
    \A c \in Consumer : \A i \in 1..Len(batch[c]) :
        Pending(c, i) => batch[c][i].readCt \notin ran[batch[c][i].row]

RunningHasRun ==
    \A c \in Consumer :
        phase[c] = "running" => SeenReadCt(c) \in ran[InFlight(c)]

RowsCarryOneJob ==
    \A r \in Row :
        IF state[r] = "none" THEN payload[r] = {} /\ readCt[r] = 0
                             ELSE \E j \in Job : payload[r] = {j}

FenceInv ==
    /\ DeliveriesCounted
    /\ NumbersDiffer
    /\ RunsCounted
    /\ PendingNotRun
    /\ RunningHasRun
    /\ RowsCarryOneJob

(* The deliveries that consumers hold, by their place in a batch. *)
LEMMA HeldDelivery ==
    ASSUME TypeOK, NEW c \in Consumer, NEW i \in 1..Len(batch[c])
    PROVE  /\ batch[c][i] \in Delivery
           /\ batch[c][i].row \in Row
           /\ batch[c][i].readCt \in Nat
           /\ i \in Nat \ {0}
<1>1. batch[c] \in Seq(Delivery)
  BY DEF TypeOK
<1>2. Len(batch[c]) \in Nat /\ batch[c][i] \in Delivery
  BY <1>1, ElementOfSeq, LenProperties
<1>3. QED
  BY <1>2 DEF Delivery

(* A consumer at work handles the first delivery of its batch. *)
LEMMA HeadIsFirst ==
    ASSUME TypeOK, NEW c \in Consumer, phase[c] \notin {"idle", "down"}
    PROVE  /\ 1 \in 1..Len(batch[c])
           /\ InFlight(c) = batch[c][1].row
           /\ SeenReadCt(c) = batch[c][1].readCt
BY Handling DEF InFlight, SeenReadCt

(* What a row carries depends on its payload only, and is one thing.       *)
LEMMA OneKindAndShape ==
    ASSUME RowsCarryOneJob, NEW r \in Row, state[r] # "none"
    PROVE  \E k \in Kinds, s \in Shapes :
               payload[r] # {} /\ KindOf(r) = {k} /\ ShapeOf(r) = {s}
<1>1. PICK j \in Job : payload[r] = {j}
  BY DEF RowsCarryOneJob
<1>2. KindOf(r) = {Kind[j]} /\ ShapeOf(r) = {Shape[j]}
  BY <1>1 DEF KindOf, ShapeOf
<1>3. Kind[j] \in Kinds /\ Shape[j] \in Shapes
  BY ConstantAssumption DEF ConstantAssumption
<1>4. QED
  BY <1>1, <1>2, <1>3

LEMMA HeldRowIsKnown ==
    ASSUME TypeOK, DeliveriesCounted, RowsCarryOneJob, NEW c \in Consumer,
           NEW i \in 1..Len(batch[c])
    PROVE  state[batch[c][i].row] # "none"
<1>1. batch[c][i].row \in Row /\ batch[c][i].readCt \in Nat
  BY HeldDelivery
<1>2. batch[c][i].readCt \in 1..readCt[batch[c][i].row]
  BY DEF DeliveriesCounted
<1>3. readCt[batch[c][i].row] # 0
  BY <1>2
<1>4. QED
  BY <1>1, <1>3 DEF RowsCarryOneJob

(* A step that hands out nothing and starts no body keeps the numbers. *)
LEMMA NothingStarted ==
    ASSUME TypeOK, TypeOK', FenceInv, UNCHANGED <<readCt, ran>>,
           RowsCarryOneJob',
           \A d \in Consumer : \A i \in 1..Len(batch'[d]) :
               \E k \in 1..Len(batch[d]) :
                   /\ batch'[d][i] = batch[d][k]
                   /\ Pending(d, i)' => Pending(d, k),
           \A d \in Consumer : phase'[d] = "running" =>
               phase[d] = "running" /\ batch'[d] = batch[d]
    PROVE  FenceInv'
<1>1. DeliveriesCounted'
  BY DEF FenceInv, DeliveriesCounted
<1>2. NumbersDiffer'
  <2>1. ASSUME NEW a \in Consumer, NEW b \in Consumer,
               NEW i \in 1..Len(batch'[a]), NEW k \in 1..Len(batch'[b]),
               a # b, batch'[a][i].row = batch'[b][k].row
        PROVE  batch'[a][i].readCt # batch'[b][k].readCt
    <3>1. PICK m \in 1..Len(batch[a]) : batch'[a][i] = batch[a][m]
      OBVIOUS
    <3>2. PICK n \in 1..Len(batch[b]) : batch'[b][k] = batch[b][n]
      OBVIOUS
    <3>3. QED
      BY <2>1, <3>1, <3>2 DEF FenceInv, NumbersDiffer
  <2>2. QED
    BY ONLY <2>1 DEF NumbersDiffer
<1>3. RunsCounted'
  BY DEF FenceInv, RunsCounted
<1>4. PendingNotRun'
  BY DEF FenceInv, PendingNotRun
<1>5. RunningHasRun'
  BY DEF FenceInv, RunningHasRun, SeenReadCt, InFlight
<1>6. QED
  BY <1>1, <1>2, <1>3, <1>4, <1>5 DEF FenceInv

LEMMA ClaimKeepsFence ==
    ASSUME TypeOK, TypeOK', FenceInv, LeaseInv, NEW c \in Consumer,
           NEW n \in 1..ClaimSize, NEW rows \in [1..n -> Row], Claim(c, rows)
    PROVE  FenceInv'
<1> DEFINE chosen == {rows[i] : i \in DOMAIN rows}
<1>1. n \in Nat \ {0} /\ DOMAIN rows = 1..n
  BY ClaimSizeType
<1>2. /\ state' = [r \in Row |-> IF r \in chosen THEN "claimed" ELSE state[r]]
      /\ readCt' = [r \in Row |->
                      IF r \in chosen THEN readCt[r] + 1 ELSE readCt[r]]
      /\ UNCHANGED <<payload, ran>>
      /\ phase' = [phase EXCEPT ![c] = "resolve"]
  BY DEF Claim, historyVars
<1>3. batch'[c] = [i \in 1..n |-> DeliveryOf(rows[i])]
      /\ \A d \in Consumer \ {c} : batch'[d] = batch[d] /\ phase'[d] = phase[d]
  BY <1>1, <1>2 DEF Claim, TypeOK
<1>4. /\ Len(batch'[c]) = n
      /\ \A i \in 1..n : /\ batch'[c][i].row = rows[i]
                         /\ batch'[c][i].readCt = readCt[rows[i]] + 1
                         /\ rows[i] \in chosen
  BY <1>1, <1>3 DEF DeliveryOf
<1>5. \A r \in chosen : r \in Row /\ state[r] = "ready"
  BY <1>1, <1>2 DEF Claim, Dequeued
<1> HIDE DEF chosen
<1>6. /\ \A r \in Row : readCt[r] \in Nat /\ readCt'[r] \in Nat
                        /\ readCt[r] <= readCt'[r]
      /\ \A r \in chosen : readCt'[r] = readCt[r] + 1
  BY <1>2, <1>5 DEF TypeOK
<1>7. DeliveriesCounted'
  <2> SUFFICES ASSUME NEW d \in Consumer, NEW i \in 1..Len(batch'[d])
               PROVE  batch'[d][i].readCt \in 1..readCt'[batch'[d][i].row]
    BY DEF DeliveriesCounted
  <2>1. CASE d = c
    BY <1>1, <1>4, <1>5, <1>6, <2>1
  <2>2. CASE d # c
    <3>1. batch[d][i].row \in Row /\ batch[d][i].readCt \in Nat
      BY <1>3, <2>2, HeldDelivery
    <3>2. batch[d][i].readCt \in 1..readCt[batch[d][i].row]
      BY <1>3, <2>2 DEF FenceInv, DeliveriesCounted
    <3>3. QED
      BY <1>3, <1>6, <2>2, <3>1, <3>2
  <2>3. QED
    BY <2>1, <2>2
<1>8. ASSUME NEW d \in Consumer \ {c}, NEW i \in 1..Len(batch[d]),
             NEW k \in 1..n, batch[d][i].row = rows[k]
      PROVE  batch[d][i].readCt # readCt[rows[k]] + 1
  <2>1. batch[d][i].readCt \in 1..readCt[rows[k]] /\ readCt[rows[k]] \in Nat
    BY <1>8, <1>6 DEF FenceInv, DeliveriesCounted
  <2>2. QED
    BY <2>1
<1>9. NumbersDiffer'
  <2> SUFFICES ASSUME NEW d \in Consumer, NEW e \in Consumer,
                      NEW i \in 1..Len(batch'[d]), NEW k \in 1..Len(batch'[e]),
                      d # e, batch'[d][i].row = batch'[e][k].row
               PROVE  batch'[d][i].readCt # batch'[e][k].readCt
    BY DEF NumbersDiffer
  <2>1. CASE c \notin {d, e}
    BY <1>3, <2>1 DEF FenceInv, NumbersDiffer
  <2>2. CASE d = c
    BY <1>3, <1>4, <1>8, <2>2
  <2>3. CASE e = c
    BY <1>3, <1>4, <1>8, <2>3
  <2>4. QED
    BY <2>1, <2>2, <2>3
<1>10. RunsCounted'
  BY <1>2, <1>6 DEF FenceInv, RunsCounted
<1>11. PendingNotRun'
  <2> SUFFICES ASSUME NEW d \in Consumer, NEW i \in 1..Len(batch'[d]),
                      Pending(d, i)'
               PROVE  batch'[d][i].readCt \notin ran[batch'[d][i].row]
    BY <1>2 DEF PendingNotRun
  <2>1. CASE d = c
    <3>1. rows[i] \in Row /\ ran[rows[i]] \subseteq 1..readCt[rows[i]]
          /\ readCt[rows[i]] \in Nat
      BY <1>4, <1>6, <2>1 DEF FenceInv, RunsCounted
    <3>2. QED
      BY <1>4, <2>1, <3>1
  <2>2. CASE d # c
    BY <1>3, <2>2 DEF FenceInv, PendingNotRun, Pending
  <2>3. QED
    BY <2>1, <2>2
<1>12. RunningHasRun'
  <2>1. phase'[c] = "resolve"
    BY <1>2 DEF TypeOK
  <2>2. ASSUME NEW d \in Consumer, phase'[d] = "running"
        PROVE  SeenReadCt(d)' \in ran[InFlight(d)']
    <3>1. d # c
      BY <2>1, <2>2
    <3>2. phase[d] = "running" /\ batch'[d] = batch[d]
      BY <1>3, <2>2, <3>1
    <3>3. SeenReadCt(d) \in ran[InFlight(d)]
      BY <3>2 DEF FenceInv, RunningHasRun
    <3>4. QED
      BY <3>2, <3>3 DEF SeenReadCt, InFlight
  <2>3. QED
    BY <1>2, <2>2 DEF RunningHasRun
<1>13. RowsCarryOneJob'
  BY <1>2, <1>5 DEF FenceInv, RowsCarryOneJob
<1>14. QED
  BY <1>7, <1>9, <1>10, <1>11, <1>12, <1>13 DEF FenceInv

LEMMA StartTaskKeepsFence ==
    ASSUME TypeOK, TypeOK', FenceInv, LeaseInv, NEW c \in Consumer, StartTask(c)
    PROVE  FenceInv'
<1> DEFINE r == InFlight(c)
           n == SeenReadCt(c)
<1>1. /\ phase[c] = "resolve" /\ phase' = [phase EXCEPT ![c] = "running"]
      /\ ran' = [ran EXCEPT ![r] = @ \cup {n}]
      /\ "ok" \in ShapeOf(r) /\ ~IsPoison(c)
      /\ UNCHANGED <<state, payload, readCt, batch>>
  BY DEF StartTask, tableVars
<1>2. /\ 1 \in 1..Len(batch[c]) /\ r = batch[c][1].row
      /\ n = batch[c][1].readCt
  BY <1>1, HeadIsFirst
<1>3. r \in Row /\ n \in Nat /\ n \in 1..readCt[r]
  BY <1>2, HeldDelivery DEF FenceInv, DeliveriesCounted
<1>4. n \in 1..MaxAttempts
  <2>1. state[r] # "none"
    BY <1>2, HeldRowIsKnown DEF FenceInv
  <2>2. ShapeOf(r) = {"ok"}
    BY <1>1, <1>3, <2>1, OneKindAndShape DEF FenceInv
  <2>3. n <= MaxAttempts
    BY <1>1, <1>3, <2>2, ConstantAssumption DEF IsPoison, ConstantAssumption
  <2>4. QED
    BY <1>3, <2>3, ConstantAssumption DEF ConstantAssumption
<1>5. /\ ran'[r] = ran[r] \cup {n}
      /\ \A q \in Row : q # r => ran'[q] = ran[q]
      /\ \A d \in Consumer \ {c} : phase'[d] = phase[d]
      /\ phase'[c] = "running"
  BY <1>1, <1>3 DEF TypeOK
<1> HIDE DEF r, n
<1>6. DeliveriesCounted' /\ NumbersDiffer' /\ RowsCarryOneJob'
  BY <1>1 DEF FenceInv, DeliveriesCounted, NumbersDiffer, RowsCarryOneJob
<1>7. RunsCounted'
  BY <1>1, <1>3, <1>4, <1>5 DEF FenceInv, RunsCounted
<1>8. PendingNotRun'
  <2>1. ASSUME NEW d \in Consumer, NEW i \in 1..Len(batch[d]), Pending(d, i)'
        PROVE  batch[d][i].readCt \notin ran'[batch[d][i].row]
    <3>1. Pending(d, i) /\ (d = c => i # 1)
      BY <1>5, <2>1, HeldDelivery DEF Pending
    <3>2. batch[d][i].readCt \notin ran[batch[d][i].row]
      BY <3>1 DEF FenceInv, PendingNotRun
    <3>3. batch[d][i].row \in Row
      BY HeldDelivery
    <3>4. CASE d = c
      <4>1. batch[d][i].row # r
        BY <1>2, <3>1, <3>4 DEF LeaseInv, BatchRowsDiffer
      <4>2. QED
        BY <1>5, <3>2, <3>3, <4>1
    <3>5. CASE d # c
      <4>1. batch[d][i].row = r => batch[d][i].readCt # n
        BY <1>2, <3>5 DEF FenceInv, NumbersDiffer
      <4>2. QED
        BY <1>5, <3>2, <3>3, <4>1
    <3>6. QED
      BY <3>4, <3>5
  <2>2. QED
    BY <1>1, <2>1 DEF PendingNotRun
<1>9. RunningHasRun'
  <2>1. InFlight(c) = r /\ SeenReadCt(c) = n
    BY DEF r, n
  <2>2. ASSUME NEW d \in Consumer, phase'[d] = "running"
        PROVE  SeenReadCt(d) \in ran'[InFlight(d)]
    <3>1. CASE d = c
      BY <1>5, <2>1, <3>1
    <3>2. CASE d # c
      <4>1. phase[d] = "running" /\ SeenReadCt(d) \in ran[InFlight(d)]
        BY <1>5, <2>2, <3>2 DEF FenceInv, RunningHasRun
      <4>2. InFlight(d) \in Row
        BY <4>1, Handling
      <4>3. QED
        BY <1>5, <4>1, <4>2
    <3>3. QED
      BY <3>1, <3>2
  <2>3. QED
    BY <1>1, <2>2 DEF RunningHasRun, SeenReadCt, InFlight
<1>10. QED
  BY <1>6, <1>7, <1>8, <1>9 DEF FenceInv

(* A step that only moves consumers on, to other phases of the message.    *)
LEMMA MovedOn ==
    ASSUME TypeOK, TypeOK', FenceInv, UNCHANGED <<readCt, ran, batch>>,
           RowsCarryOneJob',
           \A d \in Consumer : phase'[d] \in {"resolve", "running"} =>
               phase'[d] = phase[d]
    PROVE  FenceInv'
<1>1. ASSUME NEW d \in Consumer, NEW i \in 1..Len(batch'[d])
      PROVE  /\ i \in 1..Len(batch[d]) /\ batch'[d][i] = batch[d][i]
             /\ Pending(d, i)' => Pending(d, i)
  BY DEF Pending
<1>2. QED
  BY <1>1, NothingStarted

LEMMA AdvanceKeepsFence ==
    ASSUME TypeOK, TypeOK', FenceInv, NEW c \in Consumer,
           phase[c] \notin {"idle", "down"}, Advance(c),
           UNCHANGED <<readCt, ran>>, RowsCarryOneJob'
    PROVE  FenceInv'
<1>1. batch'[c] = Tail(batch[c]) /\ phase'[c] \in {"resolve", "idle"}
      /\ \A d \in Consumer \ {c} :
             batch'[d] = batch[d] /\ phase'[d] = phase[d]
  BY DEF Advance, TypeOK
<1>2. \A i \in 1..Len(batch'[c]) :
          i + 1 \in 1..Len(batch[c]) /\ batch'[c][i] = batch[c][i + 1]
  BY <1>1, Handling
<1>3. Len(batch'[c]) \in Nat
  BY <1>1, Handling
<1>4. ASSUME NEW d \in Consumer, NEW i \in 1..Len(batch'[d])
      PROVE  \E k \in 1..Len(batch[d]) :
                 /\ batch'[d][i] = batch[d][k]
                 /\ Pending(d, i)' => Pending(d, k)
  <2>1. CASE d = c
    <3>1. i + 1 > 1
      BY <1>3, <2>1
    <3>2. QED
      BY <1>2, <2>1, <3>1 DEF Pending
  <2>2. CASE d # c
    BY <1>1, <2>2 DEF Pending
  <2>3. QED
    BY <2>1, <2>2
<1>5. \A d \in Consumer : phase'[d] = "running" =>
          phase[d] = "running" /\ batch'[d] = batch[d]
  BY <1>1
<1>6. QED
  BY <1>4, <1>5, NothingStarted

LEMMA AbandonKeepsFence ==
    ASSUME TypeOK, TypeOK', FenceInv, NEW c \in Consumer,
           NEW p \in {"idle", "down"}, AbandonBatch(c, p),
           UNCHANGED <<readCt, ran>>, RowsCarryOneJob'
    PROVE  FenceInv'
<1>1. batch'[c] = <<>> /\ phase'[c] = p
      /\ \A d \in Consumer \ {c} :
             batch'[d] = batch[d] /\ phase'[d] = phase[d]
  BY DEF AbandonBatch, TypeOK
<1>2. ASSUME NEW d \in Consumer, NEW i \in 1..Len(batch'[d])
      PROVE  \E k \in 1..Len(batch[d]) :
                 /\ batch'[d][i] = batch[d][k]
                 /\ Pending(d, i)' => Pending(d, k)
  <2>1. d # c
    BY <1>1
  <2>2. QED
    BY <1>1, <2>1 DEF Pending
<1>3. \A d \in Consumer : phase'[d] = "running" =>
          phase[d] = "running" /\ batch'[d] = batch[d]
  BY <1>1
<1>4. QED
  BY <1>2, <1>3, NothingStarted

LEMMA RowsKeepTheirJob ==
    ASSUME RowsCarryOneJob, UNCHANGED <<payload, readCt>>,
           \A r \in Row : state'[r] = "none" <=> state[r] = "none"
    PROVE  RowsCarryOneJob'
BY DEF RowsCarryOneJob

LEMMA ConsumerKeepsFence ==
    ASSUME TypeOK, TypeOK', FenceInv, LeaseInv, NEW c \in Consumer,
           ConsumerStep(c) \/ Fault(c) \/ RenewalRecovers(c) \/ Restart(c)
    PROVE  FenceInv'
<1> USE DEF tableVars, channelVars, historyVars
<1>1. CASE Poll(c)
  BY <1>1, ClaimKeepsFence DEF Poll
<1>2. CASE StartTask(c)
  BY <1>2, StartTaskKeepsFence
<1>3. ASSUME ~Poll(c) PROVE RowsCarryOneJob'
  <2>1. UNCHANGED <<payload, readCt>>
        /\ \/ UNCHANGED state
           \/ /\ phase[c] = "acking"
              /\ state' = [state EXCEPT ![InFlight(c)] = "deleted"]
    BY <1>3
    DEF ConsumerStep, Resolve, DropUnrunnable, FindPoison, StartTask, TaskEnds,
        TaskReturns, TaskRaises, Deliver, StoreOutcome, StoreFails, Chain,
        ChainFails, DropPoison, DropPoisonAnswering, DropPoisonUnmarkable,
        MarkPoisonError, DropPoisonUnconfirmed, RePark, Ack, Fault, AckFails,
        RenewalFails, Crash, RenewalRecovers, Restart
  <2>2. CASE UNCHANGED state
    BY <2>1, <2>2, RowsKeepTheirJob DEF FenceInv
  <2>3. CASE /\ phase[c] = "acking"
             /\ state' = [state EXCEPT ![InFlight(c)] = "deleted"]
    <3>1. state[InFlight(c)] # "none"
      BY <2>3, HeadIsFirst, HeldRowIsKnown DEF FenceInv
    <3>2. \A r \in Row : state'[r] = "none" <=> state[r] = "none"
      BY <2>3, <3>1 DEF TypeOK
    <3>3. QED
      BY <2>1, <3>2, RowsKeepTheirJob DEF FenceInv
  <2>4. QED
    BY <2>1, <2>2, <2>3
<1>4. CASE \/ DropUnrunnable(c) \/ FindPoison(c) \/ TaskReturns(c)
           \/ TaskRaises(c) /\ ~Advance(c)
           \/ Deliver(c)
           \/ DropPoison(c) /\ ~RePark(c)
           \/ RenewalFails(c) \/ RenewalRecovers(c) \/ Restart(c)
  <2>1. UNCHANGED <<readCt, ran, batch>>
    BY <1>4
    DEF DropUnrunnable, FindPoison, TaskReturns, TaskRaises, Deliver,
        StoreOutcome, StoreFails, Chain, ChainFails, DropPoison,
        DropPoisonAnswering, DropPoisonUnmarkable, MarkPoisonError,
        DropPoisonUnconfirmed, RenewalFails, RenewalRecovers, Restart
  <2>2. \/ UNCHANGED phase
        \/ \E p \in Phases \ {"resolve", "running"} :
               phase' = [phase EXCEPT ![c] = p]
    BY <1>4
    DEF DropUnrunnable, FindPoison, TaskReturns, TaskRaises, Deliver,
        StoreOutcome, StoreFails, Chain, ChainFails, DropPoison,
        DropPoisonAnswering, DropPoisonUnmarkable, MarkPoisonError,
        DropPoisonUnconfirmed, RenewalFails, RenewalRecovers, Restart,
        Surface, AfterStore, Phases
  <2>3. \A d \in Consumer : phase'[d] \in {"resolve", "running"} =>
            phase'[d] = phase[d]
    BY <2>2 DEF TypeOK
  <2>4. ~Poll(c)
    BY <1>4
    DEF Poll, Claim, DropUnrunnable, FindPoison, TaskReturns, TaskRaises,
        Deliver, StoreOutcome, StoreFails, Chain, ChainFails, DropPoison,
        DropPoisonAnswering, DropPoisonUnmarkable, MarkPoisonError,
        DropPoisonUnconfirmed, RenewalFails, RenewalRecovers, Restart
  <2>5. QED
    BY <1>3, <2>1, <2>3, <2>4, MovedOn
<1>5. CASE (TaskRaises(c) /\ Advance(c)) \/ RePark(c) \/ Ack(c)
  <2>1. phase[c] \in {"running", "poison", "acking"} /\ Advance(c)
        /\ UNCHANGED <<readCt, ran>>
    BY <1>5 DEF TaskRaises, RePark, Ack
  <2>2. ~Poll(c)
    BY <2>1 DEF Poll, Claim
  <2>3. QED
    BY <1>3, <2>1, <2>2, AdvanceKeepsFence
<1>6. CASE AckFails(c) \/ Crash(c)
  <2>1. PICK p \in {"idle", "down"} : AbandonBatch(c, p)
    BY <1>6 DEF AckFails, Crash
  <2>2. UNCHANGED <<readCt, ran>> /\ RowsCarryOneJob'
    <3>1. UNCHANGED <<state, payload, readCt, ran>>
      BY <1>6 DEF AckFails, Crash
    <3>2. QED
      BY <3>1, RowsKeepTheirJob DEF FenceInv
  <2>3. QED
    BY <2>1, <2>2, AbandonKeepsFence
<1>7. QED
  BY <1>1, <1>2, <1>4, <1>5, <1>6
  DEF ConsumerStep, Resolve, TaskEnds, DropPoison, Fault

LEMMA EnvironmentKeepsFence ==
    ASSUME TypeOK, TypeOK', FenceInv,
           \/ Produce
           \/ \E r \in Row : TimePasses(r)
           \/ RearmExpiredClaims
           \/ PromoteDueScheduled
           \/ UNCHANGED vars
    PROVE  FenceInv'
<1> USE DEF tableVars, channelVars, historyVars, workerVars
<1>1. UNCHANGED <<readCt, ran, batch, phase>>
  BY DEF Produce, Send, SendDelayed, SendRetriedAfterCommit, Insert,
         TimePasses, RearmExpiredClaims, PromoteDueScheduled, vars
<1>2. RowsCarryOneJob'
  <2>1. CASE Produce
    <3>1. PICK r \in Row, j \in Job :
            /\ state[r] = "none"
            /\ \E t \in {"ready", "scheduled"} :
                   state' = [state EXCEPT ![r] = t]
            /\ payload' = [payload EXCEPT ![r] = {j}]
      BY <2>1
      DEF Produce, Send, SendDelayed, SendRetriedAfterCommit, Insert
    <3>2. QED
      BY <1>1, <3>1 DEF FenceInv, RowsCarryOneJob, TypeOK
  <2>2. CASE \/ \E r \in Row : TimePasses(r)
             \/ RearmExpiredClaims
             \/ PromoteDueScheduled
             \/ UNCHANGED vars
    <3>1. UNCHANGED payload
          /\ \A r \in Row : state'[r] = "none" <=> state[r] = "none"
      BY <2>2 DEF TimePasses, RearmExpiredClaims, PromoteDueScheduled, Expired,
                  Promotable, vars
    <3>2. QED
      BY <1>1, <3>1, RowsKeepTheirJob DEF FenceInv
  <2>3. QED
    BY <2>1, <2>2
<1>3. QED
  BY <1>1, <1>2, MovedOn

LEMMA FenceAlways == Spec => []FenceInv
<1>1. Init => FenceInv
  <2> SUFFICES ASSUME Init
               PROVE  FenceInv
    OBVIOUS
  <2>1. \A c \in Consumer : 1..Len(batch[c]) = {} /\ phase[c] = "idle"
    BY DEF Init
  <2>2. QED
    BY <2>1
    DEF Init, FenceInv, DeliveriesCounted, NumbersDiffer, RunsCounted,
        PendingNotRun, RunningHasRun, RowsCarryOneJob
<1>2. TypeOK /\ TypeOK' /\ LeaseInv /\ FenceInv /\ [Next]_vars => FenceInv'
  BY ConsumerKeepsFence, EnvironmentKeepsFence DEF Next
<1>3. QED
  BY <1>1, <1>2, TypeCorrect, LeasesAlways, PTL DEF Spec

(* At most MaxAttempts bodies start for a row, and a delivery that has not *)
(* been resolved has not run, for any batch size, consumers and faults.    *)
THEOREM RunsAreBounded == Spec => []BoundedRuns
<1>1. TypeOK /\ FenceInv => BoundedRuns
  <2> SUFFICES ASSUME TypeOK, FenceInv
               PROVE  BoundedRuns
    OBVIOUS
  <2>1. ASSUME NEW r \in Row
        PROVE  Cardinality(ran[r]) <= MaxAttempts
    <3>1. MaxAttempts \in Nat
      BY ConstantAssumption DEF ConstantAssumption
    <3>2. ran[r] \subseteq 1..MaxAttempts
      BY DEF FenceInv, RunsCounted
    <3>3. IsFiniteSet(1..MaxAttempts)
          /\ Cardinality(1..MaxAttempts) = MaxAttempts
      BY <3>1, FS_Interval
    <3>4. QED
      BY <3>2, <3>3, FS_Subset, Zenon
  <2>2. QED
    BY <2>1 DEF BoundedRuns, FenceInv, PendingNotRun
<1>2. QED
  BY <1>1, TypeCorrect, FenceAlways, PTL

(* A batch is no longer than a claim. *)
BatchesFit == \A c \in Consumer : Len(batch[c]) <= ClaimSize

LEMMA ConsumerKeepsFit ==
    ASSUME TypeOK, BatchesFit, NEW c \in Consumer,
           ConsumerStep(c) \/ Fault(c) \/ RenewalRecovers(c) \/ Restart(c)
    PROVE  BatchesFit'
<1> USE DEF tableVars, channelVars, historyVars
<1>1. CASE Poll(c)
  <2>1. PICK n \in 1..ClaimSize : \E rows \in [1..n -> Row] : Claim(c, rows)
    BY <1>1 DEF Poll
  <2>2. PICK rows \in [1..n -> Row] : Claim(c, rows)
    BY <2>1
  <2>3. n \in Nat /\ n <= ClaimSize
    BY ClaimSizeType
  <2>4. batch' = [batch EXCEPT ![c] = [i \in 1..n |-> DeliveryOf(rows[i])]]
    BY <2>2 DEF Claim
  <2>5. Len([i \in 1..n |-> DeliveryOf(rows[i])]) = n
    BY <2>3
  <2>6. QED
    BY <2>3, <2>4, <2>5 DEF BatchesFit, TypeOK
<1>2. CASE ~Poll(c)
  <2>1. \/ UNCHANGED batch
        \/ phase[c] \in {"running", "poison", "acking"} /\ Advance(c)
        \/ \E p \in {"idle", "down"} : AbandonBatch(c, p)
    BY <1>2
    DEF ConsumerStep, Resolve, DropUnrunnable, FindPoison, StartTask, TaskEnds,
        TaskReturns, TaskRaises, Deliver, StoreOutcome, StoreFails, Chain,
        ChainFails, DropPoison, DropPoisonAnswering, DropPoisonUnmarkable,
        MarkPoisonError, DropPoisonUnconfirmed, RePark, Ack, Fault, AckFails,
        RenewalFails, Crash, RenewalRecovers, Restart
  <2>2. CASE UNCHANGED batch
    BY <2>2 DEF BatchesFit
  <2>3. CASE phase[c] \in {"running", "poison", "acking"} /\ Advance(c)
    <3>1. batch' = [batch EXCEPT ![c] = Tail(batch[c])]
          /\ Len(Tail(batch[c])) = Len(batch[c]) - 1 /\ Len(batch[c]) \in Nat
      BY <2>3, Handling DEF Advance
    <3>2. QED
      BY <3>1, ClaimSizeType DEF BatchesFit, TypeOK
  <2>4. CASE \E p \in {"idle", "down"} : AbandonBatch(c, p)
    <3>1. batch' = [batch EXCEPT ![c] = <<>>] /\ Len(<<>>) = 0
      BY <2>4 DEF AbandonBatch
    <3>2. QED
      BY <3>1, ClaimSizeType DEF BatchesFit, TypeOK
  <2>5. QED
    BY <2>1, <2>2, <2>3, <2>4
<1>3. QED
  BY <1>1, <1>2

(* With the short lease no message waits behind another one, so no lease   *)
(* in a batch tail lapses, for any batch size and number of consumers.     *)
THEOREM TailIsNotLapsed == Spec => []TailKeepsItsLease
<1>1. Init => BatchesFit
  <2> SUFFICES ASSUME Init
               PROVE  BatchesFit
    OBVIOUS
  <2>1. \A c \in Consumer : batch[c] = <<>> /\ Len(<<>>) = 0
    BY DEF Init
  <2>2. QED
    BY <2>1, ClaimSizeType DEF BatchesFit
<1>2. TypeOK /\ BatchesFit /\ [Next]_vars => BatchesFit'
  <2>1. ASSUME \/ Produce
               \/ \E r \in Row : TimePasses(r)
               \/ RearmExpiredClaims
               \/ PromoteDueScheduled
               \/ UNCHANGED vars
        PROVE  UNCHANGED batch
    BY <2>1
    DEF Produce, Send, SendDelayed, SendRetriedAfterCommit, Insert, TimePasses,
        RearmExpiredClaims, PromoteDueScheduled, vars, workerVars
  <2>2. BatchesFit /\ UNCHANGED batch => BatchesFit'
    BY DEF BatchesFit
  <2>3. QED
    BY <2>1, <2>2, ConsumerKeepsFit DEF Next
<1>3. TypeOK /\ BatchesFit => TailKeepsItsLease
  <2> SUFFICES ASSUME TypeOK, BatchesFit, ShortLease, NEW c \in Consumer,
                      NEW i \in 2..Len(batch[c])
               PROVE  FALSE
    BY DEF TailKeepsItsLease
  <2>1. ClaimSize = 1
    BY ConstantAssumption DEF ConstantAssumption, ClaimSize
  <2>2. Len(batch[c]) \in Nat /\ Len(batch[c]) <= 1
    BY <2>1, LenProperties DEF BatchesFit, TypeOK
  <2>3. QED
    BY <2>2
<1>4. QED
  BY <1>1, <1>2, <1>3, TypeCorrect, PTL DEF Spec

-----------------------------------------------------------------------------
(* What a message is acked for. *)

(***************************************************************************)
(* A row is acked at the end of a path through its consumer, and by then a *)
(* zombie may have moved it on. The reason to ack is fixed when the path   *)
(* enters "acking": it refers to what only grows (returned, marked, lost,  *)
(* answers, continuations, read_ct), so it still holds at the delete, and  *)
(* ever after. What the steps before know of the message is part of it.    *)
(***************************************************************************)
Accounted(r) ==
    Runnable(r) /\ ~Answers(r) =>
        \/ r \in returned
        \/ /\ GaveUp(r)
           /\ \/ KindOf(r) = {"leaf"}
              \/ payload[r] \subseteq marked
              \/ readCt[r] > MaxAttempts + ReparkBudget

Answered(r) ==
    r \notin lost =>
        /\ KindOf(r) = {"rpc"} => \A j \in payload[r] : result[j] # "none"
        /\ KindOf(r) = {"callback"} => chained[r] # {}

MayAck(r) == Accounted(r) /\ Answered(r)

ReasonKnown(c) ==
    /\ phase[c] = "poison" => SeenReadCt(c) > MaxAttempts
    /\ phase[c] = "storing" => Answers(InFlight(c))
    /\ phase[c] = "chaining" => KindOf(InFlight(c)) = {"callback"}
    /\ phase[c] = "acking" => MayAck(InFlight(c))

ReasonInv ==
    /\ \A r \in Acked : MayAck(r)
    /\ \A c \in Consumer : ReasonKnown(c)

\* What no step takes back.
Grows ==
    /\ \A r \in Row : state[r] # "none" =>
           state'[r] # "none" /\ payload'[r] = payload[r]
    /\ \A r \in Row : /\ readCt[r] <= readCt'[r]
                      /\ chained[r] \subseteq chained'[r]
    /\ \A j \in Job : result[j] # "none" => result'[j] # "none"
    /\ marked \subseteq marked'
    /\ returned \subseteq returned'
    /\ lost \subseteq lost'

LEMMA ConsumerGrows ==
    ASSUME TypeOK, FenceInv, NEW c \in Consumer,
           ConsumerStep(c) \/ Fault(c) \/ RenewalRecovers(c) \/ Restart(c)
    PROVE  Grows
<1> USE DEF tableVars, channelVars, historyVars
<1>1. CASE Poll(c)
  <2>1. PICK n \in 1..ClaimSize : \E rows \in [1..n -> Row] : Claim(c, rows)
    BY <1>1 DEF Poll
  <2>2. PICK rows \in [1..n -> Row] : Claim(c, rows)
    BY <2>1
  <2> DEFINE chosen == {rows[i] : i \in DOMAIN rows}
  <2>3. /\ state' = [r \in Row |->
                       IF r \in chosen THEN "claimed" ELSE state[r]]
        /\ readCt' = [r \in Row |->
                       IF r \in chosen THEN readCt[r] + 1 ELSE readCt[r]]
        /\ UNCHANGED <<payload, result, chained, marked, returned, lost>>
    BY <2>2 DEF Claim
  <2> HIDE DEF chosen
  <2>4. QED
    BY <2>3 DEF Grows, TypeOK
<1>2. CASE StoreOutcome(c)
  <2>1. /\ UNCHANGED <<state, payload, readCt, chained, marked, returned, lost>>
        /\ \A j \in Job : result'[j] = result[j]
                \/ result'[j] = FirstWriteWins(result[j], outcome[c])
    BY <1>2 DEF StoreOutcome
  <2>2. QED
    BY <2>1 DEF Grows, FirstWriteWins, TypeOK
<1>3. CASE Chain(c)
  <2>1. /\ UNCHANGED <<state, payload, readCt, result, marked, returned, lost>>
        /\ chained' = [chained EXCEPT ![InFlight(c)] = @ \cup {outcome[c]}]
    BY <1>3 DEF Chain
  <2>2. QED
    BY <2>1 DEF Grows, TypeOK
<1>4. CASE Ack(c)
  <2>1. /\ UNCHANGED <<payload, readCt, channelVars, returned, lost>>
        /\ state' = [state EXCEPT ![InFlight(c)] = "deleted"]
    BY <1>4 DEF Ack
  <2>2. QED
    BY <2>1 DEF Grows, TypeOK
<1>5. CASE \/ Resolve(c) \/ TaskEnds(c) \/ StoreFails(c) \/ ChainFails(c)
           \/ DropPoison(c)
           \/ Fault(c) \/ RenewalRecovers(c) \/ Restart(c)
  <2>1. /\ UNCHANGED <<state, payload, readCt, result, chained>>
        /\ \/ UNCHANGED marked
           \/ marked' = marked \cup payload[InFlight(c)]
        /\ returned' \in {returned, returned \cup {InFlight(c)}}
        /\ lost' \in {lost, lost \cup {InFlight(c)}}
    BY <1>5
    DEF Resolve, DropUnrunnable, FindPoison, StartTask, TaskEnds, TaskReturns,
        TaskRaises, Advance, StoreFails, ChainFails, DropPoison,
        DropPoisonAnswering, DropPoisonUnmarkable, MarkPoisonError,
        DropPoisonUnconfirmed, RePark, Fault, AckFails, RenewalFails, Crash,
        AbandonBatch, RenewalRecovers, Restart
  <2>2. QED
    BY <2>1 DEF Grows, TypeOK
<1>6. QED
  BY <1>1, <1>2, <1>3, <1>4, <1>5 DEF ConsumerStep, Deliver

LEMMA EnvironmentGrows ==
    ASSUME TypeOK, FenceInv,
           \/ Produce
           \/ \E r \in Row : TimePasses(r)
           \/ RearmExpiredClaims
           \/ PromoteDueScheduled
           \/ UNCHANGED vars
    PROVE  Grows
<1> USE DEF tableVars, channelVars, historyVars, workerVars
<1>1. UNCHANGED <<readCt, result, chained, marked, returned, lost>>
  BY DEF Produce, Send, SendDelayed, SendRetriedAfterCommit, Insert,
         TimePasses, RearmExpiredClaims, PromoteDueScheduled, vars
<1>2. \A r \in Row : state[r] # "none" =>
          state'[r] # "none" /\ payload'[r] = payload[r]
  <2>1. CASE Produce
    <3>1. PICK r \in Row, j \in Job :
            /\ state[r] = "none"
            /\ \E t \in {"ready", "scheduled"} :
                   state' = [state EXCEPT ![r] = t]
            /\ payload' = [payload EXCEPT ![r] = {j}]
      BY <2>1
      DEF Produce, Send, SendDelayed, SendRetriedAfterCommit, Insert
    <3>2. QED
      BY <3>1 DEF TypeOK
  <2>2. CASE \/ \E r \in Row : TimePasses(r)
             \/ RearmExpiredClaims
             \/ PromoteDueScheduled
             \/ UNCHANGED vars
    BY <2>2 DEF TimePasses, RearmExpiredClaims, PromoteDueScheduled, Expired,
                Promotable, vars
  <2>3. QED
    BY <2>1, <2>2
<1>3. \A r \in Row : readCt[r] <= readCt[r]
  BY DEF TypeOK
<1>4. QED
  BY <1>1, <1>2, <1>3 DEF Grows

(* A reason to ack a row is never taken back. *)
LEMMA ReasonStays ==
    ASSUME TypeOK, TypeOK', Grows, NEW r \in Row, state[r] # "none"
    PROVE  /\ KindOf(r)' = KindOf(r) /\ ShapeOf(r)' = ShapeOf(r)
           /\ Answers(r)' <=> Answers(r)
           /\ MayAck(r) => MayAck(r)'
<1>1. /\ payload'[r] = payload[r]
      /\ readCt[r] \in Nat /\ readCt'[r] \in Nat /\ readCt[r] <= readCt'[r]
      /\ chained[r] \subseteq chained'[r]
      /\ payload[r] \subseteq Job
  BY DEF Grows, TypeOK
<1>2. KindOf(r)' = KindOf(r) /\ ShapeOf(r)' = ShapeOf(r)
  BY <1>1 DEF KindOf, ShapeOf
<1>3. (Answers(r)' <=> Answers(r)) /\ (Runnable(r)' <=> Runnable(r))
  BY <1>2 DEF Answers, Runnable
<1>4. GaveUp(r) => GaveUp(r)'
  BY <1>1, ConstantAssumption DEF GaveUp, ConstantAssumption
<1>5. readCt[r] > MaxAttempts + ReparkBudget =>
          readCt'[r] > MaxAttempts + ReparkBudget
  BY <1>1, ConstantAssumption DEF ConstantAssumption
<1>6. Accounted(r) => Accounted(r)'
  BY <1>1, <1>2, <1>3, <1>4, <1>5 DEF Accounted, Grows
<1>7. Answered(r) => Answered(r)'
  BY <1>1, <1>2 DEF Answered, Grows
<1>8. QED
  BY <1>2, <1>3, <1>6, <1>7 DEF MayAck

LEMMA ReasonKept ==
    ASSUME TypeOK, TypeOK', FenceInv, Grows, NEW d \in Consumer,
           ReasonKnown(d), phase'[d] = phase[d], batch'[d] = batch[d]
    PROVE  ReasonKnown(d)'
<1>1. InFlight(d)' = InFlight(d) /\ SeenReadCt(d)' = SeenReadCt(d)
  BY DEF InFlight, SeenReadCt
<1>2. CASE phase[d] \in {"storing", "chaining", "acking"}
  <2>1. PICK r \in Row : r = InFlight(d) /\ state[r] # "none"
    BY <1>2, HeadIsFirst, HeldDelivery, HeldRowIsKnown DEF FenceInv
  <2>2. /\ KindOf(r)' = KindOf(r)
        /\ Answers(r)' <=> Answers(r)
        /\ MayAck(r) => MayAck(r)'
    BY <2>1, ReasonStays
  <2>3. InFlight(d)' = r
    BY <1>1, <2>1
  <2>4. /\ KindOf(InFlight(d))' = KindOf(r)'
        /\ Answers(InFlight(d))' <=> Answers(r)'
        /\ MayAck(InFlight(d))' <=> MayAck(r)'
    BY <2>3
  <2>5. QED
    BY <1>2, <2>1, <2>2, <2>4 DEF ReasonKnown
<1>3. CASE phase[d] \notin {"storing", "chaining", "acking"}
  BY <1>1, <1>3 DEF ReasonKnown
<1>4. QED
  BY <1>2, <1>3

(* How the message in flight stands when its consumer's path ends. *)
LEMMA InFlightIsOneKind ==
    ASSUME TypeOK, FenceInv, NEW c \in Consumer,
           phase[c] \notin {"idle", "down"}
    PROVE  /\ InFlight(c) \in Row /\ state[InFlight(c)] # "none"
           /\ SeenReadCt(c) \in Nat /\ readCt[InFlight(c)] \in Nat
           /\ SeenReadCt(c) <= readCt[InFlight(c)]
           /\ \E k \in Kinds, s \in Shapes :
                  KindOf(InFlight(c)) = {k} /\ ShapeOf(InFlight(c)) = {s}
<1>1. 1 \in 1..Len(batch[c]) /\ InFlight(c) = batch[c][1].row
      /\ SeenReadCt(c) = batch[c][1].readCt
  BY HeadIsFirst
<1>2. InFlight(c) \in Row /\ state[InFlight(c)] # "none"
  BY <1>1, HeldDelivery, HeldRowIsKnown DEF FenceInv
<1>3. SeenReadCt(c) \in 1..readCt[InFlight(c)]
  BY <1>1 DEF FenceInv, DeliveriesCounted
<1>4. readCt[InFlight(c)] \in Nat
  BY <1>2 DEF TypeOK
<1>5. QED
  BY <1>2, <1>3, <1>4, OneKindAndShape DEF FenceInv

(* A message with no return channel is acked on one of four grounds. *)
LEMMA SurfaceHasReason ==
    ASSUME TypeOK, TypeOK', FenceInv, NEW c \in Consumer,
           phase[c] \notin {"idle", "down"}, NEW o \in Outcomes, Surface(c, o),
           UNCHANGED <<payload, batch>>,
           \/ Answers(InFlight(c))
           \/ ~Runnable(InFlight(c))
           \/ InFlight(c) \in returned'
    PROVE  ReasonKnown(c)'
<1>1. PICK r \in Row : r = InFlight(c)
  BY InFlightIsOneKind
<1>2. InFlight(c)' = r
  BY <1>1 DEF InFlight
<1>3. /\ KindOf(r)' = KindOf(r) /\ ShapeOf(r)' = ShapeOf(r)
      /\ Answers(r)' <=> Answers(r)
      /\ Runnable(r)' <=> Runnable(r)
  BY DEF KindOf, ShapeOf, Answers, Runnable
<1>4. phase'[c] = IF Answers(r) THEN "storing" ELSE "acking"
  BY <1>1 DEF Surface, TypeOK
<1>5. ~Answers(r) => MayAck(r)'
  <2> SUFFICES ASSUME ~Answers(r)
               PROVE  MayAck(r)'
    OBVIOUS
  <2>1. Accounted(r)'
    BY <1>1, <1>3 DEF Accounted
  <2>2. KindOf(r) # {"rpc"} /\ KindOf(r) # {"callback"}
    BY DEF Answers, Answering
  <2>3. Answered(r)'
    BY <1>3, <2>2 DEF Answered
  <2>4. QED
    BY <2>1, <2>3 DEF MayAck
<1>6. /\ Answers(InFlight(c))' <=> Answers(r)'
      /\ MayAck(InFlight(c))' <=> MayAck(r)'
  BY <1>2
<1>7. QED
  BY <1>3, <1>4, <1>5, <1>6 DEF ReasonKnown

LEMMA DeliverHasReason ==
    ASSUME TypeOK, TypeOK', FenceInv, NEW c \in Consumer, ReasonKnown(c),
           Deliver(c)
    PROVE  ReasonKnown(c)'
<1> USE DEF tableVars, channelVars, historyVars
<1>1. phase[c] \in {"storing", "chaining"} /\ UNCHANGED <<payload, batch>>
  BY DEF Deliver, StoreOutcome, StoreFails, Chain, ChainFails
<1>2. PICK r \in Row, k \in Kinds, s \in Shapes :
        r = InFlight(c) /\ KindOf(r) = {k} /\ ShapeOf(r) = {s}
  BY <1>1, InFlightIsOneKind
<1>3. InFlight(c)' = r /\ KindOf(r)' = {k}
  BY <1>1, <1>2 DEF InFlight, KindOf
<1>4. /\ MayAck(InFlight(c))' <=> MayAck(r)'
      /\ Answers(InFlight(c))' <=> Answers(r)'
      /\ KindOf(InFlight(c))' = KindOf(r)'
  BY <1>3
<1>5. k \in Answering => Answers(r)' /\ Accounted(r)'
  BY <1>3 DEF Answers, Accounted
<1>6. phase[c] = "storing" => k \in Answering
  BY <1>2 DEF ReasonKnown, Answers
<1>7. phase[c] = "chaining" => k = "callback"
  BY <1>2 DEF ReasonKnown
<1>8. CASE StoreOutcome(c) \/ StoreFails(c)
  <2>1. phase[c] = "storing"
        /\ phase'[c] = IF k = "rpc" THEN "acking" ELSE "chaining"
    BY <1>2, <1>8 DEF StoreOutcome, StoreFails, AfterStore, TypeOK
  <2>2. k = "rpc" => Answered(r)'
    <3>1. CASE StoreOutcome(c)
      <4>1. payload[r] \subseteq Job /\ outcome[c] # "none"
        BY DEF TypeOK, Outcomes
      <4>2. \A j \in payload[r] : result'[j] # "none"
        BY <1>2, <3>1, <4>1 DEF StoreOutcome, FirstWriteWins
      <4>3. QED
        BY <1>1, <1>3, <4>2 DEF Answered
    <3>2. CASE StoreFails(c)
      BY <1>2, <3>2 DEF StoreFails, Answered
    <3>3. QED
      BY <1>8, <3>1, <3>2
  <2>3. k = "rpc" \/ k = "callback"
    BY <1>6, <2>1 DEF Answering
  <2>4. QED
    BY <1>3, <1>4, <1>5, <1>6, <2>1, <2>2, <2>3 DEF ReasonKnown, MayAck
<1>9. CASE Chain(c)
  <2>1. phase'[c] = "acking" /\ chained'[r] # {} /\ phase[c] = "chaining"
    BY <1>2, <1>9 DEF Chain, TypeOK
  <2>2. Answered(r)'
    BY <1>3, <1>7, <2>1 DEF Answered
  <2>3. QED
    BY <1>4, <1>5, <1>7, <2>1, <2>2 DEF ReasonKnown, MayAck, Answering
<1>10. CASE ChainFails(c)
  <2>1. CASE outcome[c] = "completed"
    <3>1. Surface(c, "failed") /\ phase[c] = "chaining"
      BY <1>10, <2>1 DEF ChainFails
    <3>2. Answers(InFlight(c))
      BY <1>2, <1>7, <3>1 DEF Answers, Answering
    <3>3. QED
      BY <1>1, <3>1, <3>2, SurfaceHasReason DEF Outcomes
  <2>2. CASE outcome[c] # "completed"
    <3>1. phase'[c] = "acking" /\ r \in lost' /\ phase[c] = "chaining"
      BY <1>2, <1>10, <2>2 DEF ChainFails, TypeOK
    <3>2. QED
      BY <1>4, <1>5, <1>7, <3>1 DEF ReasonKnown, MayAck, Answered, Answering
  <2>3. QED
    BY <2>1, <2>2
<1>11. QED
  BY <1>8, <1>9, <1>10 DEF Deliver

LEMMA DropHasReason ==
    ASSUME TypeOK, TypeOK', FenceInv, NEW c \in Consumer, ReasonKnown(c),
           DropPoison(c)
    PROVE  ReasonKnown(c)'
<1> USE DEF tableVars, channelVars, historyVars
<1>1. phase[c] = "poison" /\ UNCHANGED <<payload, readCt>>
  BY DEF DropPoison, DropPoisonAnswering, DropPoisonUnmarkable,
         MarkPoisonError, DropPoisonUnconfirmed, RePark
<1>2. PICK r \in Row, k \in Kinds :
        /\ r = InFlight(c) /\ KindOf(r) = {k}
        /\ SeenReadCt(c) \in Nat /\ readCt[r] \in Nat
        /\ SeenReadCt(c) <= readCt[r]
  BY <1>1, InFlightIsOneKind
<1>3. GaveUp(r)
  BY <1>1, <1>2, ConstantAssumption
  DEF ReasonKnown, GaveUp, ConstantAssumption
<1>4. CASE DropPoisonAnswering(c)
  <2>1. Surface(c, "failed") /\ Answers(InFlight(c)) /\ UNCHANGED batch
    BY <1>4 DEF DropPoisonAnswering
  <2>2. QED
    BY <1>1, <2>1, SurfaceHasReason DEF Outcomes
<1>5. CASE \/ DropPoisonUnmarkable(c) \/ MarkPoisonError(c)
           \/ DropPoisonUnconfirmed(c)
  <2>1. phase'[c] = "acking" /\ UNCHANGED batch
    BY <1>5 DEF DropPoisonUnmarkable, MarkPoisonError, DropPoisonUnconfirmed,
                TypeOK
  <2>2. InFlight(c)' = r /\ KindOf(r)' = {k} /\ GaveUp(r)'
    BY <1>1, <1>2, <1>3, <2>1 DEF InFlight, KindOf, GaveUp
  <2>3. k = "leaf" \/ k = "pipeline"
    BY <1>2, <1>5
    DEF DropPoisonUnmarkable, MarkPoisonError, DropPoisonUnconfirmed
  <2>4. \/ k = "leaf"
        \/ payload'[r] \subseteq marked'
        \/ readCt'[r] > MaxAttempts + ReparkBudget
    <3>1. CASE DropPoisonUnmarkable(c)
      BY <1>2, <3>1 DEF DropPoisonUnmarkable
    <3>2. CASE MarkPoisonError(c)
      BY <1>1, <1>2, <3>2 DEF MarkPoisonError
    <3>3. CASE DropPoisonUnconfirmed(c)
      BY <1>1, <1>2, <3>3, ConstantAssumption
      DEF DropPoisonUnconfirmed, BudgetExhausted, ConstantAssumption
    <3>4. QED
      BY <1>5, <3>1, <3>2, <3>3
  <2>5. Accounted(r)' /\ Answered(r)'
    BY <2>2, <2>3, <2>4 DEF Accounted, Answered
  <2>6. MayAck(InFlight(c))' <=> MayAck(r)'
    BY <2>2
  <2>7. QED
    BY <2>1, <2>5, <2>6 DEF ReasonKnown, MayAck
<1>6. CASE RePark(c)
  <2>1. phase'[c] \in {"resolve", "idle"}
    BY <1>6 DEF RePark, Advance, TypeOK
  <2>2. QED
    BY <2>1 DEF ReasonKnown
<1>7. QED
  BY <1>4, <1>5, <1>6 DEF DropPoison

LEMMA ConsumerHasReason ==
    ASSUME TypeOK, TypeOK', FenceInv, Grows, NEW c \in Consumer, ReasonKnown(c),
           ConsumerStep(c) \/ Fault(c) \/ RenewalRecovers(c) \/ Restart(c)
    PROVE  ReasonKnown(c)'
<1> USE DEF tableVars, channelVars, historyVars
<1>1. CASE Deliver(c) \/ DropPoison(c)
  BY <1>1, DeliverHasReason, DropHasReason
<1>2. CASE DropUnrunnable(c)
  <2>1. /\ phase[c] = "resolve" /\ Surface(c, "failed")
        /\ UNCHANGED <<payload, batch>>
        /\ \/ "malformed" \in ShapeOf(InFlight(c))
           \/ "unknown" \in ShapeOf(InFlight(c))
    BY <1>2 DEF DropUnrunnable
  <2>2. ~Runnable(InFlight(c))
    BY <2>1 DEF Runnable
  <2>3. QED
    BY <2>1, <2>2, SurfaceHasReason DEF Outcomes
<1>3. CASE FindPoison(c)
  <2>1. phase'[c] = "poison" /\ SeenReadCt(c) > MaxAttempts
        /\ SeenReadCt(c)' = SeenReadCt(c)
    BY <1>3 DEF FindPoison, IsPoison, SeenReadCt, TypeOK
  <2>2. QED
    BY <2>1 DEF ReasonKnown
<1>4. CASE TaskReturns(c)
  <2>1. /\ phase[c] = "running" /\ Surface(c, "completed")
        /\ UNCHANGED <<payload, batch>> /\ InFlight(c) \in returned'
    BY <1>4 DEF TaskReturns
  <2>2. QED
    BY <2>1, SurfaceHasReason DEF Outcomes
<1>5. CASE TaskRaises(c) /\ ~Advance(c)
  <2>1. /\ phase[c] = "running" /\ Surface(c, "failed")
        /\ UNCHANGED <<payload, batch>> /\ Answers(InFlight(c))
    BY <1>5 DEF TaskRaises
  <2>2. QED
    BY <2>1, SurfaceHasReason DEF Outcomes
<1>6. CASE \/ Poll(c) \/ StartTask(c) \/ (TaskRaises(c) /\ Advance(c))
           \/ Ack(c) \/ AckFails(c) \/ Crash(c) \/ Restart(c)
  <2>1. phase'[c] \in {"resolve", "running", "idle", "down"}
    BY <1>6 DEF Poll, Claim, StartTask, Ack, AckFails, Crash, Restart, Advance,
                AbandonBatch, TypeOK
  <2>2. QED
    BY <2>1 DEF ReasonKnown
<1>7. CASE RenewalFails(c) \/ RenewalRecovers(c)
  <2>1. UNCHANGED <<phase, batch>>
    BY <1>7 DEF RenewalFails, RenewalRecovers
  <2>2. QED
    BY <2>1, ReasonKept
<1>8. QED
  BY <1>1, <1>2, <1>3, <1>4, <1>5, <1>6, <1>7
  DEF ConsumerStep, Resolve, TaskEnds, Fault

(* A step of one consumer leaves the others to their messages. *)
LEMMA OthersStay ==
    ASSUME TypeOK, NEW c \in Consumer,
           ConsumerStep(c) \/ Fault(c) \/ RenewalRecovers(c) \/ Restart(c),
           NEW d \in Consumer \ {c}
    PROVE  phase'[d] = phase[d] /\ batch'[d] = batch[d]
<1> USE DEF tableVars, channelVars, historyVars, TypeOK
<1>1. CASE Poll(c) \/ Resolve(c)
  BY <1>1 DEF Poll, Claim, Resolve, DropUnrunnable, FindPoison, StartTask,
              Surface
<1>2. CASE TaskEnds(c) \/ Ack(c)
  BY <1>2 DEF TaskEnds, TaskReturns, TaskRaises, Ack, Surface, Advance
<1>3. CASE Deliver(c)
  BY <1>3 DEF Deliver, StoreOutcome, StoreFails, AfterStore, Chain,
              ChainFails, Surface
<1>4. CASE DropPoison(c)
  BY <1>4 DEF DropPoison, DropPoisonAnswering, DropPoisonUnmarkable,
              MarkPoisonError, DropPoisonUnconfirmed, RePark, Surface, Advance
<1>5. CASE Fault(c) \/ RenewalRecovers(c) \/ Restart(c)
  BY <1>5 DEF Fault, AckFails, RenewalFails, Crash, AbandonBatch,
              RenewalRecovers, Restart
<1>6. QED
  BY <1>1, <1>2, <1>3, <1>4, <1>5 DEF ConsumerStep

LEMMA StepKeepsReasons ==
    ASSUME TypeOK, TypeOK', FenceInv, ReasonInv, [Next]_vars
    PROVE  ReasonInv'
<1> USE DEF tableVars, channelVars, historyVars, workerVars
<1>1. Grows
  BY ConsumerGrows, EnvironmentGrows DEF Next
<1>2. \A d \in Consumer : ReasonKnown(d)'
  <2>1. ASSUME NEW c \in Consumer,
               ConsumerStep(c) \/ Fault(c) \/ RenewalRecovers(c) \/ Restart(c)
        PROVE  \A d \in Consumer : ReasonKnown(d)'
    <3>1. \A d \in Consumer \ {c} : phase'[d] = phase[d] /\ batch'[d] = batch[d]
      BY <2>1, OthersStay
    <3>2. \A d \in Consumer \ {c} : ReasonKnown(d)'
      BY <1>1, <3>1, ReasonKept DEF ReasonInv
    <3>3. ReasonKnown(c)'
      BY <1>1, <2>1, ConsumerHasReason DEF ReasonInv
    <3>4. QED
      BY <3>2, <3>3
  <2>2. CASE \/ Produce
             \/ \E r \in Row : TimePasses(r)
             \/ RearmExpiredClaims
             \/ PromoteDueScheduled
             \/ UNCHANGED vars
    <3>1. UNCHANGED <<phase, batch>>
      BY <2>2
      DEF Produce, Send, SendDelayed, SendRetriedAfterCommit, Insert,
          TimePasses, RearmExpiredClaims, PromoteDueScheduled, vars
    <3>2. QED
      BY <1>1, <3>1, ReasonKept DEF ReasonInv
  <2>3. QED
    BY <2>1, <2>2 DEF Next
<1>3. ASSUME NEW r \in Row, state'[r] = "deleted"
      PROVE  MayAck(r)'
  <2>1. \/ state[r] = "deleted"
        \/ \E c \in Consumer : phase[c] = "acking" /\ r = InFlight(c)
    <3>1. CASE \E c \in Consumer : Ack(c)
      BY <1>3, <3>1 DEF Ack, TypeOK
    <3>2. CASE \E c \in Consumer : Poll(c)
      BY <1>3, <3>2 DEF Poll, Claim
    <3>3. ASSUME NEW c \in Consumer, ~Ack(c), ~Poll(c),
             ConsumerStep(c) \/ Fault(c) \/ RenewalRecovers(c) \/ Restart(c)
          PROVE  state[r] = "deleted"
      BY <1>3, <3>3
      DEF ConsumerStep, Resolve, DropUnrunnable, FindPoison, StartTask,
          TaskEnds, TaskReturns, TaskRaises, Deliver, StoreOutcome, StoreFails,
          Chain, ChainFails, DropPoison, DropPoisonAnswering,
          DropPoisonUnmarkable, MarkPoisonError, DropPoisonUnconfirmed, RePark,
          Fault, AckFails, RenewalFails, Crash, RenewalRecovers, Restart
    <3>4. ASSUME NEW q \in Row, NEW j \in Job,
                 Send(q, j) \/ SendDelayed(q, j) \/ SendRetriedAfterCommit(q, j)
          PROVE  state[r] = "deleted"
      <4>1. \E s \in {"ready", "scheduled"} : state' = [state EXCEPT ![q] = s]
        BY <3>4 DEF Send, SendDelayed, SendRetriedAfterCommit, Insert
      <4>2. QED
        BY <1>3, <4>1 DEF TypeOK
    <3>5. CASE \/ \E q \in Row : TimePasses(q)
               \/ RearmExpiredClaims
               \/ PromoteDueScheduled
               \/ UNCHANGED vars
      BY <1>3, <3>5
      DEF TimePasses, RearmExpiredClaims, PromoteDueScheduled, vars, TypeOK
    <3>6. QED
      BY <3>1, <3>2, <3>3, <3>4, <3>5 DEF Next, Produce
  <2>2. MayAck(r)
    BY <2>1 DEF ReasonInv, ReasonKnown, Acked
  <2>3. state[r] # "none"
    BY <2>1, InFlightIsOneKind
  <2>4. QED
    BY <1>1, <2>2, <2>3, ReasonStays
<1>4. QED
  <2>1. \A r \in Acked' : MayAck(r)'
    BY <1>3 DEF Acked
  <2>2. QED
    BY <1>2, <2>1 DEF ReasonInv

LEMMA ReasonsAlways == Spec => []ReasonInv
<1>1. Init => ReasonInv
  BY DEF Init, ReasonInv, ReasonKnown, Acked
<1>2. TypeOK /\ TypeOK' /\ FenceInv /\ ReasonInv /\ [Next]_vars => ReasonInv'
  BY StepKeepsReasons
<1>3. QED
  BY <1>1, <1>2, TypeCorrect, FenceAlways, PTL DEF Spec

(* No runnable message without a return channel is acked before its body   *)
(* returned or its attempts ran out, whoever else handles its row.         *)
THEOREM NothingIsLost == Spec => []NoSilentLoss
<1>1. ReasonInv => NoSilentLoss
  BY DEF ReasonInv, MayAck, Accounted, NoSilentLoss
<1>2. QED
  BY <1>1, ReasonsAlways, PTL

(* No dispatch with a return channel is acked before an answer is in it,   *)
(* unless writing that answer failed.                                      *)
THEOREM OutcomesSurface == Spec => []OutcomeSurfaced
<1>1. ReasonInv => OutcomeSurfaced
  BY DEF ReasonInv, MayAck, Answered, OutcomeSurfaced
<1>2. QED
  BY <1>1, ReasonsAlways, PTL

-----------------------------------------------------------------------------
(* The queue implements the contract of WorkQueue. *)

(* A row is open for the contract from its insert to its delete, and what  *)
(* the contract knows of it besides does not depend on who holds it.       *)
LEMMA StatusByState ==
    ASSUME TypeOK, NEW r \in Row
    PROVE  /\ state[r] = "none" => StatusOf(r) = "absent"
           /\ state[r] = "deleted" => StatusOf(r) = "settled"
           /\ state[r] \in Queued => StatusOf(r) = "open"
           /\ state[r] \in {"none", "deleted"} \cup Queued
BY DEF TypeOK, StatusOf, Queued

LEMMA SameStatus ==
    ASSUME TypeOK, TypeOK', NEW r \in Row,
           state'[r] = state[r] \/ {state[r], state'[r]} \subseteq Queued
    PROVE  StatusOf(r)' = StatusOf(r)
<1>1. CASE state'[r] = state[r]
  BY <1>1 DEF StatusOf
<1>2. CASE {state[r], state'[r]} \subseteq Queued
  <2>1. {state[r], state'[r]} \cap {"none", "deleted"} = {}
    BY <1>2 DEF Queued
  <2>2. QED
    BY <2>1 DEF StatusOf
<1>3. QED
  BY <1>1, <1>2

LEMMA SameMessages ==
    ASSUME UNCHANGED payload
    PROVE  UNCHANGED OneShot
BY DEF OneShot, Answers, Runnable, KindOf, ShapeOf

LEMMA HiddenStep ==
    ASSUME TypeOK, TypeOK', UNCHANGED <<payload, readCt, ran, returned>>,
           \A r \in Row :
               state'[r] = state[r] \/ {state[r], state'[r]} \subseteq Queued
    PROVE  UNCHANGED Contract!vars
<1>1. \A r \in Row : StatusOf(r)' = StatusOf(r)
  BY SameStatus
<1>2. UNCHANGED OneShot
  BY SameMessages
<1>3. QED
  BY <1>1, <1>2 DEF Contract!vars

LEMMA InsertSubmits ==
    ASSUME TypeOK, TypeOK', FenceInv, Produce
    PROVE  Contract!Next
<1>1. PICK r \in Row, j \in Job :
        /\ state[r] = "none"
        /\ \E t \in {"ready", "scheduled"} : state' = [state EXCEPT ![r] = t]
        /\ payload' = [payload EXCEPT ![r] = {j}]
        /\ UNCHANGED <<readCt, ran, returned>>
  BY DEF Produce, Send, SendDelayed, SendRetriedAfterCommit, Insert,
         historyVars
<1>2. \A q \in Row \ {r} : StatusOf(q)' = StatusOf(q)
  <2>1. \A q \in Row \ {r} : state'[q] = state[q]
    BY <1>1 DEF TypeOK
  <2>2. QED
    BY <2>1, SameStatus
<1>3. StatusOf(r) = "absent" /\ StatusOf(r)' = "open"
  <2>1. state'[r] \in {"ready", "scheduled"}
    BY <1>1 DEF TypeOK
  <2>2. QED
    BY <1>1, <2>1 DEF StatusOf
<1>4. OneShot' \in {OneShot, OneShot \cup {r}}
  <2>1. \A q \in Row \ {r} : q \in OneShot' <=> q \in OneShot
    <3>1. \A q \in Row \ {r} : payload'[q] = payload[q]
      BY <1>1 DEF TypeOK
    <3>2. QED
      BY <3>1 DEF OneShot, Answers, Runnable, KindOf, ShapeOf
  <2>2. r \notin OneShot
    BY <1>1 DEF FenceInv, RowsCarryOneJob, OneShot
  <2>3. OneShot \subseteq Row /\ OneShot' \subseteq Row
    BY DEF OneShot
  <2>4. QED
    BY <2>1, <2>2, <2>3
<1>5. Contract!Submit(r)
  <2>1. [q \in Row |-> StatusOf(q)]' =
          [[q \in Row |-> StatusOf(q)] EXCEPT ![r] = "open"]
    BY <1>2, <1>3
  <2>2. QED
    BY <1>1, <1>3, <1>4, <2>1 DEF Contract!Submit
<1>6. QED
  BY <1>5 DEF Contract!Next

LEMMA ClaimDelivers ==
    ASSUME TypeOK, TypeOK', NEW c \in Consumer, Poll(c)
    PROVE  Contract!Next
<1>1. PICK n \in 1..ClaimSize : \E rows \in [1..n -> Row] : Claim(c, rows)
  BY DEF Poll
<1>2. PICK rows \in [1..n -> Row] : Claim(c, rows)
  BY <1>1
<1> DEFINE chosen == {rows[i] : i \in DOMAIN rows}
<1>3. /\ state' = [r \in Row |-> IF r \in chosen THEN "claimed" ELSE state[r]]
      /\ readCt' = [r \in Row |->
                      IF r \in chosen THEN readCt[r] + 1 ELSE readCt[r]]
      /\ UNCHANGED <<payload, ran, returned>>
  BY <1>2 DEF Claim, historyVars
<1>4. chosen \subseteq Row /\ \A r \in chosen : state[r] = "ready"
  BY <1>2 DEF Claim, Dequeued
<1> HIDE DEF chosen
<1>5. \A r \in Row :
          state'[r] = state[r] \/ {state[r], state'[r]} \subseteq Queued
  BY <1>3, <1>4 DEF Queued
<1>6. \A r \in Row : StatusOf(r)' = StatusOf(r)
  BY <1>5, SameStatus
<1>7. \A r \in chosen : StatusOf(r) = "open"
  BY <1>4, StatusByState DEF Queued
<1>8. UNCHANGED OneShot
  BY <1>3, SameMessages
<1>9. Contract!Deliver(chosen)
  BY <1>3, <1>4, <1>6, <1>7, <1>8 DEF Contract!Deliver
<1>10. QED
  BY <1>4, <1>9 DEF Contract!Next

LEMMA StartRuns ==
    ASSUME TypeOK, TypeOK', FenceInv, NEW c \in Consumer, StartTask(c)
    PROVE  Contract!Next
<1>1. PICK r \in Row, n \in Nat : r = InFlight(c) /\ n = SeenReadCt(c)
  BY Handling DEF StartTask
<1>2. /\ ran' = [ran EXCEPT ![r] = @ \cup {n}] /\ phase[c] = "resolve"
      /\ "ok" \in ShapeOf(r) /\ ~IsPoison(c)
      /\ UNCHANGED <<state, payload, readCt, returned>>
  BY <1>1 DEF StartTask, tableVars
<1>3. /\ 1 \in 1..Len(batch[c]) /\ r = batch[c][1].row
      /\ n = batch[c][1].readCt
  BY <1>1, <1>2, HeadIsFirst
<1>4. n \in (1..readCt[r]) \ ran[r]
  BY <1>2, <1>3 DEF FenceInv, DeliveriesCounted, PendingNotRun, Pending
<1>5. n <= MaxAttempts
  <2>1. ShapeOf(r) = {"ok"}
    BY <1>1, <1>2, InFlightIsOneKind
  <2>2. QED
    BY <1>1, <1>2, <2>1, ConstantAssumption DEF IsPoison, ConstantAssumption
<1>6. UNCHANGED OneShot /\ \A q \in Row : StatusOf(q)' = StatusOf(q)
  BY <1>2, SameMessages, SameStatus
<1>7. Contract!Run(r, n)
  BY <1>2, <1>4, <1>5, <1>6 DEF Contract!Run
<1>8. QED
  BY <1>4, <1>7 DEF Contract!Next

LEMMA ReturnFinishes ==
    ASSUME TypeOK, TypeOK', FenceInv, NEW c \in Consumer, TaskReturns(c)
    PROVE  Contract!Next
<1>1. PICK r \in Row : r = InFlight(c)
  BY Handling DEF TaskReturns
<1>2. /\ phase[c] = "running" /\ returned' = returned \cup {r}
      /\ UNCHANGED <<state, payload, readCt, ran>>
  BY <1>1 DEF TaskReturns, tableVars
<1>3. ran[r] # {}
  BY <1>1, <1>2 DEF FenceInv, RunningHasRun
<1>4. UNCHANGED OneShot /\ \A q \in Row : StatusOf(q)' = StatusOf(q)
  BY <1>2, SameMessages, SameStatus
<1>5. Contract!Finish(r)
  BY <1>2, <1>3, <1>4 DEF Contract!Finish
<1>6. QED
  BY <1>5 DEF Contract!Next

(* A second ack of a row, by a zombie or its successor, is a stutter. *)
LEMMA AckSettles ==
    ASSUME TypeOK, TypeOK', FenceInv, ReasonInv, NEW c \in Consumer, Ack(c)
    PROVE  Contract!Next \/ UNCHANGED Contract!vars
<1>1. PICK r \in Row :
        /\ r = InFlight(c) /\ state[r] # "none"
        /\ SeenReadCt(c) \in Nat /\ readCt[r] \in Nat
        /\ SeenReadCt(c) <= readCt[r]
  BY InFlightIsOneKind DEF Ack
<1>2. /\ phase[c] = "acking" /\ state' = [state EXCEPT ![r] = "deleted"]
      /\ UNCHANGED <<payload, readCt, ran, returned>>
  BY <1>1 DEF Ack
<1>3. /\ state'[r] = "deleted"
      /\ \A q \in Row \ {r} : state'[q] = state[q]
  BY <1>2 DEF TypeOK
<1>4. CASE state[r] = "deleted"
  BY <1>2, <1>3, <1>4, HiddenStep
<1>5. CASE state[r] # "deleted"
  <2>1. state[r] \in Queued
    BY <1>1, <1>5 DEF TypeOK, Queued
  <2>2. StatusOf(r) = "open" /\ StatusOf(r)' = "settled"
        /\ \A q \in Row \ {r} : StatusOf(q)' = StatusOf(q)
    BY <1>3, <2>1, StatusByState, SameStatus DEF StatusOf
  <2>3. [q \in Row |-> StatusOf(q)]' =
          [[q \in Row |-> StatusOf(q)] EXCEPT ![r] = "settled"]
    BY <2>2
  <2>4. \/ r \in returned
        \/ readCt[r] > MaxAttempts
        \/ r \in OneShot /\ readCt[r] > 0
    <3>1. Accounted(r)
      BY <1>1, <1>2 DEF ReasonInv, ReasonKnown, MayAck
    <3>2. payload[r] # {}
      BY <1>1 DEF FenceInv, RowsCarryOneJob
    <3>3. readCt[r] > 0
      <4>1. 1 \in 1..Len(batch[c]) /\ r = batch[c][1].row
        BY <1>1, <1>2, HeadIsFirst
      <4>2. batch[c][1].readCt \in 1..readCt[r]
        BY <4>1 DEF FenceInv, DeliveriesCounted
      <4>3. QED
        BY <1>1, <4>2
    <3>4. QED
      BY <3>1, <3>2, <3>3 DEF Accounted, GaveUp, OneShot
  <2>5. UNCHANGED OneShot
    BY <1>2, SameMessages
  <2>6. Contract!Settle(r)
    BY <1>2, <2>2, <2>3, <2>4, <2>5 DEF Contract!Settle
  <2>7. QED
    BY <2>6 DEF Contract!Next
<1>6. QED
  BY <1>4, <1>5

LEMMA StepImplements ==
    ASSUME TypeOK, TypeOK', FenceInv, ReasonInv, [Next]_vars
    PROVE  [Contract!Next]_(Contract!vars)
<1> USE DEF tableVars, channelVars, historyVars, workerVars
<1>1. ASSUME NEW c \in Consumer,
             ConsumerStep(c) \/ Fault(c) \/ RenewalRecovers(c) \/ Restart(c)
      PROVE  [Contract!Next]_(Contract!vars)
  <2>1. CASE Poll(c) \/ StartTask(c) \/ TaskReturns(c) \/ Ack(c)
    BY <2>1, ClaimDelivers, StartRuns, ReturnFinishes, AckSettles
  <2>2. CASE \/ DropUnrunnable(c) \/ FindPoison(c) \/ TaskRaises(c)
             \/ Deliver(c) \/ DropPoison(c)
             \/ Fault(c) \/ RenewalRecovers(c) \/ Restart(c)
    <3>1. UNCHANGED <<state, payload, readCt, ran, returned>>
      BY <2>2
      DEF DropUnrunnable, FindPoison, TaskRaises, Deliver, StoreOutcome,
          StoreFails, Chain, ChainFails, DropPoison, DropPoisonAnswering,
          DropPoisonUnmarkable, MarkPoisonError, DropPoisonUnconfirmed, RePark,
          Fault, AckFails, RenewalFails, Crash, RenewalRecovers, Restart
    <3>2. QED
      BY <3>1, HiddenStep
  <2>3. QED
    BY <1>1, <2>1, <2>2 DEF ConsumerStep, Resolve, TaskEnds
<1>2. CASE Produce
  BY <1>2, InsertSubmits
<1>3. CASE \/ \E r \in Row : TimePasses(r)
           \/ RearmExpiredClaims
           \/ PromoteDueScheduled
           \/ UNCHANGED vars
  <2>1. /\ UNCHANGED <<payload, readCt, ran, returned>>
        /\ \A r \in Row :
              state'[r] = state[r] \/ {state[r], state'[r]} \subseteq Queued
    BY <1>3 DEF TimePasses, RearmExpiredClaims, PromoteDueScheduled, Expired,
                Promotable, Queued, vars
  <2>2. QED
    BY <2>1, HiddenStep
<1>4. QED
  BY <1>1, <1>2, <1>3 DEF Next

(* The table, its consumers and the sweeps implement the contract: their   *)
(* steps are submissions, deliveries, runs, ends and settlements of        *)
(* messages, each allowed by the contract, or invisible to it.             *)
THEOREM QueueHonoursContract == Spec => ImplementsContract
<1>1. Init => Contract!Init
  <2> SUFFICES ASSUME Init
               PROVE  Contract!Init
    OBVIOUS
  <2>1. \A r \in Row : state[r] = "none" /\ payload[r] = {}
    BY DEF Init
  <2>2. OneShot = {} /\ \A r \in Row : StatusOf(r) = "absent"
    BY <2>1 DEF OneShot, StatusOf
  <2>3. QED
    BY <2>2 DEF Init, Contract!Init
<1>2. TypeOK /\ TypeOK' /\ FenceInv /\ ReasonInv /\ [Next]_vars
        => [Contract!Next]_(Contract!vars)
  BY StepImplements
<1>3. QED
  BY <1>1, <1>2, TypeCorrect, FenceAlways, ReasonsAlways, PTL
  DEF Spec, ImplementsContract, Contract!Spec

=============================================================================
