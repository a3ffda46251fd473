----------------------- MODULE BarrierRecovery_proofs -----------------------
(***************************************************************************)
(* Proofs about the barrier and the sweeps that recover it, for every      *)
(* number of batches and workers and every bound on armings and faults.    *)
(***************************************************************************)
EXTENDS BarrierRecovery, FiniteSetTheorems, SequenceTheorems, TLAPS

USE DEF backendVars, orchVars, barrierRow, workerVars, callbackVars,
        reaperVars, Goto, Leave, Fault, BatchOf

-----------------------------------------------------------------------------
(* Type correctness. It needs that an orchestrator that still dispatches   *)
(* has armed the barrier and has a header left.                            *)

Dispatching ==
    orch = "dispatching" => arming >= 1 /\ dispatched < NumBatches

BaseInv == RecoveryTypeOK /\ Dispatching

LEMMA NoMessageType == NoMessage \in Message
BY ConstantAssumption DEF ConstantAssumption, NoMessage, Message, Batch

(* A status write through the guard keeps the type of the execution, and   *)
(* an execution that has ended stays so marked.                            *)
LEMMA StatusType ==
    ASSUME TypeOK, NEW new \in Terminal \cup {"EXECUTING"},
           SetStatus(Guard(exec, new)) \/ SetStatus(new)
    PROVE  /\ exec' \in Terminal \cup {"EXECUTING"}
           /\ ended' \in BOOLEAN
           /\ exec' \in Terminal => ended'
           /\ ended => ended'
           /\ new \in Terminal => ended'
BY DEF TypeOK, SetStatus, Guard, Terminal

LEMMA DecrementedType ==
    ASSUME TypeOK, NEW w \in Worker, Decremented(w)
    PROVE  /\ armed' \in BOOLEAN /\ stale' \in BOOLEAN /\ remaining' \in Int
           /\ results' \in Seq(Batch)
<1>1. msg[w].batch \in Batch
  BY DEF TypeOK, Message
<1>2. results' \in Seq(Batch)
  BY <1>1, AppendProperties DEF TypeOK, Decremented
<1>3. armed' \in BOOLEAN /\ stale' \in BOOLEAN
  BY Zenon DEF TypeOK, Decremented
<1>4. QED
  BY <1>2, <1>3 DEF TypeOK, Decremented

LEMMA OrchestratorType ==
    ASSUME BaseInv, UNCHANGED reaperVars,
           \/ Orchestrate
           \/ SetupFails \/ ArmFails \/ DispatchFails
           \/ RecordFailureLost \/ OrchestratorCrashes
    PROVE  BaseInv'
<1> USE DEF BaseInv, RecoveryTypeOK, Dispatching, TypeOK, OrchStates, RowStates
<1>1. CASE BeginOrchestration
  BY <1>1 DEF BeginOrchestration, SkipOrchestration
<1>2. CASE Arm
  <2>1. SetStatus(Guard(exec, "EXECUTING"))
    BY <1>2 DEF Arm
  <2>2. /\ exec' \in Terminal \cup {"EXECUTING"}
        /\ ended' \in BOOLEAN
        /\ exec' \in Terminal => ended'
    BY <2>1, StatusType
  <2>3. results' \in Seq(Batch) /\ arming' \in 0..MaxArmings
    BY <1>2, EmptySeq, ConstantAssumption DEF ConstantAssumption, Arm
  <2>4. armed' \in BOOLEAN /\ stale' \in BOOLEAN /\ stripped' \in BOOLEAN
    BY <1>2, Zenon DEF Arm
  <2>5. QED
    BY <1>2, <2>2, <2>3, <2>4, ConstantAssumption DEF ConstantAssumption, Arm
<1>3. CASE DispatchHeader
  BY <1>3, ConstantAssumption
  DEF ConstantAssumption, DispatchHeader, Enqueue, Message, Batch
<1>4. CASE AckOrchestration
  BY <1>4 DEF AckOrchestration
<1>5. CASE RecordFailure
  <2>1. SetStatus(Guard(exec, "ERROR")) /\ "ERROR" \in Terminal
    BY <1>5 DEF RecordFailure, Terminal
  <2>2. QED
    BY <1>5, <2>1, StatusType DEF RecordFailure
<1>6. CASE SetupFails
  <2>1. PICK new \in {exec, Guard(exec, "ERROR")} : SetStatus(new)
    BY <1>6 DEF SetupFails
  <2>2. new \in Terminal \cup {"EXECUTING"}
    BY DEF Guard, Terminal
  <2>3. /\ exec' \in Terminal \cup {"EXECUTING"}
        /\ ended' \in BOOLEAN
        /\ exec' \in Terminal => ended'
    BY <2>1, <2>2, StatusType
  <2>4. /\ faults' \in Nat /\ claim' \in {"none", "fresh", "old"}
        /\ orch' = "queued" /\ UNCHANGED stripped
    BY <1>6 DEF SetupFails, Fault
  <2>5. QED
    BY <1>6, <2>3, <2>4 DEF SetupFails
<1>7. CASE ArmFails
  BY <1>7 DEF ArmFails
<1>8. CASE DispatchFails
  <2>1. armed' \in BOOLEAN /\ stripped' \in BOOLEAN
    BY <1>8, Zenon DEF DispatchFails
  <2>2. faults' \in Nat /\ markers' \in SUBSET Batch /\ orch' = "failing"
    BY <1>8 DEF DispatchFails
  <2>3. dispatched' \in 0..NumBatches /\ inbox' \in [Message -> RowStates]
    <3>1. CASE UNCHANGED <<dispatched, inbox>>
      BY <3>1
    <3>2. CASE Enqueue(dispatched + 1)
      BY <1>8, <3>2, ConstantAssumption
      DEF ConstantAssumption, DispatchFails, Enqueue, Message, Batch
    <3>3. QED
      BY <1>8, <3>1, <3>2 DEF DispatchFails
  <2>4. QED
    BY <1>8, <2>1, <2>2, <2>3 DEF DispatchFails
<1>9. CASE RecordFailureLost
  BY <1>9 DEF RecordFailureLost
<1>10. CASE OrchestratorCrashes
  BY <1>10 DEF OrchestratorCrashes
<1>11. QED
  BY <1>1, <1>2, <1>3, <1>4, <1>5, <1>6, <1>7, <1>8, <1>9, <1>10
  DEF Orchestrate

LEMMA WorkerType ==
    ASSUME BaseInv, UNCHANGED reaperVars, NEW w \in Worker,
           \/ WorkerStep(w)
           \/ ClaimUnanswered(w) \/ DecrementFails(w) \/ FireFails(w)
           \/ FireTwice(w) \/ MarkErrorFails(w) \/ WorkerCrashes(w)
    PROVE  BaseInv'
<1> USE NoMessageType DEF BaseInv, RecoveryTypeOK, Dispatching, TypeOK,
        RowStates, WorkerStates, FileStates
<1>1. ASSUME NEW m \in Message, Take(w, m) PROVE BaseInv'
  BY <1>1 DEF Take
<1>2. CASE ClaimBatch(w)
  BY <1>2 DEF ClaimBatch, Message
<1>3. CASE CheckExecution(w)
  BY <1>3 DEF CheckExecution
<1>4. CASE StartWork(w)
  <2>1. PICK new \in {exec, Guard(exec, "EXECUTING")} : SetStatus(new)
    BY <1>4 DEF StartWork
  <2>2. new \in Terminal \cup {"EXECUTING"}
    BY DEF Guard, Terminal
  <2>3. /\ exec' \in Terminal \cup {"EXECUTING"}
        /\ ended' \in BOOLEAN
        /\ exec' \in Terminal => ended'
    BY <2>1, <2>2, StatusType
  <2>4. QED
    BY <1>4, <2>3 DEF StartWork, Message
<1>5. CASE WorkReturns(w)
  BY <1>5 DEF WorkReturns, Message
<1>6. CASE WorkRaises(w)
  BY <1>6 DEF WorkRaises
<1>7. CASE Decrement(w)
  BY <1>7, DecrementedType DEF Decrement
<1>8. CASE Discard(w)
  <2>1. armed' \in BOOLEAN
    BY <1>8, Zenon DEF Discard
  <2>2. faults' \in Nat
    BY <1>8 DEF Discard
  <2>3. pc' \in [Worker -> WorkerStates] /\ UNCHANGED msg
    BY <1>8 DEF Discard
  <2>4. QED
    BY <1>8, <2>1, <2>2, <2>3 DEF Discard
<1>9. CASE DecrementAbandoned(w)
  BY <1>9 DEF DecrementAbandoned
<1>10. CASE Fire(w)
  <2>1. callbacks' \in Seq(Seq(Batch))
    BY <1>10, AppendProperties DEF Fire
  <2>2. QED
    BY <1>10, <2>1 DEF Fire
<1>11. CASE DeleteBarrier(w)
  <2>1. armed' \in BOOLEAN
    BY <1>11, Zenon DEF DeleteBarrier
  <2>2. faults' \in Nat
    BY <1>11 DEF DeleteBarrier
  <2>3. QED
    BY <1>11, <2>1, <2>2 DEF DeleteBarrier
<1>12. CASE ClearMarkers(w)
  BY <1>12 DEF ClearMarkers
<1>13. CASE MarkError(w)
  <2>1. SetStatus(Guard(exec, "ERROR")) /\ "ERROR" \in Terminal
    BY <1>13 DEF MarkError, Terminal
  <2>2. files' \in [Batch -> FileStates]
    BY <1>13 DEF MarkError, Cascade
  <2>3. QED
    BY <1>13, <2>1, <2>2, StatusType DEF MarkError
<1>14. CASE Abort(w)
  <2>1. armed' \in BOOLEAN
    BY <1>14, Zenon DEF Abort
  <2>2. faults' \in Nat
    BY <1>14 DEF Abort
  <2>3. QED
    BY <1>14, <2>1, <2>2 DEF Abort
<1>15. CASE Ack(w)
  BY <1>15 DEF Ack
<1>16. CASE ClaimUnanswered(w)
  BY <1>16 DEF ClaimUnanswered, Message
<1>17. CASE DecrementFails(w)
  <2>1. /\ armed' \in BOOLEAN /\ stale' \in BOOLEAN /\ remaining' \in Int
        /\ results' \in Seq(Batch)
    BY <1>17, DecrementedType DEF DecrementFails
  <2>2. QED
    BY <1>17, <2>1 DEF DecrementFails
<1>18. CASE FireFails(w)
  <2>1. Append(callbacks, results) \in Seq(Seq(Batch))
    BY AppendProperties
  <2>2. callbacks' \in Seq(Seq(Batch))
    BY <1>18, <2>1, Zenon DEF FireFails
  <2>3. QED
    BY <1>18, <2>2 DEF FireFails
<1>19. CASE FireTwice(w)
  <2>1. <<results, results>> \in Seq(Seq(Batch))
    OBVIOUS
  <2>2. callbacks' \in Seq(Seq(Batch))
    BY <1>19, <2>1, ConcatProperties DEF FireTwice
  <2>3. QED
    BY <1>19, <2>2 DEF FireTwice
<1>20. CASE MarkErrorFails(w)
  BY <1>20 DEF MarkErrorFails
<1>21. CASE WorkerCrashes(w)
  BY <1>21 DEF WorkerCrashes
<1>22. CASE DecrementRejected(w)
  <2>1. armed' \in BOOLEAN
    BY <1>22, Zenon DEF DecrementRejected
  <2>2. QED
    BY <1>22, <2>1 DEF DecrementRejected
<1>23. QED
  BY <1>1, <1>2, <1>3, <1>4, <1>5, <1>6, <1>7, <1>8, <1>9, <1>10, <1>11,
     <1>12, <1>13, <1>14, <1>15, <1>16, <1>17, <1>18, <1>19, <1>20, <1>21,
     <1>22
  DEF WorkerStep

LEMMA RestType ==
    ASSUME BaseInv, UNCHANGED reaperVars,
           \/ \E m \in Message : Redeliver(m) \/ RedeliverEarly(m)
           \/ HandleCallback \/ CallbackUnacked
    PROVE  BaseInv'
<1> USE DEF BaseInv, RecoveryTypeOK, Dispatching, TypeOK, RowStates
<1>1. ASSUME NEW m \in Message, Redeliver(m) \/ RedeliverEarly(m)
      PROVE  BaseInv'
  <2>1. CASE Redeliver(m)
    BY <2>1 DEF Redeliver
  <2>2. CASE RedeliverEarly(m)
    BY <2>2 DEF RedeliverEarly
  <2>3. QED
    BY <1>1, <2>1, <2>2
<1>2. ASSUME HandleCallback \/ CallbackUnacked PROVE BaseInv'
  <2>1. PICK final \in Terminal : SetStatus(Guard(exec, final))
    BY <1>2 DEF HandleCallback, CallbackUnacked
  <2>2. finished' \in Nat /\ faults' \in Nat
    BY <1>2 DEF HandleCallback, CallbackUnacked
  <2>3. QED
    BY <1>2, <2>1, <2>2, StatusType DEF HandleCallback, CallbackUnacked
<1>3. QED
  BY <1>1, <1>2

LEMMA SweepType ==
    ASSUME BaseInv, Sweep \/ SweepFails \/ FinalizeStuck \/ TimePasses
    PROVE  BaseInv'
<1> USE DEF BaseInv, RecoveryTypeOK, Dispatching, TypeOK, vars, Sweeps, Steps,
        NextStep, EndSweep
<1>1. ASSUME NEW s \in {"barrier", "claim"}, Scan(s) PROVE BaseInv'
  BY <1>1 DEF Scan
<1>2. CASE ReadStatus
  BY <1>2 DEF ReadStatus
<1>3. CASE Recheck
  BY <1>3 DEF Recheck
<1>4. CASE MarkStranded
  <2>1. SetStatus(Guard(exec, "ERROR")) /\ "ERROR" \in Terminal
    BY <1>4 DEF MarkStranded, Terminal
  <2>2. files' \in [Batch -> FileStates]
    BY <1>4 DEF MarkStranded, Cascade, FileStates
  <2>3. QED
    BY <1>4, <2>1, <2>2, StatusType DEF MarkStranded
<1>5. CASE DeleteRow
  <2>1. /\ armed' \in BOOLEAN
        /\ claim' \in {"none", "fresh", "old"}
        /\ markers' \in SUBSET Batch
    BY <1>5 DEF DeleteRow
  <2>2. QED
    BY <1>5, <2>1 DEF DeleteRow
<1>6. CASE SweepFails
  BY <1>6 DEF SweepFails
<1>7. CASE FinalizeStuck
  <2>1. PICK final \in Terminal : SetStatus(final)
    BY <1>7 DEF FinalizeStuck
  <2>2. QED
    BY <1>7, <2>1, StatusType DEF FinalizeStuck
<1>8. CASE BarrierGoesStale
  BY <1>8 DEF BarrierGoesStale
<1>9. CASE ClaimGrowsOld
  BY <1>9 DEF ClaimGrowsOld
<1>10. QED
  BY <1>1, <1>2, <1>3, <1>4, <1>5, <1>6, <1>7, <1>8, <1>9
  DEF Sweep, SweepStep, TimePasses

LEMMA BaseInit == RecoveryInit => BaseInv
<1> SUFFICES ASSUME RecoveryInit PROVE BaseInv
  OBVIOUS
<1>1. results \in Seq(Batch) /\ callbacks \in Seq(Seq(Batch))
  BY EmptySeq DEF RecoveryInit, Init
<1>2. /\ inbox \in [Message -> RowStates]
      /\ pc \in [Worker -> WorkerStates]
      /\ msg \in [Worker -> Message]
      /\ files \in [Batch -> FileStates]
      /\ bodies \in [Batch -> Nat]
  BY NoMessageType
  DEF RecoveryInit, Init, RowStates, WorkerStates, FileStates
<1>3. /\ ended \in BOOLEAN /\ armed \in BOOLEAN /\ stale \in BOOLEAN
      /\ stripped \in BOOLEAN
  BY Zenon DEF RecoveryInit, Init
<1>4. QED
  BY <1>1, <1>2, <1>3, ConstantAssumption
  DEF ConstantAssumption, RecoveryInit, Init, BaseInv, RecoveryTypeOK, TypeOK,
      Dispatching, OrchStates, Terminal, Sweeps, Steps

LEMMA BaseStep == BaseInv /\ [RecoveryNext]_allVars => BaseInv'
<1> SUFFICES ASSUME BaseInv, [RecoveryNext]_allVars PROVE BaseInv'
  OBVIOUS
<1>1. CASE Next /\ UNCHANGED reaperVars
  BY <1>1, OrchestratorType, WorkerType, RestType DEF Next, Faults
<1>2. CASE Sweep \/ SweepFails \/ FinalizeStuck \/ TimePasses
  BY <1>2, SweepType
<1>3. CASE UNCHANGED allVars
  BY <1>3 DEF BaseInv, RecoveryTypeOK, TypeOK, Dispatching, allVars, vars
<1>4. QED
  BY <1>1, <1>2, <1>3 DEF RecoveryNext

(***************************************************************************)
(* The row, the markers, the messages, the workers and the sweeps of the   *)
(* reaper stay within their types (PgBarrier, BarrierRecovery).            *)
(***************************************************************************)
THEOREM RecoveryTypeCorrect == RecoverySpec => []RecoveryTypeOK
<1>1. RecoverySpec => []BaseInv
  BY BaseInit, BaseStep, PTL DEF RecoverySpec
<1>2. BaseInv => RecoveryTypeOK
  BY DEF BaseInv
<1>3. QED
  BY <1>1, <1>2, PTL
-----------------------------------------------------------------------------
(* The orchestration claim. It goes only on the failure path of a guarded  *)
(* orchestrator, which has not armed yet, and after an ERROR write.        *)

\* What is deleted last follows a status that ended the execution.
EndedInv ==
    /\ \A w \in Worker : pc[w] = "abort" => ended
    /\ step = "delete" => ended

ClaimInv ==
    /\ ~ended /\ orch # "queued" => claim # "none"
    /\ ~ended /\ arming >= 1 =>
          claim # "none" /\ orch # "claimed" /\ arming = 1

LEMMA OrchestratorFrame ==
    ASSUME Orchestrate \/ SetupFails \/ ArmFails \/ DispatchFails
               \/ RecordFailureLost \/ OrchestratorCrashes
    PROVE  UNCHANGED <<pc, msg, bodies, callbacks, finished>>
BY DEF Orchestrate, BeginOrchestration, Arm, DispatchHeader, AckOrchestration,
       RecordFailure, SetupFails, ArmFails, DispatchFails, RecordFailureLost,
       OrchestratorCrashes

LEMMA WorkerFrame ==
    ASSUME NEW w \in Worker,
           \/ WorkerStep(w)
           \/ ClaimUnanswered(w) \/ DecrementFails(w) \/ FireFails(w)
           \/ FireTwice(w) \/ MarkErrorFails(w) \/ WorkerCrashes(w)
    PROVE  UNCHANGED <<claim, orch, arming, dispatched, stripped, finished>>
BY DEF WorkerStep, Take, ClaimBatch, CheckExecution, StartWork, WorkReturns,
       WorkRaises, Decrement, Discard, DecrementAbandoned, DecrementRejected,
       Fire, DeleteBarrier, ClearMarkers, MarkError, Abort, Ack,
       ClaimUnanswered, DecrementFails, FireFails, FireTwice, MarkErrorFails,
       WorkerCrashes

LEMMA RestFrame ==
    ASSUME \/ \E m \in Message : Redeliver(m) \/ RedeliverEarly(m)
           \/ HandleCallback \/ CallbackUnacked
    PROVE  UNCHANGED <<claim, orch, arming, dispatched, stripped, armed,
                       remaining, results, markers, pc, msg, bodies,
                       callbacks>>
BY DEF Redeliver, RedeliverEarly, HandleCallback, CallbackUnacked

LEMMA SweepFrame ==
    ASSUME Sweep \/ SweepFails \/ FinalizeStuck \/ TimePasses
    PROVE  UNCHANGED <<orch, arming, dispatched, stripped, remaining, results,
                       inbox, pc, msg, bodies, callbacks>>
BY DEF Sweep, SweepStep, TimePasses, Scan, ReadStatus, Recheck, MarkStranded,
       DeleteRow, SweepFails, FinalizeStuck, BarrierGoesStale, ClaimGrowsOld,
       vars

(* No step takes back that the execution was ended. *)
LEMMA EndedStays ==
    ASSUME BaseInv, RecoveryNext
    PROVE  ended => ended'
<1> SUFFICES ASSUME ended PROVE ended'
  OBVIOUS
<1>1. CASE Orchestrate \/ SetupFails \/ ArmFails \/ DispatchFails
               \/ RecordFailureLost \/ OrchestratorCrashes
  BY <1>1
  DEF Orchestrate, BeginOrchestration, Arm, DispatchHeader, AckOrchestration,
      RecordFailure, SetupFails, ArmFails, DispatchFails, RecordFailureLost,
      OrchestratorCrashes, SetStatus
<1>2. ASSUME NEW w \in Worker,
             \/ WorkerStep(w)
             \/ ClaimUnanswered(w) \/ DecrementFails(w) \/ FireFails(w)
             \/ FireTwice(w) \/ MarkErrorFails(w) \/ WorkerCrashes(w)
      PROVE  ended'
  BY <1>2
  DEF WorkerStep, Take, ClaimBatch, CheckExecution, StartWork, WorkReturns,
      WorkRaises, Decrement, Discard, DecrementAbandoned, DecrementRejected,
      Fire, DeleteBarrier, ClearMarkers, MarkError, Abort, Ack,
      ClaimUnanswered, DecrementFails, FireFails, FireTwice, MarkErrorFails,
      WorkerCrashes, SetStatus
<1>3. CASE \/ \E m \in Message : Redeliver(m) \/ RedeliverEarly(m)
           \/ HandleCallback \/ CallbackUnacked
  BY <1>3 DEF Redeliver, RedeliverEarly, HandleCallback, CallbackUnacked,
      SetStatus
<1>4. CASE Sweep \/ SweepFails \/ FinalizeStuck \/ TimePasses
  BY <1>4
  DEF Sweep, SweepStep, TimePasses, Scan, ReadStatus, Recheck, MarkStranded,
      DeleteRow, SweepFails, FinalizeStuck, BarrierGoesStale, ClaimGrowsOld,
      SetStatus, vars
<1>5. QED
  BY <1>1, <1>2, <1>3, <1>4 DEF RecoveryNext, Next, Faults

LEMMA EndedStep ==
    BaseInv /\ EndedInv /\ [RecoveryNext]_allVars => EndedInv'
<1> SUFFICES ASSUME BaseInv, EndedInv, [RecoveryNext]_allVars
             PROVE  EndedInv'
  OBVIOUS
<1>1. CASE UNCHANGED allVars
  BY <1>1 DEF EndedInv, allVars, vars
<1> SUFFICES ASSUME RecoveryNext PROVE EndedInv'
  BY <1>1
<1>2. ended => ended'
  BY EndedStays
<1>3. CASE /\ UNCHANGED reaperVars
           /\ \/ Orchestrate \/ SetupFails \/ ArmFails \/ DispatchFails
              \/ RecordFailureLost \/ OrchestratorCrashes
              \/ \E m \in Message : Redeliver(m) \/ RedeliverEarly(m)
              \/ HandleCallback \/ CallbackUnacked
  BY <1>2, <1>3, OrchestratorFrame, RestFrame DEF EndedInv
<1>4. ASSUME UNCHANGED reaperVars, NEW w \in Worker,
             \/ WorkerStep(w)
             \/ ClaimUnanswered(w) \/ DecrementFails(w) \/ FireFails(w)
             \/ FireTwice(w) \/ MarkErrorFails(w) \/ WorkerCrashes(w)
      PROVE  EndedInv'
  <2>1. CASE MarkError(w)
    <3>1. ended'
      BY <2>1, StatusType DEF MarkError, BaseInv, RecoveryTypeOK, Terminal
    <3>2. QED
      BY <1>4, <3>1 DEF EndedInv
  <2>2. CASE ~MarkError(w)
    <3>1. \A v \in Worker : pc'[v] = "abort" => pc[v] = "abort"
      BY <1>4, <2>2
      DEF WorkerStep, Take, ClaimBatch, CheckExecution, StartWork, WorkReturns,
          WorkRaises, Decrement, Discard, DecrementAbandoned,
          DecrementRejected, Fire, DeleteBarrier, ClearMarkers, Abort, Ack,
          ClaimUnanswered, DecrementFails, FireFails, FireTwice,
          MarkErrorFails, WorkerCrashes, BaseInv, RecoveryTypeOK, TypeOK
    <3>2. QED
      BY <1>2, <1>4, <3>1 DEF EndedInv
  <2>3. QED
    BY <2>1, <2>2
<1>5. CASE Sweep \/ SweepFails \/ FinalizeStuck \/ TimePasses
  <2>1. step' = "delete" => ended'
    <3>1. CASE MarkStranded
      BY <3>1, StatusType DEF MarkStranded, BaseInv, RecoveryTypeOK, Terminal
    <3>2. CASE ~MarkStranded
      BY <1>2, <1>5, <3>2
      DEF Sweep, SweepStep, TimePasses, Scan, ReadStatus, Recheck, DeleteRow,
          SweepFails, FinalizeStuck, BarrierGoesStale, ClaimGrowsOld, vars,
          NextStep, EndSweep, EndedInv, BaseInv, RecoveryTypeOK, TypeOK
    <3>3. QED
      BY <3>1, <3>2
  <2>2. QED
    BY <1>2, <1>5, <2>1, SweepFrame DEF EndedInv
<1>6. QED
  BY <1>3, <1>4, <1>5 DEF RecoveryNext, Next, Faults

LEMMA ClaimStep ==
    ASSUME Guarded, BaseInv, EndedInv, ClaimInv, [RecoveryNext]_allVars
    PROVE  ClaimInv'
<1>1. CASE UNCHANGED allVars
  BY <1>1 DEF ClaimInv, allVars, vars
<1> SUFFICES ASSUME RecoveryNext PROVE ClaimInv'
  BY <1>1
<1>2. ended => ended'
  BY EndedStays
<1> SUFFICES ASSUME ~ended' PROVE ClaimInv'
  BY DEF ClaimInv
<1> USE DEF ClaimInv, BaseInv, RecoveryTypeOK, TypeOK
<1>3. CASE BeginOrchestration
  BY <1>2, <1>3 DEF BeginOrchestration, SkipOrchestration
<1>4. CASE SetupFails
  BY <1>2, <1>4 DEF SetupFails
<1>5. CASE Arm
  BY <1>2, <1>5 DEF Arm
<1>6. CASE DispatchHeader
  BY <1>2, <1>6 DEF DispatchHeader, Enqueue, Dispatching
<1>7. CASE AckOrchestration \/ RecordFailure \/ ArmFails \/ DispatchFails
               \/ RecordFailureLost \/ OrchestratorCrashes
  BY <1>2, <1>7
  DEF AckOrchestration, RecordFailure, ArmFails, DispatchFails,
      RecordFailureLost, OrchestratorCrashes
<1>8. ASSUME NEW w \in Worker,
             \/ WorkerStep(w)
             \/ ClaimUnanswered(w) \/ DecrementFails(w) \/ FireFails(w)
             \/ FireTwice(w) \/ MarkErrorFails(w) \/ WorkerCrashes(w)
      PROVE  ClaimInv'
  BY <1>2, <1>8, WorkerFrame
<1>9. CASE \/ \E m \in Message : Redeliver(m) \/ RedeliverEarly(m)
           \/ HandleCallback \/ CallbackUnacked
  BY <1>2, <1>9, RestFrame
<1>10. CASE Sweep \/ SweepFails \/ FinalizeStuck \/ TimePasses
  <2>1. claim' = "none" => claim = "none"
    BY <1>2, <1>10
    DEF Sweep, SweepStep, TimePasses, Scan, ReadStatus, Recheck, MarkStranded,
        DeleteRow, SweepFails, FinalizeStuck, BarrierGoesStale, ClaimGrowsOld,
        vars, EndedInv
  <2>2. QED
    BY <1>2, <1>10, <2>1, SweepFrame
<1>11. QED
  BY <1>3, <1>4, <1>5, <1>6, <1>7, <1>8, <1>9, <1>10
  DEF RecoveryNext, Next, Orchestrate, Faults

LEMMA EndedInit == RecoveryInit => EndedInv /\ ClaimInv
BY DEF RecoveryInit, Init, EndedInv, ClaimInv

(***************************************************************************)
(* When the orchestrator takes the claim, a run that was acked and never   *)
(* ended keeps the claim row that leads sweep_orphan_claims to it, whatever*)
(* fails and however often its message is delivered.                       *)
(***************************************************************************)
THEOREM ClaimHolds ==
    ASSUME Guarded
    PROVE  RecoverySpec => []ClaimOutlivesRun
<1> DEFINE CInv == BaseInv /\ EndedInv /\ ClaimInv
<1>1. RecoveryInit => CInv
  BY BaseInit, EndedInit
<1>2. CInv /\ [RecoveryNext]_allVars => CInv'
  BY BaseStep, EndedStep, ClaimStep
<1>3. CInv => ClaimOutlivesRun
  BY DEF ClaimInv, ClaimOutlivesRun
<1>4. QED
  BY <1>1, <1>2, <1>3, PTL DEF RecoverySpec

(***************************************************************************)
(* The claim is what keeps a redelivered orchestration from arming a       *)
(* barrier that counts: until the execution ends it is armed at most once  *)
(* (try_claim_orchestration).                                              *)
(***************************************************************************)
THEOREM ArmedOnceUntilEnded ==
    ASSUME Guarded
    PROVE  RecoverySpec => [](~ended => arming <= 1)
<1> DEFINE CInv == BaseInv /\ EndedInv /\ ClaimInv
<1>1. RecoveryInit => CInv
  BY BaseInit, EndedInit
<1>2. CInv /\ [RecoveryNext]_allVars => CInv'
  BY BaseStep, EndedStep, ClaimStep
<1>3. CInv => (~ended => arming <= 1)
  BY DEF ClaimInv, BaseInv, RecoveryTypeOK, TypeOK
<1>4. QED
  BY <1>1, <1>2, <1>3, PTL DEF RecoverySpec

-----------------------------------------------------------------------------
(* The count. It is exact for a barrier that was armed once and that no    *)
(* failed fan-out left behind without its markers: a second arming resets  *)
(* the counter under batches that still run, and without its marker a      *)
(* batch that is delivered again is run and counted again.                 *)

Whole == arming = 1 /\ ~stripped

\* The batches that have not been counted, and all of them counted once.
Missing == {b \in Batch : \A k \in 1..Len(results) : results[k] # b}
Complete == Len(results) = NumBatches /\ Missing = {}

\* A worker between the claim of its batch and its decrement.
Claimed(w) == pc[w] \in {"check", "start", "work", "decrement"}

\* Before the first arming there is nothing to handle.
Unarmed ==
    arming = 0 =>
        /\ ~armed /\ callbacks = <<>>
        /\ \A w \in Worker : pc[w] = "idle"
        /\ \A m \in Message : inbox[m] = "unsent"
        /\ \A b \in Batch : bodies[b] = 0

\* A batch that is claimed and not counted yet has one worker.
Claims ==
    /\ \A w \in Worker : Claimed(w) => BatchOf(w) \in markers \cap Missing
    /\ \A v, w \in Worker :
          v # w /\ Claimed(v) /\ Claimed(w) => BatchOf(v) # BatchOf(w)
    /\ \A w \in Worker : pc[w] # "discard"

\* The counter is the number of batches not counted; the others are marked.
Counts ==
    /\ Len(results) + remaining = NumBatches
    /\ Cardinality(Missing) = remaining
    /\ Batch \ Missing \subseteq markers

\* Only a marked batch was started, and only once.
Runs ==
    /\ \A b \in Batch : bodies[b] <= 1 /\ (b \notin markers => bodies[b] = 0)
    /\ \A w \in Worker : pc[w] \in {"check", "start"} => bodies[BatchOf(w)] = 0

Counting == Whole /\ armed /\ callbacks = <<>>

\* One worker at most fires, after the last count and before any callback.
Firing ==
    arming = 1 =>
        /\ remaining > 0 => callbacks = <<>>
        /\ \A w \in Worker : pc[w] = "fire" =>
              /\ remaining <= 0 /\ callbacks = <<>>
              /\ \A v \in Worker \ {w} : pc[v] # "fire"
              /\ Whole => Complete
        /\ \A w \in Worker : pc[w] \in {"delete", "clear"} => callbacks # <<>>

CountInv ==
    /\ Counting => Claims /\ Counts /\ Runs
    /\ Firing
    /\ Whole => CallbackCarriesEveryBatch

LEMMA UnarmedStep == BaseInv /\ Unarmed /\ [RecoveryNext]_allVars => Unarmed'
<1> SUFFICES ASSUME BaseInv, Unarmed, [RecoveryNext]_allVars PROVE Unarmed'
  OBVIOUS
<1> USE DEF Unarmed, BaseInv, RecoveryTypeOK, TypeOK
<1>1. CASE UNCHANGED allVars
  BY <1>1 DEF allVars, vars
<1>2. CASE Arm
  BY <1>2 DEF Arm
<1>3. CASE DispatchHeader
  BY <1>3 DEF DispatchHeader, Enqueue, Dispatching
<1>4. CASE \/ BeginOrchestration \/ AckOrchestration \/ RecordFailure
           \/ SetupFails \/ ArmFails \/ RecordFailureLost
           \/ OrchestratorCrashes
  BY <1>4
  DEF BeginOrchestration, AckOrchestration, RecordFailure, SetupFails,
      ArmFails, RecordFailureLost, OrchestratorCrashes
<1>5. CASE DispatchFails
  <2>1. arming # 0 /\ UNCHANGED arming
    BY <1>5 DEF DispatchFails, Dispatching
  <2>2. QED
    BY <2>1
<1>6. ASSUME NEW w \in Worker,
             \/ WorkerStep(w)
             \/ ClaimUnanswered(w) \/ DecrementFails(w) \/ FireFails(w)
             \/ FireTwice(w) \/ MarkErrorFails(w) \/ WorkerCrashes(w)
      PROVE  Unarmed'
  <2>1. arming # 0
    BY <1>6
    DEF WorkerStep, Take, ClaimBatch, CheckExecution, StartWork, WorkReturns,
        WorkRaises, Decrement, Discard, DecrementAbandoned, DecrementRejected,
        Fire, DeleteBarrier, ClearMarkers, MarkError, Abort, Ack,
        ClaimUnanswered, DecrementFails, FireFails, FireTwice, MarkErrorFails,
        WorkerCrashes
  <2>2. QED
    BY <1>6, <2>1, WorkerFrame
<1>7. CASE \E m \in Message : Redeliver(m) \/ RedeliverEarly(m)
  BY <1>7, RestFrame DEF Redeliver, RedeliverEarly
<1>8. CASE HandleCallback \/ CallbackUnacked
  BY <1>8 DEF HandleCallback, CallbackUnacked
<1>9. CASE Sweep \/ SweepFails \/ FinalizeStuck \/ TimePasses
  <2>1. armed' => armed
    BY <1>9
    DEF Sweep, SweepStep, TimePasses, Scan, ReadStatus, Recheck, MarkStranded,
        DeleteRow, SweepFails, FinalizeStuck, BarrierGoesStale, ClaimGrowsOld,
        vars
  <2>2. QED
    BY <1>9, <2>1, SweepFrame
<1>10. QED
  BY <1>1, <1>2, <1>3, <1>4, <1>6, <1>7, <1>8, <1>9, <1>5
  DEF RecoveryNext, Next, Orchestrate, Faults

(* A step that counts nothing, fires nothing and starts nothing: a worker  *)
(* that it moves keeps its claim or gives it up.                           *)
LEMMA QuietStep ==
    ASSUME BaseInv, CountInv,
           UNCHANGED <<arming, remaining, results, bodies, callbacks>>,
           Whole' => Whole, armed' => armed,
           Counting' => markers \subseteq markers',
           \A v \in Worker :
              /\ pc'[v] \in {"start", "work", "decrement"} =>
                    Claimed(v) /\ msg'[v] = msg[v]
              /\ pc'[v] = "check" => pc[v] = "check" /\ msg'[v] = msg[v]
              /\ pc'[v] = "start" => pc[v] \in {"check", "start"}
              /\ pc'[v] = "fire" => pc[v] = "fire"
              /\ pc'[v] = "discard" => pc[v] = "discard"
              /\ pc'[v] \in {"delete", "clear"} => pc[v] \in {"delete", "clear"}
    PROVE  CountInv'
<1>1. Missing' = Missing /\ Complete' = Complete
  BY DEF Missing, Complete
<1>2. \A v \in Worker : Claimed(v)' => Claimed(v) /\ msg'[v] = msg[v]
  BY DEF Claimed
<1>3. Firing'
  BY <1>1 DEF CountInv, Firing
<1>4. Whole' => CallbackCarriesEveryBatch'
  BY DEF CountInv, CallbackCarriesEveryBatch
<1>5. ASSUME Counting' PROVE Claims' /\ Counts' /\ Runs'
  <2>1. /\ Counting /\ Claims /\ Counts /\ Runs
        /\ markers \subseteq markers'
    BY <1>5 DEF Counting, CountInv
  <2>2. Claims'
    <3>1. \A v \in Worker : Claimed(v)' =>
             BatchOf(v)' \in (markers \cap Missing)'
      BY <1>1, <1>2, <2>1 DEF Claims
    <3>2. \A v, u \in Worker :
             v # u /\ Claimed(v)' /\ Claimed(u)' => BatchOf(v)' # BatchOf(u)'
      BY <1>2, <2>1 DEF Claims
    <3>3. \A v \in Worker : pc'[v] # "discard"
      BY <2>1 DEF Claims
    <3>4. QED
      BY <3>1, <3>2, <3>3 DEF Claims
  <2>3. Counts'
    BY <1>1, <2>1 DEF Counts
  <2>4. Runs'
    BY <2>1 DEF Runs
  <2>5. QED
    BY <2>2, <2>3, <2>4
<1>6. QED
  BY <1>3, <1>4, <1>5 DEF CountInv

LEMMA ArmCounts ==
    ASSUME BaseInv, Unarmed, CountInv, Arm
    PROVE  CountInv'
<1> USE DEF BaseInv, RecoveryTypeOK, TypeOK
<1>1. arming' # 1 => CountInv'
  BY DEF CountInv, Whole, Counting, Firing
<1> SUFFICES ASSUME arming' = 1 PROVE CountInv'
  BY <1>1
<1>2. /\ arming = 0 /\ results' = <<>> /\ remaining' = NumBatches
      /\ markers' = {} /\ UNCHANGED <<pc, msg, bodies, callbacks>>
  BY DEF Arm
<1>3. /\ callbacks' = <<>>
      /\ \A w \in Worker : pc'[w] = "idle"
      /\ \A b \in Batch : bodies'[b] = 0
  BY <1>2 DEF Unarmed
<1>4. Len(results') = 0
  BY <1>2, EmptySeq
<1>5. Missing' = Batch
  BY <1>4 DEF Missing
<1>6. Cardinality(Batch) = NumBatches
  BY FS_Interval, ConstantAssumption DEF Batch, ConstantAssumption
<1>7. Counts'
  BY <1>2, <1>4, <1>5, <1>6, ConstantAssumption DEF Counts, ConstantAssumption
<1>8. Claims' /\ Runs'
  BY <1>3 DEF Claims, Runs, Claimed
<1>9. Firing' /\ CallbackCarriesEveryBatch'
  BY <1>3, EmptySeq DEF Firing, CallbackCarriesEveryBatch
<1>10. QED
  BY <1>7, <1>8, <1>9 DEF CountInv

LEMMA OrchestratorCounts ==
    ASSUME BaseInv, Unarmed, CountInv,
           \/ Orchestrate
           \/ SetupFails \/ ArmFails \/ DispatchFails
           \/ RecordFailureLost \/ OrchestratorCrashes
    PROVE  CountInv'
<1>1. CASE Arm
  BY <1>1, ArmCounts
<1>2. CASE DispatchHeader
  <2>1. Whole' => Whole
    BY <1>2 DEF DispatchHeader, Enqueue, Whole
  <2>2. QED
    BY <1>2, <2>1, QuietStep DEF DispatchHeader, Enqueue, Claimed
<1>3. CASE DispatchFails
  <2>1. Whole' => Whole
    BY <1>3 DEF DispatchFails, Whole
  <2>2. armed' => armed
    BY <1>3, Zenon DEF DispatchFails
  <2>3. UNCHANGED <<arming, remaining, results, bodies, callbacks, pc, msg>>
    BY <1>3 DEF DispatchFails
  <2>4. ASSUME Counting' PROVE markers \subseteq markers'
    <3>1. armed' /\ ~stripped'
      BY <2>4, Zenon DEF Counting, Whole
    <3>2. markers' = markers
      BY <1>3, <3>1, Zenon DEF DispatchFails
    <3>3. QED
      BY <3>2
  <2>5. QED
    BY <2>1, <2>2, <2>3, <2>4, QuietStep DEF Claimed
<1>4. CASE \/ BeginOrchestration \/ AckOrchestration \/ RecordFailure
           \/ SetupFails \/ ArmFails \/ RecordFailureLost
           \/ OrchestratorCrashes
  <2>1. UNCHANGED <<arming, stripped, armed, remaining, results, markers, pc,
                    msg, bodies, callbacks>>
    BY <1>4
    DEF BeginOrchestration, AckOrchestration, RecordFailure, SetupFails,
        ArmFails, RecordFailureLost, OrchestratorCrashes
  <2>2. Whole' => Whole
    BY <2>1 DEF Whole
  <2>3. QED
    BY <2>1, <2>2, QuietStep DEF Claimed
<1>5. QED
  BY <1>1, <1>2, <1>3, <1>4 DEF Orchestrate

LEMMA RestCounts ==
    ASSUME BaseInv, CountInv,
           \/ \E m \in Message : Redeliver(m) \/ RedeliverEarly(m)
           \/ HandleCallback \/ CallbackUnacked
    PROVE  CountInv'
<1>1. Whole' => Whole
  BY RestFrame DEF Whole
<1>2. QED
  BY <1>1, RestFrame, QuietStep DEF Claimed

LEMMA SweepCounts ==
    ASSUME BaseInv, CountInv,
           Sweep \/ SweepFails \/ FinalizeStuck \/ TimePasses
    PROVE  CountInv'
<1>1. Whole' => Whole
  BY SweepFrame DEF Whole
<1>2. (armed' => armed) /\ (armed' => markers' = markers)
  BY DEF Sweep, SweepStep, TimePasses, Scan, ReadStatus, Recheck, MarkStranded,
         DeleteRow, SweepFails, FinalizeStuck, BarrierGoesStale, ClaimGrowsOld,
         vars
<1>3. QED
  BY <1>1, <1>2, SweepFrame, QuietStep DEF Claimed, Counting

-----------------------------------------------------------------------------
(* The steps of a worker. *)

LEMMA WholeStays ==
    ASSUME NEW w \in Worker,
           \/ WorkerStep(w)
           \/ ClaimUnanswered(w) \/ DecrementFails(w) \/ FireFails(w)
           \/ FireTwice(w) \/ MarkErrorFails(w) \/ WorkerCrashes(w)
    PROVE  Whole' = Whole /\ arming' = arming
BY WorkerFrame DEF Whole

LEMMA QuietWorker ==
    ASSUME BaseInv, CountInv, NEW w \in Worker,
           \/ \E m \in Message : Take(w, m)
           \/ CheckExecution(w) \/ WorkReturns(w) \/ WorkRaises(w)
           \/ Discard(w) \/ DecrementAbandoned(w) \/ DecrementRejected(w)
           \/ DeleteBarrier(w)
           \/ ClearMarkers(w) \/ MarkError(w) \/ Abort(w) \/ Ack(w)
           \/ ClaimUnanswered(w) \/ MarkErrorFails(w) \/ WorkerCrashes(w)
    PROVE  CountInv'
<1>1. Whole' = Whole /\ arming' = arming
  BY WholeStays DEF WorkerStep
<1>2. UNCHANGED <<remaining, results, bodies, callbacks>>
  BY DEF Take, CheckExecution, WorkReturns, WorkRaises, Discard,
         DecrementAbandoned, DecrementRejected, DeleteBarrier, ClearMarkers,
         MarkError, Abort, Ack, ClaimUnanswered, MarkErrorFails, WorkerCrashes
<1>3. armed' => armed
  BY Zenon
  DEF Take, CheckExecution, WorkReturns, WorkRaises, Discard,
      DecrementAbandoned, DecrementRejected, DeleteBarrier, ClearMarkers,
      MarkError, Abort, Ack, ClaimUnanswered, MarkErrorFails, WorkerCrashes
<1>4. Counting' => markers \subseteq markers'
  <2>1. CASE ClearMarkers(w)
    BY <1>1, <1>2, <2>1
    DEF ClearMarkers, Counting, Whole, CountInv, Firing
  <2>2. CASE ~ClearMarkers(w)
    BY <2>2
    DEF Take, CheckExecution, WorkReturns, WorkRaises, Discard,
        DecrementAbandoned, DecrementRejected, DeleteBarrier, MarkError, Abort,
        Ack, ClaimUnanswered, MarkErrorFails, WorkerCrashes
  <2>3. QED
    BY <2>1, <2>2
<1>5. ASSUME NEW v \in Worker
      PROVE  /\ pc'[v] \in {"start", "work", "decrement"} =>
                   Claimed(v) /\ msg'[v] = msg[v]
             /\ pc'[v] = "check" => pc[v] = "check" /\ msg'[v] = msg[v]
             /\ pc'[v] = "start" => pc[v] \in {"check", "start"}
             /\ pc'[v] = "fire" => pc[v] = "fire"
             /\ pc'[v] = "discard" => pc[v] = "discard"
             /\ pc'[v] \in {"delete", "clear"} => pc[v] \in {"delete", "clear"}
  BY DEF Take, CheckExecution, WorkReturns, WorkRaises, Discard,
         DecrementAbandoned, DecrementRejected, DeleteBarrier, ClearMarkers,
         MarkError, Abort, Ack, ClaimUnanswered, MarkErrorFails, WorkerCrashes,
         Claimed, BaseInv, RecoveryTypeOK, TypeOK
<1>6. QED
  BY <1>1, <1>2, <1>3, <1>4, <1>5, QuietStep

LEMMA ClaimBatchCounts ==
    ASSUME BaseInv, CountInv, NEW w \in Worker, ClaimBatch(w)
    PROVE  CountInv'
<1> DEFINE b == BatchOf(w)
<1> USE DEF BaseInv, RecoveryTypeOK, TypeOK
<1>1. /\ Whole' = Whole /\ arming' = arming
      /\ UNCHANGED <<armed, remaining, results, bodies, callbacks, msg>>
      /\ markers' = markers \cup {b}
      /\ pc' = [pc EXCEPT ![w] = IF b \in markers THEN "ack" ELSE "check"]
  BY WholeStays DEF WorkerStep, ClaimBatch
<1>2. Missing' = Missing /\ Complete' = Complete
  BY <1>1 DEF Missing, Complete
<1>3. Firing'
  BY <1>1, <1>2 DEF CountInv, Firing
<1>4. Whole' => CallbackCarriesEveryBatch'
  BY <1>1 DEF CountInv, CallbackCarriesEveryBatch
<1>5. ASSUME Counting' PROVE Claims' /\ Counts' /\ Runs'
  <2>1. Claims /\ Counts /\ Runs
    BY <1>1, <1>5 DEF Counting, CountInv
  <2>2. b \in Batch /\ msg' = msg
    BY <1>1 DEF Message
  <2>3. b \notin markers => b \in Missing /\ bodies[b] = 0
    BY <2>1, <2>2 DEF Counts, Runs
  <2>4. \A v \in Worker : v # w => pc'[v] = pc[v]
    BY <1>1
  <2>5. Claimed(w)' => b \notin markers
    BY <1>1 DEF Claimed
  <2>6. Claims'
    <3>1. \A v \in Worker : Claimed(v)' =>
             BatchOf(v)' \in (markers \cap Missing)'
      BY <1>1, <1>2, <2>1, <2>2, <2>3, <2>4, <2>5 DEF Claims, Claimed
    <3>2. \A v \in Worker :
             v # w /\ Claimed(v)' /\ Claimed(w)' => BatchOf(v)' # BatchOf(w)'
      BY <2>1, <2>2, <2>4, <2>5 DEF Claims, Claimed
    <3>3. \A v, u \in Worker :
             /\ v # u /\ v # w /\ u # w /\ Claimed(v)' /\ Claimed(u)'
             => BatchOf(v)' # BatchOf(u)'
      BY <2>1, <2>2, <2>4 DEF Claims, Claimed
    <3>4. \A v \in Worker : pc'[v] # "discard"
      BY <1>1, <2>1 DEF Claims
    <3>5. QED
      BY <3>1, <3>2, <3>3, <3>4 DEF Claims
  <2>7. Counts'
    BY <1>1, <1>2, <2>1 DEF Counts
  <2>8. Runs'
    BY <1>1, <2>1, <2>2, <2>3, <2>4 DEF Runs
  <2>9. QED
    BY <2>6, <2>7, <2>8
<1>6. QED
  BY <1>3, <1>4, <1>5 DEF CountInv

LEMMA StartWorkCounts ==
    ASSUME BaseInv, CountInv, NEW w \in Worker, StartWork(w)
    PROVE  CountInv'
<1> DEFINE b == BatchOf(w)
<1> USE DEF BaseInv, RecoveryTypeOK, TypeOK
<1>1. /\ Whole' = Whole /\ arming' = arming
      /\ UNCHANGED <<armed, remaining, results, callbacks, msg, markers>>
      /\ pc[w] = "start" /\ pc' = [pc EXCEPT ![w] = "work"]
      /\ bodies' = [bodies EXCEPT ![b] = @ + 1]
  BY WholeStays DEF WorkerStep, StartWork
<1>2. Missing' = Missing /\ Complete' = Complete
  BY <1>1 DEF Missing, Complete
<1>3. Firing'
  BY <1>1, <1>2 DEF CountInv, Firing
<1>4. Whole' => CallbackCarriesEveryBatch'
  BY <1>1 DEF CountInv, CallbackCarriesEveryBatch
<1>5. ASSUME Counting' PROVE Claims' /\ Counts' /\ Runs'
  <2>1. Claims /\ Counts /\ Runs
    BY <1>1, <1>5 DEF Counting, CountInv
  <2>2. \A v \in Worker : Claimed(v)' = Claimed(v)
    BY <1>1 DEF Claimed
  <2>3. Claims'
    BY <1>1, <1>2, <2>1, <2>2 DEF Claims
  <2>4. Counts'
    BY <1>1, <1>2, <2>1 DEF Counts
  <2>5. Runs'
    <3>1. b \in Batch /\ b \in markers /\ bodies[b] = 0 /\ bodies'[b] = 1
      BY <1>1, <2>1 DEF Claims, Claimed, Runs, Message
    <3>2. \A c \in Batch : c # b => bodies'[c] = bodies[c]
      BY <1>1
    <3>3. \A v \in Worker : v # w /\ pc'[v] \in {"check", "start"} =>
             /\ pc[v] \in {"check", "start"}
             /\ BatchOf(v) \in Batch /\ BatchOf(v) # b
      BY <1>1, <2>1 DEF Claims, Claimed, Message
    <3>4. pc'[w] = "work"
      BY <1>1
    <3>5. \A c \in Batch :
             bodies'[c] <= 1 /\ (c \notin markers => bodies'[c] = 0)
      BY <2>1, <3>1, <3>2 DEF Runs
    <3>6. \A v \in Worker : pc'[v] \in {"check", "start"} =>
             bodies'[BatchOf(v)] = 0
      BY <2>1, <3>2, <3>3, <3>4 DEF Runs
    <3>7. QED
      BY <1>1, <3>5, <3>6 DEF Runs
  <2>6. QED
    BY <2>3, <2>4, <2>5
<1>6. QED
  BY <1>3, <1>4, <1>5 DEF CountInv

(* A count takes its batch out of the missing ones.                        *)
LEMMA OneCounted ==
    ASSUME BaseInv, NEW w \in Worker, Claimed(w), Claims, Counts,
           Decremented(w)
    PROVE  /\ Missing' = Missing \ {BatchOf(w)}
           /\ Len(results') + remaining' = NumBatches
           /\ Cardinality(Missing') = remaining'
           /\ Batch \ Missing' \subseteq markers
           /\ remaining' >= 0
           /\ remaining' = 0 => Complete'
<1> DEFINE b == BatchOf(w)
<1> USE DEF BaseInv, RecoveryTypeOK, TypeOK
<1>1. b \in Batch /\ b \in Missing /\ b \in markers
  BY DEF Claims, Message
<1>2. /\ Len(results') = Len(results) + 1 /\ Len(results) \in Nat
      /\ \A k \in 1..Len(results) : results'[k] = results[k]
      /\ results'[Len(results) + 1] = b
  BY <1>1, AppendProperties DEF Decremented
<1>3. Missing' = Missing \ {b}
  <2>1. \A c \in Batch :
           (\A k \in 1..Len(results') : results'[k] # c) <=>
           (\A k \in 1..Len(results) : results[k] # c) /\ c # b
    <3>1. \A k : k \in 1..Len(results') <=>
              k \in 1..Len(results) \/ k = Len(results) + 1
      BY <1>2
    <3>2. QED
      BY <1>2, <3>1
  <2>2. QED
    BY <2>1 DEF Missing
<1>4. IsFiniteSet(Missing) /\ IsFiniteSet(Missing')
  <2>1. IsFiniteSet(Batch)
    BY FS_Interval, ConstantAssumption DEF Batch, ConstantAssumption
  <2>2. Missing \subseteq Batch /\ Missing' \subseteq Batch
    BY DEF Missing
  <2>3. QED
    BY <2>1, <2>2, FS_Subset
<1>5. Cardinality(Missing') = Cardinality(Missing) - 1
  <2> HIDE DEF b
  <2>1. Cardinality(Missing \ {b}) =
           IF b \in Missing THEN Cardinality(Missing) - 1
           ELSE Cardinality(Missing)
    BY <1>4, FS_RemoveElement, Zenon
  <2>2. QED
    BY <1>1, <1>3, <2>1
<1>6. Cardinality(Missing') \in Nat
  BY <1>4, FS_CardinalityType
<1>7. remaining' = remaining - 1
  BY DEF Decremented
<1>8. /\ Cardinality(Missing') = remaining'
      /\ Len(results') + remaining' = NumBatches
  BY <1>2, <1>5, <1>7, ConstantAssumption DEF Counts, ConstantAssumption
<1>9. remaining' = 0 => Complete'
  BY <1>2, <1>4, <1>8, FS_EmptySet, ConstantAssumption
  DEF Complete, ConstantAssumption
<1>10. QED
  BY <1>1, <1>3, <1>6, <1>8, <1>9 DEF Counts

(* Both ways a worker leaves its decrement once the row was counted.       *)
LEMMA CountedStep ==
    ASSUME BaseInv, CountInv, NEW w \in Worker,
           pc[w] = "decrement", armed, Decremented(w),
           UNCHANGED <<arming, markers, msg, bodies, callbacks>>,
           Whole' = Whole,
           NEW label \in {"ack", "fire", "discard", "mark"},
           pc' = [pc EXCEPT ![w] = label],
           label = "fire" => remaining' = 0,
           label = "discard" => remaining' < 0
    PROVE  CountInv'
<1> USE DEF BaseInv, RecoveryTypeOK, TypeOK
<1>1. arming # 1 => CountInv'
  BY DEF CountInv, Whole, Counting, Firing
<1> SUFFICES ASSUME arming = 1 PROVE CountInv'
  BY <1>1
<1>2. remaining' = remaining - 1 /\ armed' = armed
  BY DEF Decremented
<1>3. Claimed(w)
  BY DEF Claimed
<1>4. Counting =>
         /\ Claims /\ Counts /\ Runs
         /\ Missing' = Missing \ {BatchOf(w)}
         /\ Counts'
         /\ remaining' >= 0
         /\ remaining' = 0 => Complete'
  BY <1>3, OneCounted DEF CountInv, Counts
<1>5. \A v \in Worker : v # w => pc'[v] = pc[v]
  OBVIOUS
<1>6. \A v \in Worker : Claimed(v)' => v # w /\ Claimed(v)
  BY DEF Claimed
<1>7. Counting' => Counting
  BY <1>2 DEF Counting
<1>8. ASSUME Counting PROVE Claims' /\ Runs'
  <2>1. Claims /\ Runs /\ Missing' = Missing \ {BatchOf(w)} /\ remaining' >= 0
    BY <1>4, <1>8
  <2>2. \A v \in Worker : Claimed(v)' =>
           BatchOf(v)' \in (markers \cap Missing)'
    BY <1>3, <1>6, <2>1 DEF Claims
  <2>3. \A v, u \in Worker :
           v # u /\ Claimed(v)' /\ Claimed(u)' => BatchOf(v)' # BatchOf(u)'
    BY <1>6, <2>1 DEF Claims
  <2>4. \A v \in Worker : pc'[v] # "discard"
    BY <1>2, <2>1 DEF Claims
  <2>5. Runs'
    BY <2>1 DEF Runs
  <2>6. QED
    BY <2>2, <2>3, <2>4, <2>5 DEF Claims
<1>9. Firing'
  <2>1. Firing
    BY DEF CountInv
  <2>2. remaining' > 0 => callbacks' = <<>>
    BY <1>2, <2>1 DEF Firing
  <2>3. ASSUME NEW v \in Worker, pc'[v] = "fire"
        PROVE  /\ remaining' <= 0 /\ callbacks' = <<>>
               /\ \A u \in Worker \ {v} : pc'[u] # "fire"
               /\ Whole' => Complete'
    <3>1. CASE v = w
      <4>1. remaining' = 0 /\ remaining > 0
        BY <1>2, <2>3, <3>1
      <4>2. callbacks' = <<>> /\ \A u \in Worker : pc[u] # "fire"
        BY <2>1, <4>1 DEF Firing
      <4>3. Whole => Complete'
        BY <1>4, <4>1, <4>2 DEF Counting
      <4>4. QED
        BY <1>5, <3>1, <4>1, <4>2, <4>3
    <3>2. CASE v # w
      <4>1. pc[v] = "fire" /\ remaining <= 0 /\ callbacks = <<>>
        BY <1>5, <2>1, <2>3, <3>2 DEF Firing
      <4>2. ~Whole
        BY <1>3, <1>4, <2>1, <4>1 DEF Firing, Counting, Complete, Claims
      <4>3. \A u \in Worker \ {v} : pc[u] # "fire"
        BY <2>1, <4>1 DEF Firing
      <4>4. label # "fire"
        BY <1>2, <4>1
      <4>5. QED
        BY <1>2, <1>5, <4>1, <4>2, <4>3, <4>4
    <3>3. QED
      BY <3>1, <3>2
  <2>4. \A v \in Worker : pc'[v] \in {"delete", "clear"} => callbacks' # <<>>
    BY <1>5, <2>1 DEF Firing
  <2>5. QED
    BY <2>2, <2>3, <2>4 DEF Firing
<1>10. Whole' => CallbackCarriesEveryBatch'
  BY DEF CountInv, CallbackCarriesEveryBatch
<1>11. QED
  BY <1>4, <1>7, <1>8, <1>9, <1>10 DEF CountInv

LEMMA DecrementCounts ==
    ASSUME BaseInv, CountInv, NEW w \in Worker,
           Decrement(w) \/ DecrementFails(w)
    PROVE  CountInv'
<1> USE DEF BaseInv, RecoveryTypeOK, TypeOK
<1>1. Whole' = Whole /\ arming' = arming
  BY WholeStays DEF WorkerStep
<1>2. CASE Decrement(w)
  <2>1. /\ pc[w] = "decrement" /\ armed /\ Decremented(w)
        /\ UNCHANGED <<arming, markers, msg, bodies, callbacks>>
    BY <1>1, <1>2 DEF Decrement
  <2>2. remaining' \in Int
    BY <2>1 DEF Decremented
  <2> DEFINE label == CASE remaining' > 0 -> "ack"
                        [] remaining' = 0 -> "fire"
                        [] OTHER -> "discard"
  <2>3. pc' = [pc EXCEPT ![w] = label]
    BY <1>2 DEF Decrement
  <2>4. /\ remaining' > 0 => label = "ack"
        /\ remaining' = 0 => label = "fire"
        /\ remaining' < 0 => label = "discard"
    BY <2>2
  <2>5. /\ label \in {"ack", "fire", "discard", "mark"}
        /\ label = "fire" => remaining' = 0
        /\ label = "discard" => remaining' < 0
    BY <2>2, <2>4
  <2> HIDE DEF label
  <2>6. QED
    BY <1>1, <2>1, <2>3, <2>5, CountedStep
<1>3. CASE DecrementFails(w)
  <2>1. /\ pc[w] = "decrement" /\ pc' = [pc EXCEPT ![w] = "mark"]
        /\ UNCHANGED <<arming, markers, msg, bodies, callbacks>>
    BY <1>1, <1>3 DEF DecrementFails
  <2>2. CASE armed /\ Decremented(w)
    BY <1>1, <2>1, <2>2, CountedStep
  <2>3. CASE UNCHANGED barrierRow
    BY <1>1, <2>1, <2>3, QuietStep DEF Claimed
  <2>4. QED
    BY <1>3, <2>2, <2>3 DEF DecrementFails
<1>4. QED
  BY <1>2, <1>3

LEMMA FireCounts ==
    ASSUME BaseInv, CountInv, NEW w \in Worker,
           Fire(w) \/ FireFails(w) \/ FireTwice(w)
    PROVE  CountInv'
<1> USE DEF BaseInv, RecoveryTypeOK, TypeOK
<1>1. /\ Whole' = Whole /\ arming' = arming
      /\ UNCHANGED <<armed, remaining, results, markers, bodies, msg>>
      /\ pc[w] = "fire"
      /\ \A v \in Worker \ {w} : pc'[v] = pc[v]
  BY WholeStays DEF WorkerStep, Fire, FireFails, FireTwice
<1>2. arming # 1 => CountInv'
  BY <1>1 DEF CountInv, Whole, Counting, Firing
<1> SUFFICES ASSUME arming = 1 PROVE CountInv'
  BY <1>2
<1>3. /\ remaining <= 0 /\ callbacks = <<>>
      /\ \A v \in Worker \ {w} : pc[v] # "fire"
      /\ \A v \in Worker : pc[v] \notin {"delete", "clear"}
      /\ Whole => Complete
  BY <1>1 DEF CountInv, Firing
<1>4. Append(callbacks, results) = <<results>>
      /\ callbacks \o <<results, results>> = <<results, results>>
  BY <1>3, ConcatEmptySeq
<1>5. /\ callbacks' \in {<<>>, <<results>>, <<results, results>>}
      /\ pc'[w] \in {"delete", "mark"}
      /\ pc'[w] = "delete" => callbacks' # <<>>
  <2>1. CASE Fire(w)
    BY <1>4, <2>1 DEF Fire
  <2>2. CASE FireFails(w)
    <3>1. callbacks' = callbacks \/ callbacks' = Append(callbacks, results)
      BY <2>2, Zenon DEF FireFails
    <3>2. pc'[w] = "mark"
      BY <2>2 DEF FireFails
    <3>3. QED
      BY <1>3, <1>4, <3>1, <3>2
  <2>3. CASE FireTwice(w)
    BY <1>4, <2>3 DEF FireTwice
  <2>4. QED
    BY <2>1, <2>2, <2>3
<1>6. ASSUME callbacks' = <<>> PROVE CountInv'
  BY <1>1, <1>3, <1>5, <1>6, QuietStep DEF Claimed
<1>7. ASSUME callbacks' # <<>> PROVE CountInv'
  <2>1. ~Counting'
    BY <1>7 DEF Counting
  <2>2. Firing'
    BY <1>1, <1>3, <1>5, <1>7 DEF Firing
  <2>3. Whole => /\ Len(results) = NumBatches
                 /\ \A b \in Batch : \E k \in 1..NumBatches : results[k] = b
    BY <1>3 DEF Complete, Missing
  <2>4. \A i \in 1..Len(callbacks') : callbacks'[i] = results
    BY <1>5, <1>7
  <2>5. Whole' => CallbackCarriesEveryBatch'
    BY <1>1, <2>3, <2>4 DEF CallbackCarriesEveryBatch
  <2>6. QED
    BY <2>1, <2>2, <2>5 DEF CountInv
<1>8. QED
  BY <1>6, <1>7

LEMMA CountStep ==
    BaseInv /\ Unarmed /\ CountInv /\ [RecoveryNext]_allVars => CountInv'
<1> SUFFICES ASSUME BaseInv, Unarmed, CountInv, [RecoveryNext]_allVars
             PROVE  CountInv'
  OBVIOUS
<1>1. CASE UNCHANGED allVars
  <2>1. Whole' => Whole
    BY <1>1 DEF allVars, vars, Whole
  <2>2. QED
    BY <1>1, <2>1, QuietStep DEF allVars, vars, Claimed
<1>2. CASE \/ Orchestrate
           \/ SetupFails \/ ArmFails \/ DispatchFails
           \/ RecordFailureLost \/ OrchestratorCrashes
  BY <1>2, OrchestratorCounts
<1>3. ASSUME NEW w \in Worker,
             \/ WorkerStep(w)
             \/ ClaimUnanswered(w) \/ DecrementFails(w) \/ FireFails(w)
             \/ FireTwice(w) \/ MarkErrorFails(w) \/ WorkerCrashes(w)
      PROVE  CountInv'
  BY <1>3, QuietWorker, ClaimBatchCounts, StartWorkCounts, DecrementCounts,
     FireCounts DEF WorkerStep
<1>4. CASE \/ \E m \in Message : Redeliver(m) \/ RedeliverEarly(m)
           \/ HandleCallback \/ CallbackUnacked
  BY <1>4, RestCounts
<1>5. CASE Sweep \/ SweepFails \/ FinalizeStuck \/ TimePasses
  BY <1>5, SweepCounts
<1>6. QED
  BY <1>1, <1>2, <1>3, <1>4, <1>5 DEF RecoveryNext, Next, Faults

LEMMA CountInit == RecoveryInit => Unarmed /\ CountInv
<1> SUFFICES ASSUME RecoveryInit PROVE Unarmed /\ CountInv
  OBVIOUS
<1>1. arming = 0 /\ callbacks = <<>>
  BY DEF RecoveryInit, Init
<1>2. Unarmed
  BY DEF RecoveryInit, Init, Unarmed
<1>3. CountInv
  BY <1>1 DEF CountInv, Counting, Whole, Firing
<1>4. QED
  BY <1>2, <1>3

LEMMA CountHolds ==
    RecoverySpec => [](BaseInv /\ EndedInv /\ Unarmed /\ CountInv)
<1> DEFINE FInv == BaseInv /\ EndedInv /\ Unarmed /\ CountInv
<1>1. RecoveryInit => FInv
  BY BaseInit, EndedInit, CountInit
<1>2. FInv /\ [RecoveryNext]_allVars => FInv'
  BY BaseStep, EndedStep, UnarmedStep, CountStep
<1>3. QED
  BY <1>1, <1>2, PTL DEF RecoverySpec

(* An intact barrier was armed once, or not yet.                           *)
LEMMA IntactIsWhole == BaseInv /\ Intact /\ arming # 0 => Whole
BY DEF BaseInv, RecoveryTypeOK, TypeOK, Intact, Whole

(***************************************************************************)
(* The callback of an intact barrier carries the result of every batch     *)
(* exactly once, for any number of batches, workers, crashes, redeliveries,*)
(* ambiguous commits, refused results, sweeps and failed fan-outs          *)
(* (run_batch_with_barrier, _barrier_pg_decrement).                        *)
(***************************************************************************)
THEOREM FanInIsExact == RecoverySpec => []FanInIsComplete
<1>1. ASSUME BaseInv, Unarmed, CountInv PROVE FanInIsComplete
  <2> SUFFICES ASSUME Intact PROVE CallbackCarriesEveryBatch
    BY DEF FanInIsComplete
  <2>1. CASE arming = 0
    <3>1. Len(callbacks) = 0
      BY <1>1, <2>1, EmptySeq DEF Unarmed
    <3>2. QED
      BY <3>1 DEF CallbackCarriesEveryBatch
  <2>2. CASE arming # 0
    BY <1>1, <2>2, IntactIsWhole DEF CountInv
  <2>3. QED
    BY <2>1, <2>2
<1>2. QED
  BY <1>1, CountHolds, PTL

(***************************************************************************)
(* While an intact barrier counts, no batch is run twice (claim_batch,     *)
(* preserve_dedup_markers).                                                *)
(***************************************************************************)
THEOREM BatchesRunOnce == RecoverySpec => []NoRerunWhileCounting
<1>1. ASSUME BaseInv, Unarmed, CountInv PROVE NoRerunWhileCounting
  <2> SUFFICES ASSUME Intact, armed, remaining > 0
               PROVE  \A b \in Batch : bodies[b] <= 1
    BY DEF NoRerunWhileCounting
  <2>1. arming # 0
    BY <1>1, Zenon DEF Unarmed
  <2>2. Whole
    BY <1>1, <2>1, IntactIsWhole
  <2>3. Counting
    BY <1>1, <2>2 DEF CountInv, Counting, Whole, Firing
  <2>4. QED
    BY <1>1, <2>3 DEF CountInv, Runs
<1>2. QED
  BY <1>1, CountHolds, PTL

(***************************************************************************)
(* The row of an intact barrier is not deleted from under a run that is    *)
(* not accounted for: whoever deletes it finds the run ended or its        *)
(* callback enqueued, or goes on to write ERROR (_barrier_pg_decrement,    *)
(* barrier_pg_abort, _dispatch_headers, _recover_one_barrier).             *)
(***************************************************************************)
THEOREM RowIsAccounted == RecoverySpec => TeardownIsAccounted
<1> DEFINE Inv == BaseInv /\ EndedInv /\ Unarmed /\ CountInv
           Last == Intact /\ armed /\ ~armed' =>
                       \/ ended \/ callbacks # <<>>
                       \/ orch' = "failing" \/ AboutToMark
<1>1. ASSUME Inv, [RecoveryNext]_allVars PROVE [Last]_allVars
  <2> SUFFICES ASSUME Intact, armed, ~armed', ~ended, callbacks = <<>>
               PROVE  orch' = "failing" \/ AboutToMark
    OBVIOUS
  <2>0. arming # 0
    BY <1>1, Zenon DEF Unarmed
  <2>w. Whole
    BY <1>1, <2>0, IntactIsWhole
  <2>1. /\ \A w \in Worker :
              pc[w] \notin {"delete", "clear", "abort", "discard"}
        /\ step # "delete"
    <3>1. \A w \in Worker : pc[w] # "abort"
      BY <1>1, Zenon DEF EndedInv
    <3>2. step # "delete"
      BY <1>1, Zenon DEF EndedInv
    <3>3. \A w \in Worker : pc[w] # "discard"
      <4>1. Claims
        BY <1>1, <2>w, Zenon DEF CountInv, Counting
      <4>2. QED
        BY <4>1 DEF Claims
    <3>4. \A w \in Worker : pc[w] \notin {"delete", "clear"}
      <4>1. arming = 1 /\ Firing
        BY <1>1, <2>w DEF Whole, CountInv
      <4>2. QED
        BY <4>1 DEF Firing
    <3>5. QED
      BY <3>1, <3>2, <3>3, <3>4
  <2>2. RecoveryNext
    <3>1. UNCHANGED allVars => armed' = armed
      BY DEF allVars, vars
    <3>2. ~(armed' = armed)
      BY Zenon
    <3>3. QED
      BY <1>1, <3>1, <3>2
  <2>3. CASE Orchestrate \/ SetupFails \/ ArmFails \/ DispatchFails
                 \/ RecordFailureLost \/ OrchestratorCrashes
    BY <2>3
    DEF Orchestrate, BeginOrchestration, Arm, DispatchHeader,
        AckOrchestration, RecordFailure, SetupFails, ArmFails, DispatchFails,
        RecordFailureLost, OrchestratorCrashes
  <2>4. ASSUME NEW w \in Worker,
               \/ WorkerStep(w)
               \/ ClaimUnanswered(w) \/ DecrementFails(w) \/ FireFails(w)
               \/ FireTwice(w) \/ MarkErrorFails(w) \/ WorkerCrashes(w)
        PROVE  AboutToMark
    <3>1. CASE DecrementRejected(w)
      <4>1. pc[w] = "decrement" /\ pc'[w] = "mark"
        BY <1>1, <3>1 DEF DecrementRejected, BaseInv, RecoveryTypeOK, TypeOK
      <4>2. QED
        BY <4>1 DEF AboutToMark
    <3>2. CASE ~DecrementRejected(w)
      BY <2>1, <2>4, <3>2
      DEF WorkerStep, Take, ClaimBatch, CheckExecution, StartWork,
          WorkReturns, WorkRaises, Decrement, Decremented, Discard,
          DecrementAbandoned, Fire, DeleteBarrier, ClearMarkers, MarkError,
          Abort, Ack, ClaimUnanswered, DecrementFails, FireFails, FireTwice,
          MarkErrorFails, WorkerCrashes
    <3>3. QED
      BY <3>1, <3>2
  <2>5. CASE \/ \E m \in Message : Redeliver(m) \/ RedeliverEarly(m)
             \/ HandleCallback \/ CallbackUnacked
    BY <2>5, RestFrame
  <2>6. CASE Sweep \/ SweepFails \/ FinalizeStuck \/ TimePasses
    BY <2>1, <2>6
    DEF Sweep, SweepStep, TimePasses, Scan, ReadStatus, Recheck, MarkStranded,
        DeleteRow, SweepFails, FinalizeStuck, BarrierGoesStale, ClaimGrowsOld,
        vars
  <2>7. QED
    BY <2>2, <2>3, <2>4, <2>5, <2>6 DEF RecoveryNext, Next, Faults
<1>2. QED
  BY <1>1, CountHolds, PTL DEF RecoverySpec, TeardownIsAccounted
=============================================================================
