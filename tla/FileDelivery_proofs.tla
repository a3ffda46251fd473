------------------------ MODULE FileDelivery_proofs ------------------------
(***************************************************************************)
(* Proofs about FileDelivery for every set of executions and of workers    *)
(* and any number of faults: the destination lock excludes, nothing says   *)
(* that a file succeeded which nobody wrote (file history may after a      *)
(* failed set-up), one execution delivers a file that several discover,    *)
(* somebody handles it, and a file whose batch was delivered once is not   *)
(* left active.                                                            *)
(***************************************************************************)
EXTENDS FileDelivery, TLAPS

-----------------------------------------------------------------------------
(* The inductive invariant.                                                *)

\* The steps a worker may be at once it has written.
AfterWrite == {"release", "history", "mark", "finalize", "complete", "report"}

\* The steps of a worker that is through with the tools.
PastTool ==
    AfterWrite \cup {"dupcheck", "guard", "lock", "wait", "stage", "write"}

\* A worker in the section holds the lock of its file.
LockHeld ==
    "lock" \notin faults =>
        \A w \in Worker : step[w] \in Section => lock[batchOf[w]] = w

\* A worker writes once, and one that goes on with "ok" has written the data.
Writes(w) ==
    /\ wrote[w] # "none" => step[w] \in AfterWrite \cup {"done", "dead"}
    /\ step[w] \in AfterWrite /\ note[w] = "ok" => wrote[w] = "data"
    /\ step[w] \in {"release", "history"} /\ note[w] = "setup" =>
           wrote[w] = "error"
    /\ step[w] = "mark" => note[w] = "ok"
    /\ step[w] \in PastTool => note[w] \in {"ok", "failed", "setup"}

\* The workers that may have recorded a failed set-up as COMPLETED.
Entered == {w \in Misrecorded : step[w] \notin {"release", "history"}}

\* Reports of success rest on a write; the entry of file history may rest on
\* a failed set-up.
Grounded ==
    /\ history = "COMPLETED" => Delivered \cup Entered # {}
    /\ \A e \in Exec :
          record[e] = "COMPLETED" \/ tracker[e].status = "success" =>
              \E w \in Delivered : batchOf[w] = e

FileInv ==
    /\ FileTypeOK
    /\ LockHeld
    /\ \A w \in Worker : Writes(w)
    /\ Grounded

-----------------------------------------------------------------------------
(* Types.                                                                  *)

LEMMA FaultTyped ==
    ASSUME faults \in SUBSET Kinds, NEW kind \in Kinds,
           Fault(kind) \/ UNCHANGED faults
    PROVE  faults' \in SUBSET Kinds /\ faults \subseteq faults'
BY DEF Fault

LEMMA WriteRecordTyped ==
    ASSUME FileTypeOK, NEW e \in Exec, NEW status \in Records,
           WriteRecord(e, status)
    PROVE  /\ record' \in [Exec -> Records]
           /\ \A f \in Exec \ {e} : record'[f] = record[f]
           /\ record'[e] \in {record[e], status}
           /\ UNCHANGED <<history, ended>>
           /\ faults' \in SUBSET Kinds /\ faults \subseteq faults'
<1>1. faults \in SUBSET Kinds /\ "status" \in Kinds
  BY DEF FileTypeOK, TypeOK, Kinds
<1>2. Fault("status") \/ UNCHANGED faults
  BY DEF WriteRecord
<1>3. QED
  BY <1>1, <1>2, FaultTyped DEF WriteRecord, FileTypeOK, TypeOK

\* What the moves of a worker have in common.
LEMMA MoveTyped ==
    ASSUME FileTypeOK, NEW w \in Worker, NEW s \in Steps, NEW n \in Notes,
           Goto(w, s, n), UNCHANGED <<discovery, ended>>,
           marker' \in {marker, Nobody}, record' \in [Exec -> Records],
           history' \in {"none"} \cup Terminal, tracker' \in [Exec -> Tracks],
           faults' \in SUBSET Kinds, metadata' \in SUBSET Exec,
           lock' \in [Exec -> Worker \cup {Nobody}],
           wrote' \in [Worker -> {"none", "data", "error"}]
    PROVE  FileTypeOK'
BY DEF Goto, FileTypeOK, TypeOK, discovery

LEMMA DiscoveryKeepsTypes ==
    ASSUME FileTypeOK, NEW e \in Exec, UNCHANGED <<metadata, lock, wrote>>,
           \/ ReadHistory(e) \/ FilterMarker(e) \/ FilterRecords(e)
           \/ Mark(e)
           \/ EndExecution(e) \/ RecoverExecution(e)
    PROVE  FileTypeOK'
<1> USE DEF FileTypeOK, TypeOK, discovery, database, batch
<1>1. CASE ReadHistory(e)
  BY <1>1 DEF ReadHistory, Scans
<1>2. CASE FilterMarker(e)
  <2>1. scan' \in [Exec -> Scans] /\ ahead' \in [Exec -> SUBSET Exec]
    BY <1>2 DEF FilterMarker, Pass, Admitted, Scans
  <2>2. faults' \in SUBSET Kinds
    BY <1>2 DEF FilterMarker, Fault, Kinds
  <2>3. QED
    BY <1>2, <2>1, <2>2 DEF FilterMarker
<1>3. CASE FilterRecords(e)
  <2>1. PICK stage \in {"refused", "mark"} : Pass(e, stage)
    <3>1. CASE ActiveRecord(e)
      BY <1>3, <3>1 DEF FilterRecords
    <3>2. CASE ~ActiveRecord(e)
      BY <1>3, <3>2 DEF FilterRecords
    <3>3. QED
      BY <3>1, <3>2
  <2>2. QED
    BY <1>3, <2>1 DEF FilterRecords, Pass, Scans, Fault, Kinds
<1>4. CASE Mark(e)
  BY <1>4 DEF Mark, Scans, Fault, Kinds
<1>5. CASE EndExecution(e)
  BY <1>5 DEF EndExecution, Admitted
<1>6. CASE RecoverExecution(e)
  BY <1>6 DEF RecoverExecution, Admitted, Records, Terminal
<1>7. QED
  BY <1>1, <1>2, <1>3, <1>4, <1>5, <1>6

LEMMA PreCreateKeepsTypes ==
    ASSUME FileTypeOK, NEW w \in Worker, UNCHANGED <<metadata, lock, wrote>>,
           \/ Start(w) \/ CheckMarker(w) \/ CheckRecords(w) \/ GetOrCreate(w)
           \/ Refuse(w) \/ Prepare(w) \/ SetPending(w) \/ Cleanup(w)
           \/ Crash(w)
    PROVE  FileTypeOK'
<1> DEFINE e == batchOf[w]
<1> USE DEF database
<1>1. /\ e \in Exec /\ step[w] \in Steps /\ note[w] \in Notes
      /\ record[e] \in Records
      /\ record \in [Exec -> Records] /\ tracker \in [Exec -> Tracks]
      /\ history \in {"none"} \cup Terminal
      /\ lock' \in [Exec -> Worker \cup {Nobody}]
      /\ wrote' \in [Worker -> {"none", "data", "error"}]
      /\ faults \in SUBSET Kinds /\ metadata' \in SUBSET Exec
      /\ {"crash", "marker", "check", "status", "lookup"} \subseteq Kinds
  BY DEF FileTypeOK, TypeOK, Kinds
<1>2. /\ {"check", "records", "create", "refuse", "prepare", "pend", "cleanup",
          "validate", "done", "dead"} \subseteq Steps
      /\ {"none", "free", "duplicate", "stop", "go"} \subseteq Notes
      /\ {"new", "PENDING", "ERROR"} \subseteq Records
  BY DEF Steps, Running, PreCreateSteps, DeliverySteps, Notes, Records
<1>3. CASE Start(w)
  BY <1>1, <1>2, <1>3, MoveTyped DEF Start
<1>4. CASE CheckMarker(w) \/ CheckRecords(w)
  BY <1>1, <1>2, <1>4, MoveTyped, FaultTyped DEF CheckMarker, CheckRecords
<1>5. CASE GetOrCreate(w)
  <2>1. record' \in [Exec -> Records] /\ faults' \in SUBSET Kinds
    BY <1>1, <1>2, <1>5, FaultTyped DEF GetOrCreate
  <2>2. record[e] \notin Terminal /\ record' = [record EXCEPT ![e] =
            IF @ = "none" THEN "new" ELSE @] => record'[e] \in Notes
    BY <1>1 DEF Records, Terminal, Notes
  <2>3. QED
    BY <1>1, <1>2, <1>5, <2>1, <2>2, MoveTyped DEF GetOrCreate
<1>6. CASE Refuse(w)
  BY <1>1, <1>2, <1>6, MoveTyped, WriteRecordTyped DEF Refuse
<1>7. CASE Prepare(w)
  BY <1>1, <1>2, <1>7, MoveTyped, FaultTyped DEF Prepare
<1>8. CASE SetPending(w)
  BY <1>1, <1>2, <1>8, MoveTyped, WriteRecordTyped DEF SetPending
<1>9. CASE Cleanup(w)
  BY <1>1, <1>2, <1>9, MoveTyped, FaultTyped DEF Cleanup
<1>10. CASE Crash(w)
  BY <1>1, <1>2, <1>10, MoveTyped, FaultTyped DEF Crash
<1>11. QED
  BY <1>3, <1>4, <1>5, <1>6, <1>7, <1>8, <1>9, <1>10

LEMMA DeliverKeepsTypes ==
    ASSUME FileTypeOK, NEW w \in Worker, Deliver(w)
    PROVE  FileTypeOK'
<1> DEFINE e == batchOf[w]
<1> USE DEF database
<1>1. /\ e \in Exec /\ step[w] \in Steps /\ note[w] \in Notes
      /\ record \in [Exec -> Records] /\ tracker \in [Exec -> Tracks]
      /\ history \in {"none"} \cup Terminal
      /\ lock \in [Exec -> Worker \cup {Nobody}]
      /\ wrote \in [Worker -> {"none", "data", "error"}]
      /\ faults \in SUBSET Kinds /\ metadata \in SUBSET Exec
      /\ {"status", "history", "lock", "tracker"} \subseteq Kinds
  BY DEF FileTypeOK, TypeOK, Kinds
<1>2. /\ DeliverySteps \cup {"done"} \subseteq Steps
      /\ {"none", "ok", "failed", "setup"} \subseteq Notes
      /\ {"EXECUTING", "COMPLETED", "ERROR"} \subseteq Records
      /\ {"COMPLETED", "ERROR"} = Terminal
  BY DEF Steps, Running, Notes, Records, Terminal
<1>3. \A stage \in Stages :
      \A status \in {"none", "running", "success", "failed"} :
         SetTrack(e, stage, status) => tracker' \in [Exec -> Tracks]
  BY <1>1 DEF SetTrack, Tracks
<1>4. CASE Validate(w)
  BY <1>1, <1>2, <1>4, MoveTyped DEF Validate, DeliverySteps
<1>5. CASE SetExecuting(w)
  BY <1>1, <1>2, <1>5, MoveTyped, WriteRecordTyped
     DEF SetExecuting, DeliverySteps
<1>6. CASE Resume(w)
  <2>1. tracker' \in [Exec -> Tracks] /\ faults' \in SUBSET Kinds
    BY <1>1, <1>3, <1>6, FaultTyped DEF Resume, SetUp, StartTrack, Stages
  <2>2. QED
    BY <1>1, <1>2, <1>6, <2>1, MoveTyped DEF Resume, SetUp, DeliverySteps
<1>7. CASE RunTool(w)
  <2>1. faults' \in SUBSET Kinds /\ metadata' \in SUBSET Exec
    BY <1>1, <1>7, FaultTyped DEF RunTool
  <2>2. QED
    BY <1>1, <1>2, <1>7, <2>1, MoveTyped DEF RunTool, DeliverySteps
<1>8. CASE CheckDuplicate(w)
  BY <1>1, <1>2, <1>8, MoveTyped, FaultTyped DEF CheckDuplicate, Skip,
                                                 DeliverySteps
<1>9. CASE GuardWrite(w)
  BY <1>1, <1>2, <1>9, MoveTyped, FaultTyped
     DEF GuardWrite, Skip, DeliverySteps
<1>10. CASE AcquireLock(w)
  BY <1>1, <1>2, <1>10, MoveTyped, FaultTyped
     DEF AcquireLock, Lock, DeliverySteps
<1>11. CASE WaitForLock(w)
  BY <1>1, <1>2, <1>11, MoveTyped DEF WaitForLock, Skip, Lock, DeliverySteps
<1>12. CASE SetStage(w)
  <2>1. tracker' \in [Exec -> Tracks]
    BY <1>1, <1>3, <1>12 DEF SetStage, Stages
  <2>2. /\ faults' \in SUBSET Kinds
        /\ lock' \in [Exec -> Worker \cup {Nobody}]
    BY <1>1, <1>12, FaultTyped DEF SetStage
  <2>3. QED
    BY <1>1, <1>2, <1>12, <2>1, <2>2, MoveTyped
       DEF SetStage, Skip, DeliverySteps
<1>13. CASE WriteOutput(w)
  BY <1>1, <1>2, <1>13, MoveTyped DEF WriteOutput, DeliverySteps
<1>14. CASE ReleaseLock(w)
  BY <1>1, <1>2, <1>14, MoveTyped, FaultTyped DEF ReleaseLock, DeliverySteps
<1>15. CASE RecordHistory(w)
  <2>1. history' \in {"none"} \cup Terminal /\ faults' \in SUBSET Kinds
    BY <1>1, <1>2, <1>15, FaultTyped DEF RecordHistory, HistoryStatus
  <2>2. PICK s \in {"mark", "finalize"}, n \in {note[w], "failed"} :
           Goto(w, s, n)
    BY <1>15 DEF RecordHistory
  <2>3. QED
    BY <1>1, <1>2, <1>15, <2>1, <2>2, MoveTyped
       DEF RecordHistory, DeliverySteps
<1>16. CASE MarkDelivered(w)
  <2>1. tracker' \in [Exec -> Tracks] /\ faults' \in SUBSET Kinds
    BY <1>1, <1>3, <1>16, FaultTyped DEF MarkDelivered, TryTrack, Stages
  <2>2. QED
    BY <1>1, <1>2, <1>16, <2>1, MoveTyped DEF MarkDelivered, DeliverySteps
<1>17. CASE Finalize(w)
  <2>1. tracker' \in [Exec -> Tracks] /\ faults' \in SUBSET Kinds
    BY <1>1, <1>3, <1>17, FaultTyped DEF Finalize, Outcome, Stages
  <2>2. QED
    BY <1>1, <1>2, <1>17, <2>1, MoveTyped DEF Finalize, DeliverySteps
<1>18. CASE Complete(w)
  <2>1. tracker' \in [Exec -> Tracks] /\ faults' \in SUBSET Kinds
    BY <1>1, <1>3, <1>18, FaultTyped DEF Complete, TryTrack, Outcome, Stages
  <2>2. QED
    BY <1>1, <1>2, <1>18, <2>1, MoveTyped DEF Complete, DeliverySteps
<1>19. CASE Report(w)
  BY <1>1, <1>2, <1>19, MoveTyped, WriteRecordTyped
     DEF Report
<1>20. QED
  BY <1>4, <1>5, <1>6, <1>7, <1>8, <1>9, <1>10, <1>11, <1>12, <1>13, <1>14,
     <1>15, <1>16, <1>17, <1>18, <1>19 DEF Deliver

LEMMA LapseKeepsTypes ==
    ASSUME FileTypeOK, NEW e \in Exec, LockLapses(e) \/ TrackerLapses(e)
    PROVE  FileTypeOK'
<1> USE DEF discovery, database, batch
<1>1. faults' \in SUBSET Kinds
  <2>1. faults \in SUBSET Kinds /\ {"lock", "tracker"} \subseteq Kinds
    BY DEF FileTypeOK, TypeOK, Kinds
  <2>2. QED
    BY <2>1, FaultTyped DEF LockLapses, TrackerLapses
<1>2. CASE LockLapses(e)
  BY <1>1, <1>2 DEF LockLapses, FileTypeOK, TypeOK
<1>3. CASE TrackerLapses(e)
  <2>1. NoTrack \in Tracks
    BY DEF NoTrack, Tracks, Stages
  <2>2. QED
    BY <1>1, <1>3, <2>1 DEF TrackerLapses, FileTypeOK, TypeOK
<1>4. QED
  BY <1>2, <1>3

LEMMA StepKeepsTypes ==
    ASSUME FileTypeOK, [FileNext]_fileVars
    PROVE  FileTypeOK'
<1>1. CASE ActiveFilesNext /\ UNCHANGED <<metadata, lock, wrote>>
  <2>1. CASE MarkerLapses
    BY <1>1, <2>1 DEF MarkerLapses, Fault, Kinds, FileTypeOK, TypeOK,
       discovery, database, batch
  <2>2. QED
    BY <1>1, <2>1, DiscoveryKeepsTypes, PreCreateKeepsTypes
       DEF ActiveFilesNext
<1>2. CASE \E w \in Worker : Deliver(w)
  BY <1>2, DeliverKeepsTypes
<1>3. CASE \E e \in Exec : LockLapses(e) \/ TrackerLapses(e)
  BY <1>3, LapseKeepsTypes
<1>4. CASE UNCHANGED fileVars
  BY <1>4 DEF fileVars, vars, discovery, database, batch, FileTypeOK, TypeOK
<1>5. QED
  BY <1>1, <1>2, <1>3, <1>4 DEF FileNext

-----------------------------------------------------------------------------
(* The destination lock.                                                   *)

\* A worker that moves with the lock as it is stays out of the section, or
\* was in it, or goes on without a lock.
LEMMA MoveKeepsLock ==
    ASSUME FileTypeOK, LockHeld, NEW w \in Worker, NEW s, NEW n,
           Goto(w, s, n), UNCHANGED lock, faults \subseteq faults',
           s \in Section => step[w] \in Section \/ "lock" \in faults'
    PROVE  LockHeld'
BY DEF LockHeld, Goto, FileTypeOK, TypeOK

LEMMA TakeKeepsLock ==
    ASSUME FileTypeOK, LockHeld, NEW w \in Worker, Lock(w),
           UNCHANGED faults
    PROVE  LockHeld'
<1>1. "lock" \notin faults =>
        \A v \in Worker : batchOf[v] = batchOf[w] => step[v] \notin Section
  BY ActiveFilesAssumption DEF LockHeld, Lock
<1>2. QED
  BY <1>1 DEF LockHeld, Lock, Goto, FileTypeOK, TypeOK

\* A worker in the section that gives the lock back leaves it to nobody else
\* of the section: it was alone there.
LEMMA GiveBackKeepsLock ==
    ASSUME FileTypeOK, LockHeld, NEW w \in Worker, NEW s, NEW n,
           step[w] \in Section, Goto(w, s, n), s \notin Section,
           lock' = [lock EXCEPT ![batchOf[w]] = Nobody],
           faults \subseteq faults'
    PROVE  LockHeld'
BY DEF LockHeld, Goto, FileTypeOK, TypeOK

LEMMA PreCreateKeepsLock ==
    ASSUME FileTypeOK, LockHeld, NEW w \in Worker, UNCHANGED lock,
           \/ Start(w) \/ CheckMarker(w) \/ CheckRecords(w) \/ GetOrCreate(w)
           \/ Refuse(w) \/ Prepare(w) \/ SetPending(w) \/ Cleanup(w)
           \/ Crash(w)
    PROVE  LockHeld'
<1>1. PICK s, n : /\ Goto(w, s, n)
                  /\ s \in PreCreateSteps \cup {"validate", "done", "dead"}
                  /\ faults \subseteq faults'
  BY DEF Start, CheckMarker, CheckRecords, GetOrCreate, Refuse, Prepare,
     SetPending, Cleanup, Crash, WriteRecord, Fault, PreCreateSteps
<1>2. s \notin Section
  BY <1>1 DEF Section, PreCreateSteps
<1>3. QED
  BY <1>1, <1>2, MoveKeepsLock

LEMMA DeliverKeepsLock ==
    ASSUME FileTypeOK, LockHeld, NEW w \in Worker, Deliver(w)
    PROVE  LockHeld'
<1>1. CASE \/ Validate(w) \/ SetExecuting(w) \/ Resume(w) \/ RunTool(w)
           \/ CheckDuplicate(w) \/ GuardWrite(w) \/ RecordHistory(w)
           \/ MarkDelivered(w) \/ Finalize(w) \/ Complete(w) \/ Report(w)
  <2>1. PICK s, n : Goto(w, s, n) /\ s \notin Section
                    /\ UNCHANGED lock /\ faults \subseteq faults'
    BY <1>1 DEF Validate, SetExecuting, Resume, SetUp, RunTool, CheckDuplicate,
       GuardWrite, RecordHistory, MarkDelivered, Finalize, Complete, Report,
       Skip, WriteRecord, TryTrack, Fault, Section
  <2>2. QED
    BY <2>1, MoveKeepsLock
<1>2. CASE AcquireLock(w)
  <2>1. CASE Lock(w) /\ UNCHANGED faults
    BY <2>1, TakeKeepsLock
  <2>2. CASE Goto(w, "wait", note[w]) /\ UNCHANGED <<lock, faults>>
    BY <2>2, MoveKeepsLock DEF Section
  <2>3. CASE Fault("lock") /\ Goto(w, "write", note[w]) /\ UNCHANGED lock
    BY <2>3, MoveKeepsLock DEF Section, Fault
  <2>4. QED
    BY <1>2, <2>1, <2>2, <2>3 DEF AcquireLock
<1>3. CASE WaitForLock(w)
  BY <1>3, TakeKeepsLock, MoveKeepsLock DEF WaitForLock, Skip, Section
<1>4. CASE SetStage(w)
  <2>1. CASE Goto(w, "write", note[w]) /\ UNCHANGED lock
    BY <1>4, <2>1, MoveKeepsLock DEF SetStage, Section, Fault
  <2>2. CASE /\ lock' = [lock EXCEPT ![batchOf[w]] = Nobody]
             /\ Skip(w) /\ UNCHANGED faults
    <3>1. PICK s : Goto(w, s, note[w]) /\ s \notin Section
      BY <2>2 DEF Skip, Section
    <3>2. step[w] \in Section /\ faults \subseteq faults'
      BY <1>4, <2>2 DEF SetStage, Section
    <3>3. QED
      BY <2>2, <3>1, <3>2, GiveBackKeepsLock
  <2>3. QED
    BY <1>4, <2>1, <2>2 DEF SetStage
<1>5. CASE WriteOutput(w)
  BY <1>5, MoveKeepsLock DEF WriteOutput, Section
<1>6. CASE ReleaseLock(w)
  BY <1>6, GiveBackKeepsLock, MoveKeepsLock DEF ReleaseLock, Section, Fault
<1>7. QED
  BY <1>1, <1>2, <1>3, <1>4, <1>5, <1>6 DEF Deliver

LEMMA LockLapseKeepsLock ==
    ASSUME FileTypeOK, LockHeld, NEW e \in Exec, LockLapses(e)
    PROVE  LockHeld'
<1> USE DEF batch
<1>1. CASE step[lock[e]] \in Section
  BY <1>1 DEF LockLapses, Fault, LockHeld
<1>2. CASE step[lock[e]] \notin Section
  BY <1>2 DEF LockLapses, LockHeld, FileTypeOK, TypeOK
<1>3. QED
  BY <1>1, <1>2

LEMMA StepKeepsLock ==
    ASSUME FileTypeOK, LockHeld, [FileNext]_fileVars
    PROVE  LockHeld'
<1>1. CASE ActiveFilesNext /\ UNCHANGED <<metadata, lock, wrote>>
  <2>1. CASE \/ MarkerLapses
             \/ \E e \in Exec :
                   \/ ReadHistory(e) \/ FilterMarker(e) \/ FilterRecords(e)
                   \/ Mark(e) \/ EndExecution(e) \/ RecoverExecution(e)
    BY <1>1, <2>1 DEF MarkerLapses, ReadHistory, FilterMarker, FilterRecords,
       Mark, Pass, EndExecution, RecoverExecution, Fault, LockHeld, batch
  <2>2. QED
    BY <1>1, <2>1, PreCreateKeepsLock DEF ActiveFilesNext
<1>2. CASE \E w \in Worker : Deliver(w)
  BY <1>2, DeliverKeepsLock
<1>3. CASE \E e \in Exec : LockLapses(e) \/ TrackerLapses(e)
  BY <1>3, LockLapseKeepsLock DEF TrackerLapses, LockHeld, batch, Fault
<1>4. CASE UNCHANGED fileVars
  BY <1>4 DEF fileVars, vars, batch, LockHeld
<1>5. QED
  BY <1>1, <1>2, <1>3, <1>4 DEF FileNext

-----------------------------------------------------------------------------
(* What is reported of a file, and what was written.                       *)

\* The workers' part of the invariant.
AllWrite == \A w \in Worker : Writes(w)

\* A report of success rests on a write, the same or a new one, when each
\* new one is of an execution a worker of which has written.
LEMMA ReportsRestOnWrites ==
    ASSUME FileTypeOK, Grounded, NEW w \in Worker,
           UNCHANGED <<batchOf, wrote>>, Entered \subseteq Entered',
           history' = "COMPLETED" =>
               \/ history = "COMPLETED"
               \/ wrote[w] = "data" \/ w \in Entered',
           \A e \in Exec : record'[e] = "COMPLETED" =>
               \/ record[e] = "COMPLETED"
               \/ e = batchOf[w] /\ wrote[w] = "data",
           \A e \in Exec : tracker'[e].status = "success" =>
               \/ tracker[e].status = "success"
               \/ e = batchOf[w] /\ wrote[w] = "data"
    PROVE  Grounded'
BY DEF Grounded, Delivered, FileTypeOK, TypeOK

LEMMA MoveKeepsEntered ==
    ASSUME FileTypeOK, NEW w \in Worker, NEW s, NEW n, Goto(w, s, n),
           UNCHANGED wrote,
           w \in Entered => n = note[w] /\ s \notin {"release", "history"}
    PROVE  Entered \subseteq Entered'
BY DEF Entered, Misrecorded, Goto, FileTypeOK, TypeOK

LEMMA MoveKeepsWrites ==
    ASSUME FileTypeOK, AllWrite, NEW w \in Worker, NEW s, NEW n, Goto(w, s, n),
           UNCHANGED wrote,
           wrote[w] # "none" => s \in AfterWrite \cup {"done", "dead"},
           s \in AfterWrite /\ n = "ok" => wrote[w] = "data",
           s \in {"release", "history"} /\ n = "setup" => wrote[w] = "error",
           s = "mark" => n = "ok",
           s \in PastTool => n \in {"ok", "failed", "setup"}
    PROVE  AllWrite'
BY DEF AllWrite, Writes, Goto, FileTypeOK, TypeOK

LEMMA WriteRecordReports ==
    ASSUME FileTypeOK, NEW e \in Exec, NEW status, WriteRecord(e, status)
    PROVE  /\ \A f \in Exec : record'[f] = "COMPLETED" =>
                  record[f] = "COMPLETED" \/ (f = e /\ status = "COMPLETED")
           /\ UNCHANGED history
BY DEF WriteRecord, FileTypeOK, TypeOK

LEMMA TryTrackReports ==
    ASSUME FileTypeOK, NEW e \in Exec, NEW stage, NEW status,
           SetTrack(e, stage, status) \/ UNCHANGED tracker
    PROVE  \A f \in Exec : tracker'[f].status = "success" =>
               \/ tracker[f].status = "success"
               \/ f = e /\ status = "success"
BY DEF SetTrack, FileTypeOK, TypeOK

LEMMA PreCreateKeepsReports ==
    ASSUME FileTypeOK, AllWrite, Grounded, NEW w \in Worker,
           UNCHANGED <<metadata, lock, wrote>>,
           \/ Start(w) \/ CheckMarker(w) \/ CheckRecords(w) \/ GetOrCreate(w)
           \/ Refuse(w) \/ Prepare(w) \/ SetPending(w) \/ Cleanup(w)
           \/ Crash(w)
    PROVE  AllWrite' /\ Grounded' /\ Entered \subseteq Entered'
<1> DEFINE e == batchOf[w]
<1>1. e \in Exec
  BY DEF FileTypeOK, TypeOK
<1>2. UNCHANGED <<batchOf, history, tracker>>
  BY DEF Start, CheckMarker, CheckRecords, GetOrCreate, Refuse, Prepare,
     SetPending, Cleanup, Crash, WriteRecord, Goto, database
<1>3. \A f \in Exec : record'[f] = "COMPLETED" => record[f] = "COMPLETED"
  <2>1. CASE Refuse(w) \/ SetPending(w)
    BY <1>1, <2>1, WriteRecordReports DEF Refuse, SetPending
  <2>2. CASE GetOrCreate(w)
    BY <2>2 DEF GetOrCreate, FileTypeOK, TypeOK
  <2>3. CASE UNCHANGED record
    BY <2>3
  <2>4. QED
    BY <2>1, <2>2, <2>3 DEF Start, CheckMarker, CheckRecords, Prepare, Cleanup,
       Crash, database
<1>4. ASSUME Entered \subseteq Entered'
      PROVE  Grounded'
  BY <1>2, <1>3, <1>4, ReportsRestOnWrites
<1>5. CASE Crash(w)
  <2>1. Goto(w, "dead", note[w]) /\ "dead" \notin AfterWrite
    BY <1>5 DEF Crash, AfterWrite
  <2>2. AllWrite'
    BY <2>1, MoveKeepsWrites DEF AfterWrite, PastTool
  <2>3. Entered \subseteq Entered'
    BY <2>1, MoveKeepsEntered
  <2>4. QED
    BY <1>4, <2>2, <2>3
<1>6. CASE ~Crash(w)
  <2>1. PICK s, n : Goto(w, s, n) /\ s \notin PastTool
    BY <1>6 DEF Start, CheckMarker, CheckRecords, GetOrCreate, Refuse, Prepare,
       SetPending, Cleanup, AfterWrite, PastTool
  <2>2. step[w] \in PreCreateSteps \cup {"idle"}
    BY <1>6 DEF Start, CheckMarker, CheckRecords, GetOrCreate, Refuse, Prepare,
       SetPending, Cleanup, PreCreateSteps
  <2>3. wrote[w] = "none"
    BY <2>2 DEF AllWrite, Writes, AfterWrite, PreCreateSteps
  <2>4. AllWrite'
    BY <2>1, <2>3, MoveKeepsWrites DEF AfterWrite, PastTool
  <2>5. Entered \subseteq Entered'
    BY <2>1, <2>3, MoveKeepsEntered DEF Entered, Misrecorded
  <2>6. QED
    BY <1>4, <2>4, <2>5
<1>7. QED
  BY <1>4, <1>5, <1>6

LEMMA DeliverKeepsReports ==
    ASSUME FileTypeOK, AllWrite, Grounded, NEW w \in Worker,
           Deliver(w)
    PROVE  AllWrite' /\ Grounded' /\ Entered \subseteq Entered'
<1> DEFINE e == batchOf[w]
<1> DEFINE data == wrote[w] = "data"
<1>1. e \in Exec
  BY DEF FileTypeOK, TypeOK
<1>2. /\ step[w] \notin AfterWrite \cup {"done", "dead"} => wrote[w] = "none"
      /\ step[w] \in AfterWrite /\ note[w] = "ok" => data
      /\ step[w] \in {"release", "history"} /\ note[w] = "setup" =>
             wrote[w] = "error"
      /\ step[w] = "mark" => note[w] = "ok"
      /\ step[w] \in PastTool => note[w] \in {"ok", "failed", "setup"}
  BY DEF AllWrite, Writes
<1>3. CASE \/ Validate(w) \/ SetExecuting(w) \/ Resume(w) \/ RunTool(w)
           \/ CheckDuplicate(w) \/ GuardWrite(w) \/ AcquireLock(w)
           \/ WaitForLock(w) \/ SetStage(w)
  <2>1. PICK s, n : /\ Goto(w, s, n)
                    /\ \/ s \notin AfterWrite
                       \/ s \in {"report", "finalize"} /\ n # "ok"
                    /\ s \in PastTool => n \in {"ok", "failed", "setup"}
    BY <1>2, <1>3 DEF Validate, SetExecuting, Resume, SetUp, RunTool,
                      CheckDuplicate, GuardWrite, AcquireLock, WaitForLock,
                      SetStage, Skip, Lock, AfterWrite, PastTool
  <2>2. wrote[w] = "none" /\ UNCHANGED <<wrote, history>>
    BY <1>2, <1>3 DEF Validate, SetExecuting, Resume, RunTool, CheckDuplicate,
       GuardWrite, AcquireLock, WaitForLock, SetStage, AfterWrite,
       WriteRecord, database
  <2>3. AllWrite'
    BY <2>1, <2>2, MoveKeepsWrites DEF AfterWrite
  <2>4. \A f \in Exec : record'[f] = "COMPLETED" => record[f] = "COMPLETED"
    <3>1. CASE SetExecuting(w)
      BY <1>1, <3>1, WriteRecordReports DEF SetExecuting
    <3>2. CASE UNCHANGED record
      BY <3>2
    <3>3. QED
      BY <1>3, <3>1, <3>2 DEF Validate, Resume, RunTool, CheckDuplicate,
         GuardWrite, AcquireLock, WaitForLock, SetStage, database
  <2>5. \A f \in Exec : tracker'[f].status = "success" =>
                            tracker[f].status = "success"
    <3>1. CASE Resume(w)
      BY <1>1, <3>1, TryTrackReports DEF Resume, SetUp, StartTrack
    <3>2. CASE SetStage(w)
      BY <1>1, <3>2, TryTrackReports DEF SetStage
    <3>3. CASE UNCHANGED tracker
      BY <3>3
    <3>4. QED
      BY <1>3, <3>1, <3>2, <3>3 DEF Validate, SetExecuting, RunTool,
         CheckDuplicate, GuardWrite, AcquireLock, WaitForLock
  <2>6. Entered \subseteq Entered'
    BY <2>1, <2>2, MoveKeepsEntered DEF Entered, Misrecorded
  <2>7. QED
    BY <2>1, <2>2, <2>3, <2>4, <2>5, <2>6, ReportsRestOnWrites DEF Goto
<1>4. CASE WriteOutput(w)
  <2>1. wrote[w] = "none"
    BY <1>2, <1>4 DEF WriteOutput, AfterWrite
  <2>2. AllWrite'
    BY <1>4, <2>1 DEF WriteOutput, AllWrite, Writes, AfterWrite, PastTool, Goto,
       FileTypeOK, TypeOK
  <2>3. Delivered \subseteq Delivered'
    BY <1>4, <2>1 DEF WriteOutput, Delivered, FileTypeOK, TypeOK
  <2>4. Entered \subseteq Entered'
    BY <1>4, <2>1 DEF WriteOutput, Entered, Misrecorded, Goto, FileTypeOK,
       TypeOK
  <2>5. UNCHANGED <<batchOf, record, history, tracker>>
    BY <1>4 DEF WriteOutput, Goto, database
  <2>6. QED
    BY <2>2, <2>3, <2>4, <2>5 DEF Grounded
<1>5. CASE \/ ReleaseLock(w) \/ RecordHistory(w) \/ MarkDelivered(w)
           \/ Finalize(w) \/ Complete(w) \/ Report(w)
  <2>1. /\ step[w] \in AfterWrite
        /\ note[w] = "ok" => data
        /\ UNCHANGED wrote
    BY <1>2, <1>5 DEF ReleaseLock, RecordHistory, MarkDelivered, Finalize,
       Complete, Report, AfterWrite
  <2>2. PICK s, n :
           /\ Goto(w, s, n) /\ s \in AfterWrite \cup {"done"}
           /\ n = "ok" => note[w] = "ok"
           /\ n \in {note[w], "failed"}
           /\ s = "mark" => n = "ok"
           /\ s \in {"release", "history"} =>
                  s = "history" /\ n = note[w] /\ step[w] = "release"
           /\ step[w] \notin {"release", "history"} => n = note[w]
           /\ RecordHistory(w) /\ history' = "COMPLETED" =>
                  history = "COMPLETED" \/ (n = note[w] /\ n # "failed")
    BY <1>5 DEF ReleaseLock, RecordHistory, HistoryStatus, MarkDelivered,
       Finalize, Complete, Report, AfterWrite
  <2>3. AllWrite'
    BY <1>2, <2>1, <2>2, MoveKeepsWrites DEF PastTool, AfterWrite
  <2>4. Entered \subseteq Entered'
    BY <2>1, <2>2, MoveKeepsEntered DEF Entered
  <2>5. history' = "COMPLETED" =>
            history = "COMPLETED" \/ data \/ w \in Entered'
    <3>1. CASE RecordHistory(w)
      <4>1. SUFFICES ASSUME history' = "COMPLETED", history # "COMPLETED",
                            note[w] # "ok"
                     PROVE  w \in Entered'
        BY <2>1
      <4>2. note[w] = "setup" /\ step[w] = "history"
        BY <1>2, <2>1, <2>2, <3>1, <4>1 DEF RecordHistory, PastTool, AfterWrite
      <4>3. QED
        BY <1>2, <2>1, <2>2, <3>1, <4>1, <4>2 DEF Entered, Misrecorded, Goto,
           FileTypeOK, TypeOK
    <3>2. CASE UNCHANGED history
      BY <3>2
    <3>3. QED
      BY <1>5, <3>1, <3>2 DEF ReleaseLock, MarkDelivered, Finalize, Complete,
         Report, database, WriteRecord
  <2>6. \A f \in Exec : record'[f] = "COMPLETED" =>
                            record[f] = "COMPLETED" \/ (f = e /\ data)
    <3>1. CASE Report(w)
      BY <1>1, <2>1, <3>1, WriteRecordReports DEF Report
    <3>2. CASE UNCHANGED record
      BY <3>2
    <3>3. QED
      BY <1>5, <3>1, <3>2 DEF ReleaseLock, RecordHistory, MarkDelivered,
         Finalize, Complete, database
  <2>7. \A f \in Exec : tracker'[f].status = "success" =>
                            tracker[f].status = "success" \/ (f = e /\ data)
    <3>1. CASE MarkDelivered(w)
      BY <1>1, <1>2, <2>1, <3>1, TryTrackReports DEF MarkDelivered, TryTrack
    <3>2. CASE Finalize(w)
      BY <1>1, <2>1, <3>2, TryTrackReports DEF Finalize, Outcome
    <3>3. CASE Complete(w)
      BY <1>1, <2>1, <3>3, TryTrackReports DEF Complete, TryTrack, Outcome
    <3>4. CASE UNCHANGED tracker
      BY <3>4
    <3>5. QED
      BY <1>5, <3>1, <3>2, <3>3, <3>4 DEF ReleaseLock, RecordHistory, Report
  <2>8. QED
    BY <2>1, <2>2, <2>3, <2>4, <2>5, <2>6, <2>7, ReportsRestOnWrites DEF Goto
<1>6. QED
  BY <1>3, <1>4, <1>5 DEF Deliver

LEMMA StepKeepsReports ==
    ASSUME FileTypeOK, AllWrite, Grounded, [FileNext]_fileVars
    PROVE  AllWrite' /\ Grounded' /\ Entered \subseteq Entered'
<1> USE DEF discovery, database, batch
<1>1. CASE ActiveFilesNext /\ UNCHANGED <<metadata, lock, wrote>>
  <2>1. ASSUME NEW f \in Exec, RecoverExecution(f)
        PROVE  AllWrite' /\ Grounded' /\ Entered \subseteq Entered'
    <3>1. \A g \in Exec : record'[g] = "COMPLETED" => record[g] = "COMPLETED"
      BY <2>1 DEF RecoverExecution, FileTypeOK, TypeOK
    <3>2. QED
      BY <1>1, <2>1, <3>1 DEF RecoverExecution, AllWrite, Writes,
         Grounded, Delivered, Entered, Misrecorded
  <2>2. CASE \/ MarkerLapses
             \/ \E f \in Exec :
                   \/ ReadHistory(f) \/ FilterMarker(f) \/ FilterRecords(f)
                   \/ Mark(f)
                   \/ EndExecution(f)
    <3>1. UNCHANGED <<record, history, tracker, batch, wrote>>
      BY <1>1, <2>2 DEF MarkerLapses, ReadHistory, FilterMarker, FilterRecords,
         Mark, EndExecution
    <3>2. QED
      BY <3>1 DEF AllWrite, Writes, Grounded, Delivered, Entered,
         Misrecorded
  <2>3. QED
    BY <1>1, <2>1, <2>2, PreCreateKeepsReports DEF ActiveFilesNext
<1>2. CASE \E w \in Worker : Deliver(w)
  BY <1>2, DeliverKeepsReports
<1>3. ASSUME NEW e \in Exec, LockLapses(e) \/ TrackerLapses(e)
      PROVE  AllWrite' /\ Grounded' /\ Entered \subseteq Entered'
  <2>1. UNCHANGED <<record, history, batch, wrote>>
    BY <1>3 DEF LockLapses, TrackerLapses
  <2>2. \A f \in Exec : tracker'[f].status = "success" =>
                            tracker[f].status = "success"
    BY <1>3 DEF LockLapses, TrackerLapses, NoTrack, FileTypeOK, TypeOK
  <2>3. QED
    BY <2>1, <2>2 DEF AllWrite, Writes, Grounded, Delivered, Entered,
         Misrecorded
<1>4. CASE UNCHANGED fileVars
  BY <1>4 DEF fileVars, vars, AllWrite, Writes, Grounded,
     Delivered, Entered, Misrecorded
<1>5. QED
  BY <1>1, <1>2, <1>3, <1>4 DEF FileNext

-----------------------------------------------------------------------------
LEMMA InitHasInv == FileInit => FileInv
<1> SUFFICES ASSUME FileInit PROVE FileInv
  OBVIOUS
<1>1. FileTypeOK
  BY DEF FileInit, Init, FileTypeOK, TypeOK, Scans, Records, Tracks, NoTrack,
     Stages, Steps, Notes
<1>2. LockHeld /\ \A w \in Worker : Writes(w)
  BY DEF FileInit, Init, LockHeld, Section, Writes, AfterWrite, PastTool
<1>3. Grounded
  BY DEF FileInit, Init, Grounded, NoTrack
<1>4. QED
  BY <1>1, <1>2, <1>3 DEF FileInv

LEMMA StepKeepsInv ==
    ASSUME FileInv, [FileNext]_fileVars
    PROVE  FileInv'
<1>1. FileTypeOK /\ LockHeld /\ AllWrite /\ Grounded
  BY DEF FileInv, AllWrite
<1>2. FileTypeOK' /\ LockHeld' /\ AllWrite' /\ Grounded'
  BY <1>1, StepKeepsTypes, StepKeepsLock, StepKeepsReports
<1>3. QED
  BY <1>2 DEF FileInv, AllWrite

THEOREM FileInvariance == FileSpec => []FileInv
BY InitHasInv, StepKeepsInv, PTL DEF FileSpec

(***************************************************************************)
(* The discovery filters, the workers of a batch and the expiry of keys    *)
(* keep every variable in its type.                                        *)
(***************************************************************************)
THEOREM FileTypeCorrect == FileSpec => []FileTypeOK
<1>1. FileInv => FileTypeOK
  BY DEF FileInv
<1>2. QED
  BY <1>1, FileInvariance, PTL

(***************************************************************************)
(* However many deliveries a batch has, two are between taking the         *)
(* destination lock and giving it back (handle_output) only when the lock  *)
(* itself failed: a worker there holds it, and gives back its own.         *)
(***************************************************************************)
THEOREM WritersExcluded == FileSpec => []WritersExcludeEachOther
<1>1. FileInv => WritersExcludeEachOther
  BY DEF FileInv, LockHeld, WritersExcludeEachOther
<1>2. QED
  BY <1>1, FileInvariance, PTL

(***************************************************************************)
(* Record and tracker say success only of a file that was written          *)
(* (_build_final_result, process_file), whatever fails on the way; so does *)
(* file history, save for a failed set-up whose error was written: without *)
(* one, a worker on its way to the entry has written the data or failed.   *)
(***************************************************************************)
THEOREM SuccessIsDelivered == FileSpec => []SuccessMeansDelivered
<1>1. FileInv => SuccessMeansDelivered
  BY DEF FileInv, Grounded, Entered, SuccessMeansDelivered
<1>2. QED
  BY <1>1, FileInvariance, PTL

-----------------------------------------------------------------------------
(* What the steps of a worker and of discovery have in common.             *)

\* The deliveries of the batch of an execution.
Of(e) == {w \in Worker : batchOf[w] = e}

Begun(w) == step[w] # "idle"

PreCreate(w) ==
    /\ \/ Start(w) \/ CheckMarker(w) \/ CheckRecords(w) \/ GetOrCreate(w)
       \/ Refuse(w) \/ Prepare(w) \/ SetPending(w) \/ Cleanup(w) \/ Crash(w)
    /\ UNCHANGED <<metadata, lock, wrote>>

Discover(e) ==
    /\ \/ ReadHistory(e) \/ FilterMarker(e) \/ FilterRecords(e) \/ Mark(e)
       \/ EndExecution(e) \/ RecoverExecution(e)
    /\ UNCHANGED <<metadata, lock, wrote>>

Lapse ==
    \/ MarkerLapses /\ UNCHANGED <<metadata, lock, wrote>>
    \/ \E e \in Exec : LockLapses(e) \/ TrackerLapses(e)
    \/ UNCHANGED fileVars

LEMMA StepKinds ==
    ASSUME [FileNext]_fileVars
    PROVE  \/ \E w \in Worker : PreCreate(w) \/ Deliver(w)
           \/ \E e \in Exec : Discover(e)
           \/ Lapse
BY DEF FileNext, ActiveFilesNext, PreCreate, Discover, Lapse

\* What a worker moves from and to, and what it leaves alone.
WorkerStep(w) ==
    /\ step[w] \notin {"done", "dead"} /\ step'[w] # "idle"
    /\ step[w] = "idle" => Start(w)
    /\ step'[w] = "dead" => "crash" \in faults'
    /\ faults \subseteq faults'
    /\ UNCHANGED <<discovery, ended, batchOf>>
    /\ marker' \in {marker, Nobody}
    /\ \A v \in Worker \ {w} :
          step'[v] = step[v] /\ note'[v] = note[v] /\ wrote'[v] = wrote[v]
    /\ \A e \in Exec \ {batchOf[w]} :
          /\ record'[e] = record[e]
          /\ tracker'[e] = tracker[e]
          /\ lock'[e] = lock[e]
    /\ wrote[w] # "none" => wrote'[w] = wrote[w]

LEMMA PreCreateIsWorkerStep ==
    ASSUME FileTypeOK, NEW w \in Worker, PreCreate(w)
    PROVE  WorkerStep(w)
<1>1. batchOf[w] \in Exec /\ record \in [Exec -> Records]
  BY DEF FileTypeOK, TypeOK
<1>2. /\ UNCHANGED <<discovery, ended, batchOf, lock, wrote, tracker>>
      /\ marker' \in {marker, Nobody} /\ faults \subseteq faults'
  BY DEF PreCreate, Start, CheckMarker, CheckRecords, GetOrCreate, Refuse,
     Prepare, SetPending, Cleanup, Crash, WriteRecord, Fault, Goto, database
<1>3. /\ step[w] \notin {"done", "dead"}
      /\ step[w] = "idle" => Start(w)
  BY DEF PreCreate, Start, CheckMarker, CheckRecords, GetOrCreate, Refuse,
     Prepare, SetPending, Cleanup, Crash, Running, PreCreateSteps,
     DeliverySteps
<1>4. \A e \in Exec \ {batchOf[w]} : record'[e] = record[e]
  BY <1>1 DEF PreCreate, Start, CheckMarker, CheckRecords, GetOrCreate,
     Refuse, Prepare, SetPending, Cleanup, Crash, WriteRecord, database
<1>5. PICK s, n : /\ Goto(w, s, n) /\ s # "idle"
                  /\ s = "dead" => "crash" \in faults'
  BY DEF PreCreate, Start, CheckMarker, CheckRecords, GetOrCreate, Refuse,
     Prepare, SetPending, Cleanup, Crash, Fault
<1>6. /\ step'[w] = s
      /\ \A v \in Worker \ {w} : step'[v] = step[v] /\ note'[v] = note[v]
  BY <1>5 DEF Goto, FileTypeOK, TypeOK
<1>7. QED
  BY <1>2, <1>3, <1>4, <1>5, <1>6 DEF WorkerStep

LEMMA DeliverIsWorkerStep ==
    ASSUME FileTypeOK, AllWrite, NEW w \in Worker, Deliver(w)
    PROVE  WorkerStep(w)
<1> DEFINE e == batchOf[w]
<1>1. e \in Exec
  BY DEF FileTypeOK, TypeOK
<1>2. step[w] \in DeliverySteps
  BY DEF Deliver, Validate, SetExecuting, Resume, SetUp, RunTool,
         CheckDuplicate, GuardWrite, AcquireLock, WaitForLock, SetStage,
         WriteOutput, ReleaseLock, RecordHistory, MarkDelivered, Finalize,
         Complete, Report, DeliverySteps
<1>3. PICK s, n : Goto(w, s, n) /\ s \in DeliverySteps \cup {"done"}
  BY DEF Deliver, Validate, SetExecuting, Resume, SetUp, RunTool,
         CheckDuplicate, GuardWrite, AcquireLock, WaitForLock, SetStage,
         WriteOutput, ReleaseLock, RecordHistory, MarkDelivered, Finalize,
         Complete, Report, Skip, Lock, DeliverySteps
<1>4. UNCHANGED <<discovery, ended, marker>>
  BY DEF Deliver, Validate, SetExecuting, Resume, SetUp, RunTool,
         CheckDuplicate, GuardWrite, AcquireLock, WaitForLock, SetStage,
         WriteOutput, ReleaseLock, RecordHistory, MarkDelivered, Finalize,
         Complete, Report, WriteRecord, database
<1>5. faults \subseteq faults'
  BY DEF Deliver, Validate, SetExecuting, Resume, SetUp, RunTool,
         CheckDuplicate, GuardWrite, AcquireLock, WaitForLock, SetStage,
         WriteOutput, ReleaseLock, RecordHistory, MarkDelivered, Finalize,
         Complete, Report, WriteRecord, TryTrack, Fault
<1>6. \A f \in Exec \ {e} : record'[f] = record[f]
  <2>1. \/ UNCHANGED record
        \/ \E status : WriteRecord(e, status)
    BY DEF Deliver, Validate, SetExecuting, Resume, SetUp, RunTool,
           CheckDuplicate, GuardWrite, AcquireLock, WaitForLock, SetStage,
           WriteOutput, ReleaseLock, RecordHistory, MarkDelivered, Finalize,
           Complete, Report, database
  <2>2. QED
    BY <1>1, <2>1 DEF WriteRecord, FileTypeOK, TypeOK
<1>7. \A f \in Exec \ {e} : tracker'[f] = tracker[f]
  <2>1. \/ UNCHANGED tracker
        \/ \E stage, status : SetTrack(e, stage, status)
    BY DEF Deliver, Validate, SetExecuting, Resume, SetUp, RunTool,
           CheckDuplicate, GuardWrite, AcquireLock, WaitForLock, SetStage,
           WriteOutput, ReleaseLock, RecordHistory, MarkDelivered, Finalize,
           Complete, Report, TryTrack, StartTrack
  <2>2. QED
    BY <1>1, <2>1 DEF SetTrack, FileTypeOK, TypeOK
<1>8. \A f \in Exec \ {e} : lock'[f] = lock[f]
  <2>1. \/ UNCHANGED lock
        \/ \E v : lock' = [lock EXCEPT ![e] = v]
    BY DEF Deliver, Validate, SetExecuting, Resume, SetUp, RunTool,
           CheckDuplicate, GuardWrite, AcquireLock, WaitForLock, SetStage,
           WriteOutput, ReleaseLock, RecordHistory, MarkDelivered, Finalize,
           Complete, Report, Lock
  <2>2. QED
    BY <1>1, <2>1 DEF FileTypeOK
<1>9. /\ \A v \in Worker \ {w} : wrote'[v] = wrote[v]
      /\ wrote[w] # "none" => wrote'[w] = wrote[w]
  <2>1. CASE WriteOutput(w)
    <3>1. step[w] = "write"
      BY <2>1 DEF WriteOutput
    <3>2. wrote[w] = "none"
      BY <3>1 DEF AllWrite, Writes, AfterWrite
    <3>3. QED
      BY <2>1, <3>2 DEF WriteOutput, FileTypeOK
  <2>2. CASE UNCHANGED wrote
    BY <2>2
  <2>3. QED
    BY <2>1, <2>2 DEF Deliver, Validate, SetExecuting, Resume, RunTool,
       CheckDuplicate, GuardWrite, AcquireLock, WaitForLock, SetStage,
       ReleaseLock, RecordHistory, MarkDelivered, Finalize, Complete, Report
<1>10. /\ step'[w] = s /\ UNCHANGED batchOf
       /\ \A v \in Worker \ {w} : step'[v] = step[v] /\ note'[v] = note[v]
  BY <1>3 DEF Goto, FileTypeOK, TypeOK
<1>11. QED
  BY <1>2, <1>3, <1>4, <1>5, <1>6, <1>7, <1>8, <1>9, <1>10
     DEF WorkerStep, DeliverySteps

LEMMA DiscoverLeaves ==
    ASSUME FileTypeOK, NEW e \in Exec, Discover(e)
    PROVE  /\ UNCHANGED <<pg, history, tracker, batch, lock, wrote>>
           /\ faults \subseteq faults'
           /\ ended \subseteq ended' /\ ended' \subseteq ended \cup {e}
           /\ marker' \in {marker, e}
           /\ \A f \in Exec \ {e} : /\ scan'[f] = scan[f]
                                    /\ ahead'[f] = ahead[f]
                                    /\ record'[f] = record[f]
           /\ e \in Admitted => UNCHANGED <<scan, ahead, marker>>
           /\ e \notin Admitted => UNCHANGED <<record, ended>>
           /\ Admitted \subseteq Admitted'
           /\ Admitted' \subseteq Admitted \cup {e}
<1> USE DEF database
<1>1. CASE ReadHistory(e)
  BY <1>1 DEF ReadHistory, Discover, Admitted, FileTypeOK, TypeOK
<1>2. CASE FilterMarker(e)
  BY <1>2 DEF FilterMarker, Pass, Fault, Discover, Admitted, FileTypeOK, TypeOK
<1>3. CASE FilterRecords(e)
  <2>1. PICK stage \in {"refused", "mark"} : Pass(e, stage)
    <3>1. CASE ActiveRecord(e)
      BY <1>3, <3>1 DEF FilterRecords
    <3>2. CASE ~ActiveRecord(e)
      BY <1>3, <3>2 DEF FilterRecords
    <3>3. QED
      BY <3>1, <3>2
  <2>2. QED
    BY <1>3, <2>1 DEF FilterRecords, Pass, Fault, Discover, Admitted,
       FileTypeOK, TypeOK
<1>4. CASE Mark(e)
  BY <1>4 DEF Mark, Fault, Discover, Admitted, FileTypeOK, TypeOK
<1>5. CASE EndExecution(e) \/ RecoverExecution(e)
  BY <1>5 DEF EndExecution, RecoverExecution, Discover, Admitted, FileTypeOK,
     TypeOK, discovery
<1>6. QED
  BY <1>1, <1>2, <1>3, <1>4, <1>5 DEF Discover

LEMMA LapseLeaves ==
    ASSUME FileTypeOK, Lapse
    PROVE  /\ UNCHANGED <<discovery, database, batch, wrote>>
           /\ faults \subseteq faults'
           /\ marker' = marker \/ (marker' = Nobody /\ "marker" \in faults')
           /\ \A e \in Exec : /\ lock'[e] \in {lock[e], Nobody}
                              /\ tracker'[e] \in {tracker[e], NoTrack}
<1> USE DEF discovery, database, batch
<1>1. CASE MarkerLapses /\ UNCHANGED <<metadata, lock, wrote>>
  BY <1>1 DEF MarkerLapses, Fault
<1>2. ASSUME NEW e \in Exec, LockLapses(e)
      PROVE  /\ UNCHANGED <<discovery, database, batch, wrote, marker, tracker>>
             /\ faults \subseteq faults'
             /\ \A f \in Exec : lock'[f] \in {lock[f], Nobody}
  BY <1>2 DEF LockLapses, Fault, FileTypeOK
<1>3. ASSUME NEW e \in Exec, TrackerLapses(e)
      PROVE  /\ UNCHANGED <<discovery, database, batch, wrote, marker, lock>>
             /\ faults \subseteq faults'
             /\ \A f \in Exec : tracker'[f] \in {tracker[f], NoTrack}
  BY <1>3 DEF TrackerLapses, Fault, FileTypeOK, TypeOK
<1>4. CASE UNCHANGED fileVars
  BY <1>4 DEF fileVars, vars
<1>5. QED
  BY <1>1, <1>2, <1>3, <1>4 DEF Lapse

-----------------------------------------------------------------------------
(* What discovery and the batches agree on, whatever fails.                *)

\* A batch is begun only of an admitted execution, and only those mark the
\* file.
BegunIsAdmitted ==
    /\ \A w \in Worker : Begun(w) => batchOf[w] \in Admitted
    /\ marker # Nobody => marker \in Admitted
    /\ \A e \in Exec : ahead[e] \subseteq Admitted

\* The file of an execution is as discovery left it until a batch begins.
Untouched(e) == record[e] = "none" /\ tracker[e] = NoTrack /\ lock[e] = Nobody
UntouchedBefore ==
    \A e \in Exec : (\A w \in Of(e) : ~Begun(w)) => Untouched(e)

\* An execution ends after a worker of it, and workers die of crashes.
EndsAfterWorker ==
    /\ \A e \in ended : \E w \in Of(e) : step[w] \in {"done", "dead"}
    /\ \A w \in Worker : step[w] = "dead" => "crash" \in faults

\* claim_batch lets one delivery of a batch of the Postgres queue run.
OneRunsOnPg ==
    \A e \in pg : \A v, w \in Of(e) : Begun(v) /\ Begun(w) => v = w

Discovered ==
    /\ BegunIsAdmitted
    /\ UntouchedBefore
    /\ EndsAfterWorker
    /\ OneRunsOnPg

LEMMA WorkerKeepsDiscovered ==
    ASSUME FileTypeOK, AllWrite, Discovered, NEW w \in Worker,
           PreCreate(w) \/ Deliver(w)
    PROVE  Discovered'
<1>1. WorkerStep(w)
  BY PreCreateIsWorkerStep, DeliverIsWorkerStep
<1>2. /\ batchOf[w] \in Exec /\ batchOf' = batchOf
      /\ \A e \in Exec : Of(e)' = Of(e)
      /\ \A e \in Exec : Of(e) \subseteq Worker
      /\ Admitted' = Admitted
      /\ Begun(w)'
      /\ \A v \in Worker \ {w} : Begun(v)' <=> Begun(v)
  BY <1>1 DEF WorkerStep, Of, Admitted, Begun, discovery, FileTypeOK, TypeOK
<1>3. step[w] = "idle" =>
          /\ batchOf[w] \in Admitted
          /\ batchOf[w] \in pg =>
                \A v \in Of(batchOf[w]) : ~Begun(v)
  BY <1>1 DEF WorkerStep, Start, Of, Begun
<1>4. BegunIsAdmitted'
  <2>1. \A v \in Worker : Begun(v)' => batchOf'[v] \in Admitted'
    BY <1>2, <1>3 DEF Discovered, BegunIsAdmitted, Begun
  <2>2. marker' # Nobody => marker' \in Admitted'
    BY <1>1, <1>2 DEF WorkerStep, Discovered, BegunIsAdmitted
  <2>3. \A e \in Exec : ahead'[e] \subseteq Admitted'
    BY <1>1, <1>2 DEF WorkerStep, Discovered, BegunIsAdmitted, discovery
  <2>4. QED
    BY <2>1, <2>2, <2>3 DEF BegunIsAdmitted
<1>5. UntouchedBefore'
  <2>1. ASSUME NEW e \in Exec, \A v \in Of(e)' : ~Begun(v)'
        PROVE  Untouched(e)'
    <3>1. w \notin Of(e)
      BY <1>2, <2>1
    <3>2. e # batchOf[w]
      BY <3>1 DEF Of
    <3>3. Untouched(e)
      BY <1>2, <2>1, <3>1 DEF Discovered, UntouchedBefore
    <3>4. QED
      BY <1>1, <3>2, <3>3 DEF WorkerStep, Untouched
  <2>2. QED
    BY <2>1 DEF UntouchedBefore
<1>6. EndsAfterWorker'
  <2>1. \A e \in ended' : \E v \in Of(e)' : step'[v] \in {"done", "dead"}
    <3>1. TAKE e \in ended'
    <3>2. e \in ended /\ e \in Exec
      BY <1>1 DEF WorkerStep, FileTypeOK, TypeOK
    <3>3. PICK v \in Of(e) : step[v] \in {"done", "dead"}
      BY <3>2 DEF Discovered, EndsAfterWorker
    <3>4. step'[v] = step[v] /\ v \in Of(e)'
      BY <1>1, <1>2, <3>2, <3>3 DEF WorkerStep
    <3>5. QED
      BY <3>3, <3>4
  <2>2. \A v \in Worker : step'[v] = "dead" => "crash" \in faults'
    BY <1>1 DEF WorkerStep, Discovered, EndsAfterWorker
  <2>3. QED
    BY <2>1, <2>2 DEF EndsAfterWorker
<1>7. OneRunsOnPg'
  <2>1. pg' = pg /\ pg \subseteq Exec
    BY <1>1 DEF WorkerStep, discovery, FileTypeOK, TypeOK
  <2>2. ASSUME NEW e \in pg, NEW u \in Of(e), NEW v \in Of(e),
               Begun(u)', Begun(v)', u # v
        PROVE  FALSE
    <3>1. CASE u # w /\ v # w
      BY <1>2, <2>1, <2>2, <3>1 DEF Discovered, OneRunsOnPg
    <3>2. CASE step[w] = "idle" /\ (u = w \/ v = w)
      <4>1. batchOf[w] = e
        BY <3>2 DEF Of
      <4>2. ~Begun(u) /\ ~Begun(v)
        BY <1>3, <2>2, <3>2, <4>1
      <4>3. QED
        BY <1>2, <2>1, <2>2, <3>2, <4>2
    <3>3. CASE step[w] # "idle" /\ (u = w \/ v = w)
      <4>1. Begun(u) /\ Begun(v)
        BY <1>2, <2>1, <2>2, <3>3 DEF Begun
      <4>2. QED
        BY <2>2, <4>1 DEF Discovered, OneRunsOnPg
    <3>4. QED
      BY <3>1, <3>2, <3>3
  <2>3. QED
    BY <1>2, <2>1, <2>2 DEF OneRunsOnPg
<1>8. QED
  BY <1>4, <1>5, <1>6, <1>7 DEF Discovered

LEMMA DiscoverKeepsDiscovered ==
    ASSUME FileTypeOK, Discovered, NEW e \in Exec, Discover(e)
    PROVE  Discovered'
<1>1. /\ UNCHANGED <<pg, history, tracker, batch, lock, wrote>>
      /\ faults \subseteq faults'
      /\ ended \subseteq ended' /\ ended' \subseteq ended \cup {e}
      /\ marker' \in {marker, e}
      /\ \A f \in Exec \ {e} : ahead'[f] = ahead[f] /\ record'[f] = record[f]
      /\ e \in Admitted => UNCHANGED <<scan, ahead, marker>>
      /\ e \notin Admitted => UNCHANGED <<record, ended>>
      /\ Admitted \subseteq Admitted'
  BY DiscoverLeaves
<1>2. /\ \A f \in Exec : Of(f)' = Of(f) /\ Of(f) \subseteq Worker
      /\ \A v \in Worker : Begun(v)' <=> Begun(v)
  BY <1>1 DEF Of, Begun, batch
<1>3. BegunIsAdmitted'
  <2>1. marker' # Nobody => marker' \in Admitted'
    <3>1. CASE Mark(e)
      BY <1>1, <3>1 DEF Mark, Discovered, BegunIsAdmitted, Admitted,
         FileTypeOK, TypeOK
    <3>2. CASE UNCHANGED marker
      BY <1>1, <3>2 DEF Discovered, BegunIsAdmitted
    <3>3. QED
      BY <3>1, <3>2 DEF Discover, ReadHistory, FilterMarker, FilterRecords,
         EndExecution, RecoverExecution
  <2>2. \A f \in Exec : ahead'[f] \subseteq Admitted'
    <3>1. CASE FilterMarker(e)
      BY <1>1, <3>1 DEF FilterMarker, Discovered, BegunIsAdmitted,
         FileTypeOK, TypeOK
    <3>2. CASE UNCHANGED ahead
      BY <1>1, <3>2 DEF Discovered, BegunIsAdmitted
    <3>3. QED
      BY <3>1, <3>2 DEF Discover, ReadHistory, Mark, FilterRecords,
         EndExecution, RecoverExecution, discovery
  <2>3. QED
    BY <1>1, <1>2, <2>1, <2>2 DEF Discovered, BegunIsAdmitted, batch
<1>4. UntouchedBefore'
  <2>1. ASSUME NEW f \in Exec, \A v \in Of(f) : ~Begun(v)
        PROVE  record'[f] = record[f]
    <3>1. CASE RecoverExecution(e) /\ f = e
      <4>1. \E v \in Worker : batchOf[v] = e /\ step[v] = "dead"
        BY <3>1 DEF RecoverExecution
      <4>2. QED
        BY <2>1, <3>1, <4>1 DEF Of, Begun
    <3>2. CASE RecoverExecution(e) /\ f # e
      BY <1>1, <3>2
    <3>3. CASE ~RecoverExecution(e)
      BY <3>3 DEF Discover, ReadHistory, FilterMarker, FilterRecords, Mark,
         EndExecution, database
    <3>4. QED
      BY <3>1, <3>2, <3>3
  <2>2. QED
    BY <1>1, <1>2, <2>1 DEF Discovered, UntouchedBefore, Untouched
<1>5. EndsAfterWorker'
  <2>1. e \in ended' \ ended => \E v \in Of(e) : step[v] \in {"done", "dead"}
    BY DEF Discover, ReadHistory, FilterMarker, FilterRecords, Mark,
       EndExecution, RecoverExecution, database, Of
  <2>2. ended \subseteq Exec
    BY DEF FileTypeOK, TypeOK
  <2>3. QED
    BY <1>1, <1>2, <2>1, <2>2 DEF Discovered, EndsAfterWorker, batch
<1>6. OneRunsOnPg'
  <2>1. pg \subseteq Exec
    BY DEF FileTypeOK, TypeOK
  <2>2. QED
    BY <1>1, <1>2, <2>1 DEF Discovered, OneRunsOnPg
<1>7. QED
  BY <1>3, <1>4, <1>5, <1>6 DEF Discovered

LEMMA LapseKeepsDiscovered ==
    ASSUME FileTypeOK, Discovered, Lapse
    PROVE  Discovered'
<1>1. /\ UNCHANGED <<discovery, database, batch, wrote>>
      /\ faults \subseteq faults'
      /\ marker' \in {marker, Nobody}
      /\ \A e \in Exec : /\ lock'[e] \in {lock[e], Nobody}
                         /\ tracker'[e] \in {tracker[e], NoTrack}
  BY LapseLeaves
<1>2. /\ \A f \in Exec : Of(f)' = Of(f) /\ Of(f) \subseteq Worker
      /\ \A v \in Worker : Begun(v)' <=> Begun(v)
      /\ Admitted' = Admitted
      /\ UNCHANGED <<pg, ahead, record, ended, step, batchOf>>
  BY <1>1 DEF Of, Begun, batch, discovery, database, Admitted
<1>3. pg \subseteq Exec /\ ended \subseteq Exec
  BY DEF FileTypeOK, TypeOK
<1>4. BegunIsAdmitted'
  BY <1>1, <1>2 DEF Discovered, BegunIsAdmitted
<1>5. UntouchedBefore'
  BY <1>1, <1>2 DEF Discovered, UntouchedBefore, Untouched
<1>6. EndsAfterWorker' /\ OneRunsOnPg'
  BY <1>1, <1>2, <1>3 DEF Discovered, EndsAfterWorker, OneRunsOnPg
<1>7. QED
  BY <1>4, <1>5, <1>6 DEF Discovered

-----------------------------------------------------------------------------
(* A file whose batch was delivered once.                                  *)

Sole(w) == Begun(w) /\ \A v \in Of(batchOf[w]) \ {w} : ~Begun(v)

BeforeLock ==
    PreCreateSteps \cup {"validate", "execute", "resume", "tool", "dupcheck",
                         "guard", "lock"}

\* The status of its record, step by step.
RecordAt(w) ==
    LET r == record[batchOf[w]] IN
    /\ step[w] \in {"check", "records", "create"} => r = "none"
    /\ step[w] \in {"refuse", "prepare", "pend"} => r = "new"
    /\ step[w] = "prepare" => note[w] = "new"
    /\ step[w] = "cleanup" /\ note[w] = "go" => r = "PENDING"
    /\ step[w] = "cleanup" /\ note[w] # "go" => r \in {"ERROR", "new"}
    /\ step[w] \in {"validate", "execute"} => r = "PENDING"
    /\ step[w] \in DeliverySteps \ {"validate", "execute"} => r = "EXECUTING"

\* Nobody else moves its tracker or takes its lock.
KeysAt(w) ==
    /\ step[w] \in BeforeLock \cup {"stage"} =>
          tracker[batchOf[w]].stage \in {"none", "init"}
    /\ step[w] \in BeforeLock => lock[batchOf[w]] = Nobody
    /\ step[w] # "wait"

DoneAt(w) ==
    step[w] = "done" /\ record[batchOf[w]] \in Active =>
        \E v \in Delivered \cup Entered : batchOf[v] # batchOf[w]

SoleInv ==
    "status" \notin faults =>
        \A w \in Worker : Sole(w) => RecordAt(w) /\ KeysAt(w) /\ DoneAt(w)

LEMMA SoleElsewhere ==
    ASSUME FileTypeOK, NEW w \in Worker, WorkerStep(w), SoleInv,
           "status" \notin faults', Entered \subseteq Entered',
           NEW v \in Worker, v # w, Sole(v)'
    PROVE  RecordAt(v)' /\ KeysAt(v)' /\ DoneAt(v)'
<1>1. /\ batchOf' = batchOf /\ Of(batchOf[v])' = Of(batchOf[v])
      /\ step'[v] = step[v] /\ note'[v] = note[v]
      /\ Begun(w)' /\ batchOf[v] \in Exec
      /\ Of(batchOf[v]) \subseteq Worker
      /\ \A u \in Worker \ {w} : Begun(u)' <=> Begun(u)
  BY DEF WorkerStep, Of, Begun, FileTypeOK, TypeOK
<1>2. w \notin Of(batchOf[v])
  BY <1>1 DEF Sole
<1>3. Sole(v)
  BY <1>1, <1>2 DEF Sole
<1>4. RecordAt(v) /\ KeysAt(v) /\ DoneAt(v)
  BY <1>3 DEF SoleInv, WorkerStep
<1>5. /\ record'[batchOf[v]] = record[batchOf[v]]
      /\ tracker'[batchOf[v]] = tracker[batchOf[v]]
      /\ lock'[batchOf[v]] = lock[batchOf[v]]
  BY <1>1, <1>2 DEF WorkerStep, Of
<1>6. Delivered \subseteq Delivered'
  BY DEF WorkerStep, Delivered
<1>7. RecordAt(v)' /\ KeysAt(v)'
  BY <1>1, <1>4, <1>5 DEF RecordAt, KeysAt
<1>8. DoneAt(v)'
  BY <1>1, <1>4, <1>5, <1>6 DEF DoneAt
<1>9. QED
  BY <1>7, <1>8

\* What the record and the keys of a file become when their only worker moves.
LEMMA SoleGoes ==
    ASSUME FileTypeOK, NEW w \in Worker, NEW s, NEW n, Goto(w, s, n)
    PROVE  step'[w] = s /\ note'[w] = n /\ batchOf' = batchOf
BY DEF Goto, FileTypeOK, TypeOK

LEMMA SolePreCreates ==
    ASSUME FileTypeOK, Discovered, NEW w \in Worker, PreCreate(w),
           SoleInv, "status" \notin faults', Sole(w)'
    PROVE  RecordAt(w)' /\ KeysAt(w)' /\ DoneAt(w)'
<1> DEFINE e == batchOf[w]
<1>1. WorkerStep(w) /\ e \in Exec
  BY PreCreateIsWorkerStep DEF FileTypeOK, TypeOK
<1>2. "status" \notin faults
  BY <1>1 DEF WorkerStep
<1>3. Of(e)' = Of(e) /\ batchOf' = batchOf
      /\ \A v \in Of(e) \ {w} : ~Begun(v)
  BY <1>1 DEF WorkerStep, Sole, Of, Begun
<1>4. CASE Start(w)
  <2>1. step[w] = "idle" /\ Goto(w, "check", "none")
        /\ UNCHANGED <<record, tracker, lock>>
    BY <1>4 DEF Start, PreCreate, database
  <2>2. Untouched(e)
    <3>1. \A v \in Of(e) : ~Begun(v)
      BY <1>3, <2>1 DEF Begun
    <3>2. QED
      BY <1>1, <3>1 DEF Discovered, UntouchedBefore
  <2>3. step'[w] = "check" /\ batchOf' = batchOf
    BY <2>1, SoleGoes
  <2>4. QED
    BY <2>1, <2>2, <2>3 DEF Untouched, NoTrack, RecordAt, KeysAt, DoneAt,
       DeliverySteps
<1>5. ASSUME step[w] # "idle"
      PROVE  RecordAt(w) /\ KeysAt(w)
  BY <1>2, <1>3, <1>5 DEF SoleInv, Sole, Begun
<1>6. step[w] \in PreCreateSteps /\ step'[w] # "wait" /\ ~Start(w) =>
        /\ tracker[e].stage \in {"none", "init"}
        /\ lock[e] = Nobody
  BY <1>5 DEF KeysAt, BeforeLock, PreCreateSteps
<1>7. ASSUME UNCHANGED <<tracker, lock>>, step[w] \in PreCreateSteps,
             step'[w] # "wait"
      PROVE  KeysAt(w)'
  BY <1>3, <1>6, <1>7 DEF KeysAt, Start, PreCreateSteps
<1>8. UNCHANGED <<tracker, lock>>
  BY DEF PreCreate, Start, CheckMarker, CheckRecords, GetOrCreate, Refuse,
     Prepare, SetPending, Cleanup, Crash
<1>9. CASE CheckMarker(w) \/ CheckRecords(w)
  <2>1. PICK s \in {"records", "create"} : \E n : Goto(w, s, n)
    BY <1>9 DEF CheckMarker, CheckRecords
  <2>2. step'[w] \in {"records", "create"}
    BY <2>1, SoleGoes
  <2>3. step[w] \in {"check", "records"} /\ record' = record
    BY <1>9 DEF CheckMarker, CheckRecords, database
  <2>4. record[e] = "none"
    BY <1>5, <2>3 DEF RecordAt
  <2>5. KeysAt(w)'
    BY <1>7, <1>8, <2>2, <2>3 DEF PreCreateSteps
  <2>6. QED
    BY <1>3, <2>2, <2>3, <2>4, <2>5 DEF RecordAt, DoneAt, DeliverySteps
<1>10. CASE GetOrCreate(w)
  <2>1. step[w] = "create" /\ record[e] = "none"
    BY <1>5, <1>10 DEF GetOrCreate, RecordAt
  <2>2. /\ record' = [record EXCEPT ![e] = IF @ = "none" THEN "new" ELSE @]
        /\ IF note[w] = "duplicate" THEN Goto(w, "refuse", "none")
                                    ELSE Goto(w, "prepare", record'[e])
    BY <1>2, <1>10, <2>1 DEF GetOrCreate, Terminal, Fault
  <2>3. record'[e] = "new"
    BY <1>1, <2>1, <2>2 DEF FileTypeOK, TypeOK
  <2>4. \/ step'[w] = "refuse"
        \/ step'[w] = "prepare" /\ note'[w] = "new"
    BY <2>2, <2>3, SoleGoes
  <2>5. KeysAt(w)'
    BY <1>7, <1>8, <2>1, <2>4 DEF PreCreateSteps
  <2>6. QED
    BY <1>3, <2>3, <2>4, <2>5 DEF RecordAt, DoneAt, DeliverySteps, Active
<1>11. CASE Refuse(w)
  <2>1. step[w] = "refuse" /\ Goto(w, "cleanup", "stop")
        /\ record' = [record EXCEPT ![e] = "ERROR"]
    BY <1>2, <1>11 DEF Refuse, WriteRecord, Fault
  <2>2. record'[e] = "ERROR" /\ step'[w] = "cleanup" /\ note'[w] = "stop"
    BY <1>1, <2>1, SoleGoes DEF FileTypeOK, TypeOK
  <2>3. KeysAt(w)'
    BY <1>7, <1>8, <2>1, <2>2 DEF PreCreateSteps
  <2>4. QED
    BY <1>3, <2>2, <2>3 DEF RecordAt, DoneAt, DeliverySteps
<1>12. CASE Prepare(w)
  <2>1. step[w] = "prepare" /\ note[w] = "new" /\ record[e] = "new"
        /\ record' = record
    BY <1>5, <1>12 DEF Prepare, RecordAt, database
  <2>2. tracker[e].stage \in {"none", "init"}
    BY <1>5, <2>1 DEF KeysAt, BeforeLock, PreCreateSteps
  <2>3. Goto(w, "pend", "go") \/ Goto(w, "cleanup", "stop")
    BY <1>12, <2>1, <2>2 DEF Prepare
  <2>4. step'[w] = "pend" \/ (step'[w] = "cleanup" /\ note'[w] = "stop")
    BY <2>3, SoleGoes
  <2>5. KeysAt(w)'
    BY <1>7, <1>8, <2>1, <2>4 DEF PreCreateSteps
  <2>6. QED
    BY <1>3, <2>1, <2>4, <2>5 DEF RecordAt, DoneAt, DeliverySteps
<1>13. CASE SetPending(w)
  <2>1. step[w] = "pend" /\ Goto(w, "cleanup", "go")
        /\ record' = [record EXCEPT ![e] = "PENDING"]
    BY <1>2, <1>13 DEF SetPending, WriteRecord, Fault
  <2>2. record'[e] = "PENDING" /\ step'[w] = "cleanup" /\ note'[w] = "go"
    BY <1>1, <2>1, SoleGoes DEF FileTypeOK, TypeOK
  <2>3. KeysAt(w)'
    BY <1>7, <1>8, <2>1, <2>2 DEF PreCreateSteps
  <2>4. QED
    BY <1>3, <2>2, <2>3 DEF RecordAt, DoneAt, DeliverySteps
<1>14. CASE Cleanup(w)
  <2>1. step[w] = "cleanup" /\ record' = record
        /\ Goto(w, IF note[w] = "go" THEN "validate" ELSE "done", note[w])
    BY <1>14 DEF Cleanup, database
  <2>2. /\ note[w] = "go" => record[e] = "PENDING"
        /\ note[w] # "go" => record[e] \in {"ERROR", "new"}
    BY <1>5, <2>1 DEF RecordAt
  <2>3. step'[w] = IF note[w] = "go" THEN "validate" ELSE "done"
    BY <2>1, SoleGoes
  <2>4. KeysAt(w)'
    BY <1>7, <1>8, <2>1, <2>3 DEF PreCreateSteps
  <2>5. QED
    BY <1>3, <2>1, <2>2, <2>3, <2>4 DEF RecordAt, DoneAt, DeliverySteps,
       Active
<1>15. CASE Crash(w)
  <2>1. step'[w] = "dead"
    BY <1>15, SoleGoes DEF Crash
  <2>2. QED
    BY <2>1 DEF RecordAt, KeysAt, DoneAt, BeforeLock, PreCreateSteps,
       DeliverySteps
<1>16. QED
  BY <1>4, <1>9, <1>10, <1>11, <1>12, <1>13, <1>14, <1>15 DEF PreCreate

LEMMA SoleDelivers ==
    ASSUME FileTypeOK, AllWrite, Grounded, Discovered,
           NEW w \in Worker, Deliver(w),
           SoleInv, "status" \notin faults', Sole(w)'
    PROVE  RecordAt(w)' /\ KeysAt(w)' /\ DoneAt(w)'
<1> DEFINE e == batchOf[w]
<1> DEFINE track == tracker[e]
<1>1. WorkerStep(w) /\ e \in Exec
  BY DeliverIsWorkerStep DEF FileTypeOK, TypeOK
<1>2. "status" \notin faults
  BY <1>1 DEF WorkerStep
<1>3. batchOf' = batchOf /\ step[w] \in DeliverySteps
  BY <1>1 DEF WorkerStep, Deliver, Validate, SetExecuting, Resume, RunTool,
     CheckDuplicate, GuardWrite, AcquireLock, WaitForLock, SetStage,
     WriteOutput, ReleaseLock, RecordHistory, MarkDelivered, Finalize,
     Complete, Report, DeliverySteps
<1>4. Sole(w)
  BY <1>1, <1>3 DEF WorkerStep, Sole, Of, Begun, DeliverySteps
<1>5. RecordAt(w) /\ KeysAt(w)
  BY <1>2, <1>4 DEF SoleInv
<1>6. record[e] = IF step[w] \in {"validate", "execute"} THEN "PENDING"
                                                        ELSE "EXECUTING"
  BY <1>3, <1>5 DEF RecordAt
<1>7. /\ step[w] \in BeforeLock \cup {"stage"} =>
            track.stage \in {"none", "init"}
      /\ step[w] \in BeforeLock => lock[e] = Nobody
      /\ step[w] # "wait"
  BY <1>5 DEF KeysAt
\* A worker that moves on without a status.
<1>8. ASSUME NEW s \in DeliverySteps \ {"validate", "execute", "wait"},
             step'[w] = s, record'[e] = "EXECUTING",
             s \in BeforeLock \cup {"stage"} =>
                 tracker'[e].stage \in {"none", "init"},
             s \in BeforeLock => lock'[e] = Nobody
      PROVE  RecordAt(w)' /\ KeysAt(w)' /\ DoneAt(w)'
  <2>1. RecordAt(w)'
    BY <1>3, <1>8 DEF RecordAt, DeliverySteps
  <2>2. KeysAt(w)' /\ DoneAt(w)'
    BY <1>3, <1>8 DEF KeysAt, DoneAt, DeliverySteps
  <2>3. QED
    BY <2>1, <2>2
\* A worker that is through.
<1>9. ASSUME step'[w] = "done",
             \/ record'[e] \in Terminal
             \/ \E v \in (Delivered \cup Entered)' : batchOf[v] # e
      PROVE  RecordAt(w)' /\ KeysAt(w)' /\ DoneAt(w)'
  BY <1>3, <1>9 DEF RecordAt, KeysAt, DoneAt, DeliverySteps, BeforeLock,
     PreCreateSteps, Terminal, Active
\* The only worker of e has not delivered before it writes.
<1>10. ASSUME step[w] \notin AfterWrite
       PROVE  \A v \in Delivered \cup Entered : batchOf[v] # e
  <2>1. TAKE v \in Delivered \cup Entered
  <2>2. v \in Worker /\ wrote[v] # "none"
    BY DEF Delivered, Entered, Misrecorded
  <2>3. Writes(v) /\ Writes(w)
    BY <2>2 DEF AllWrite
  <2>4. Begun(v)
    BY <2>2, <2>3 DEF Writes, AfterWrite, Begun
  <2>5. v # w
    BY <1>3, <1>10, <2>2, <2>3 DEF Writes, DeliverySteps
  <2>6. QED
    BY <1>4, <2>2, <2>4, <2>5 DEF Sole, Of
<1>11. step[w] \notin AfterWrite => track.status # "success"
  BY <1>1, <1>10 DEF Grounded
<1>12. CASE Validate(w)
  <2>1. step[w] = "validate" /\ record' = record /\ Goto(w, "execute", "none")
        /\ UNCHANGED <<tracker, lock>>
    BY <1>6, <1>12 DEF Validate, database, Terminal
  <2>2. step'[w] = "execute"
    BY <2>1, SoleGoes
  <2>3. QED
    BY <1>3, <1>6, <1>7, <2>1, <2>2 DEF RecordAt, KeysAt, DoneAt, BeforeLock,
       PreCreateSteps, DeliverySteps
<1>13. CASE SetExecuting(w)
  <2>1. step[w] = "execute" /\ Goto(w, "resume", "none")
        /\ record' = [record EXCEPT ![e] = "EXECUTING"]
        /\ UNCHANGED <<tracker, lock>>
    BY <1>2, <1>13 DEF SetExecuting, WriteRecord, Fault
  <2>2. step'[w] = "resume" /\ record'[e] = "EXECUTING"
    BY <1>1, <2>1, SoleGoes DEF FileTypeOK, TypeOK
  <2>3. QED
    BY <1>7, <1>8, <2>1, <2>2 DEF BeforeLock, DeliverySteps
<1>14. CASE Resume(w)
  <2>1. step[w] = "resume" /\ record' = record /\ lock' = lock
    BY <1>14 DEF Resume, database
  <2>2. track.stage \in {"none", "init"} /\ lock[e] = Nobody
    BY <1>7, <2>1 DEF BeforeLock
  <2>3. /\ Goto(w, "tool", "none") \/ Goto(w, "dupcheck", "setup")
        /\ SetTrack(e, "init", "running") \/ UNCHANGED tracker
    BY <1>14, <2>2 DEF Resume, SetUp, StartTrack
  <2>4. tracker'[e].stage \in {"none", "init"}
    BY <1>1, <2>2, <2>3 DEF SetTrack, FileTypeOK, TypeOK
  <2>5. step'[w] \in {"tool", "dupcheck"}
    BY <2>3, SoleGoes
  <2>6. QED
    BY <1>6, <1>8, <2>1, <2>2, <2>4, <2>5 DEF DeliverySteps
<1>15. CASE RunTool(w) \/ CheckDuplicate(w)
  <2>1. step[w] \in {"tool", "dupcheck"} /\ record' = record /\ lock' = lock
        /\ tracker' = tracker
    BY <1>15 DEF RunTool, CheckDuplicate, database
  <2>2. track.stage \in {"none", "init"} /\ lock[e] = Nobody
    BY <1>7, <2>1 DEF BeforeLock
  <2>3. PICK s \in {"dupcheck", "guard"} : \E n : Goto(w, s, n)
    BY <1>15, <2>2 DEF RunTool, CheckDuplicate
  <2>4. step'[w] = s
    BY <2>3, SoleGoes
  <2>5. QED
    BY <1>6, <1>8, <2>1, <2>2, <2>4 DEF DeliverySteps
<1>16. CASE GuardWrite(w)
  <2>1. step[w] = "guard" /\ record' = record /\ lock' = lock
        /\ tracker' = tracker /\ wrote' = wrote
    BY <1>16 DEF GuardWrite, database
  <2>2. track.stage \in {"none", "init"} /\ lock[e] = Nobody
    BY <1>7, <2>1 DEF BeforeLock
  <2>3. CASE \E s \in {"lock", "report", "finalize"} : \E n : Goto(w, s, n)
    <3>1. step'[w] \in {"lock", "report", "finalize"}
      BY <2>3, SoleGoes
    <3>2. QED
      BY <1>6, <1>8, <2>1, <2>2, <3>1 DEF DeliverySteps
  <2>4. CASE history = "COMPLETED" /\ Goto(w, "done", note[w])
    <3>1. PICK v \in Delivered \cup Entered : TRUE
      BY <2>4 DEF Grounded
    <3>2. v \in Worker /\ batchOf[v] # e
      BY <1>10, <2>1, <3>1 DEF AfterWrite, Delivered, Entered, Misrecorded
    <3>3. v \in (Delivered \cup Entered)'
      BY <1>1, <2>1, <3>1, <3>2 DEF WorkerStep, Delivered, Entered, Misrecorded
    <3>4. step'[w] = "done"
      BY <2>4, SoleGoes
    <3>5. QED
      BY <1>9, <3>2, <3>3, <3>4
  <2>5. QED
    BY <1>16, <2>3, <2>4 DEF GuardWrite, Skip
<1>17. CASE AcquireLock(w)
  <2>1. step[w] = "lock" /\ record' = record /\ tracker' = tracker
    BY <1>17 DEF AcquireLock, database
  <2>2. track.stage \in {"none", "init"} /\ lock[e] = Nobody
    BY <1>7, <2>1 DEF BeforeLock
  <2>3. PICK s \in {"stage", "write"} : Goto(w, s, note[w])
    BY <1>17, <2>2 DEF AcquireLock, Lock
  <2>4. step'[w] = s
    BY <2>3, SoleGoes
  <2>5. QED
    BY <1>6, <1>8, <2>1, <2>2, <2>4 DEF DeliverySteps, BeforeLock,
       PreCreateSteps
<1>18. CASE WaitForLock(w)
  BY <1>7, <1>18 DEF WaitForLock
<1>19. CASE SetStage(w)
  <2>1. step[w] = "stage" /\ record' = record
    BY <1>19 DEF SetStage, database
  <2>2. track.stage \in {"none", "init"}
    BY <1>7, <2>1
  <2>3. CanMove(e, "dest")
    BY <2>2 DEF CanMove, Rank, Stages
  <2>4. Goto(w, "write", note[w])
    BY <1>19, <2>3 DEF SetStage
  <2>5. step'[w] = "write"
    BY <2>4, SoleGoes
  <2>6. QED
    BY <1>6, <1>8, <2>1, <2>5 DEF DeliverySteps, BeforeLock, PreCreateSteps
<1>20. CASE \/ WriteOutput(w) \/ ReleaseLock(w) \/ RecordHistory(w)
            \/ MarkDelivered(w) \/ Finalize(w) \/ Complete(w)
  <2>1. /\ step[w] \in AfterWrite \cup {"write"} /\ record' = record
        /\ step[w] # "report"
    BY <1>20 DEF WriteOutput, ReleaseLock, RecordHistory, MarkDelivered,
       Finalize, Complete, database, AfterWrite
  <2>2. PICK s \in AfterWrite : \E n : Goto(w, s, n)
    BY <1>20 DEF WriteOutput, ReleaseLock, RecordHistory, MarkDelivered,
       Finalize, Complete, AfterWrite
  <2>3. step'[w] = s
    BY <2>2, SoleGoes
  <2>4. QED
    BY <1>6, <1>8, <2>1, <2>3 DEF DeliverySteps, BeforeLock, PreCreateSteps,
       AfterWrite
<1>21. CASE Report(w)
  <2>1. PICK status \in Terminal : record' = [record EXCEPT ![e] = status]
    BY <1>2, <1>21 DEF Report, WriteRecord, Fault, Terminal
  <2>2. record'[e] \in Terminal
    BY <1>1, <2>1 DEF FileTypeOK, TypeOK
  <2>3. step'[w] = "done"
    BY <1>21, SoleGoes DEF Report
  <2>4. QED
    BY <1>9, <2>2, <2>3
<1>22. QED
  BY <1>12, <1>13, <1>14, <1>15, <1>16, <1>17, <1>18, <1>19, <1>20, <1>21
     DEF Deliver

LEMMA StepKeepsSole ==
    ASSUME FileTypeOK, AllWrite, Grounded, Discovered, SoleInv,
           [FileNext]_fileVars
    PROVE  SoleInv'
<1>1. SUFFICES ASSUME "status" \notin faults', NEW v \in Worker, Sole(v)'
               PROVE  RecordAt(v)' /\ KeysAt(v)' /\ DoneAt(v)'
  BY DEF SoleInv
<1>2. Entered \subseteq Entered'
  BY StepKeepsReports
<1>3. ASSUME NEW w \in Worker, PreCreate(w) \/ Deliver(w)
      PROVE  RecordAt(v)' /\ KeysAt(v)' /\ DoneAt(v)'
  <2>1. WorkerStep(w)
    BY <1>3, PreCreateIsWorkerStep, DeliverIsWorkerStep
  <2>2. CASE v = w
    BY <1>1, <1>3, <2>2, SolePreCreates, SoleDelivers
  <2>3. CASE v # w
    BY <1>1, <1>2, <2>1, <2>3, SoleElsewhere
  <2>4. QED
    BY <2>2, <2>3
<1>4. ASSUME NEW e \in Exec, Discover(e)
      PROVE  RecordAt(v)' /\ KeysAt(v)' /\ DoneAt(v)'
  <2>1. /\ UNCHANGED <<tracker, batch, lock, wrote>> /\ faults \subseteq faults'
        /\ \A f \in Exec \ {e} : record'[f] = record[f]
    BY <1>4, DiscoverLeaves
  <2>2. /\ batchOf' = batchOf /\ step' = step /\ note' = note
        /\ batchOf[v] \in Exec
    BY <2>1 DEF batch, FileTypeOK, TypeOK
  <2>3. Sole(v)
    BY <1>1, <2>2 DEF Sole, Of, Begun
  <2>4. RecordAt(v) /\ KeysAt(v) /\ DoneAt(v)
    BY <1>1, <2>1, <2>3 DEF SoleInv
  <2>5. CASE record'[batchOf[v]] = record[batchOf[v]]
    BY <1>2, <2>1, <2>2, <2>4, <2>5 DEF RecordAt, KeysAt, DoneAt, Delivered
  <2>6. CASE RecoverExecution(e) /\ e = batchOf[v]
    <3>1. PICK u \in Worker : batchOf[u] = e /\ step[u] = "dead"
      BY <2>6 DEF RecoverExecution
    <3>2. u = v
      BY <2>3, <2>6, <3>1 DEF Sole, Of, Begun
    <3>3. step'[v] = "dead"
      BY <2>2, <3>1, <3>2
    <3>4. QED
      BY <3>3 DEF RecordAt, KeysAt, DoneAt, DeliverySteps, BeforeLock,
         PreCreateSteps
  <2>7. RecoverExecution(e) \/ UNCHANGED record
    BY <1>4 DEF Discover, ReadHistory, FilterMarker, FilterRecords, Mark,
       EndExecution, database
  <2>8. QED
    BY <2>1, <2>2, <2>5, <2>6, <2>7
<1>5. ASSUME Lapse
      PROVE  RecordAt(v)' /\ KeysAt(v)' /\ DoneAt(v)'
  <2>1. /\ UNCHANGED <<record, step, note, batchOf, wrote>>
        /\ faults \subseteq faults'
        /\ \A e \in Exec : /\ lock'[e] \in {lock[e], Nobody}
                           /\ tracker'[e] \in {tracker[e], NoTrack}
    BY <1>5, LapseLeaves DEF database, batch
  <2>2. Sole(v) /\ batchOf[v] \in Exec
    BY <1>1, <2>1 DEF Sole, Of, Begun, FileTypeOK, TypeOK
  <2>3. RecordAt(v) /\ KeysAt(v) /\ DoneAt(v)
    BY <1>1, <2>1, <2>2 DEF SoleInv
  <2>4. RecordAt(v)' /\ DoneAt(v)'
    BY <1>2, <2>1, <2>3 DEF RecordAt, DoneAt, Delivered
  <2>5. KeysAt(v)'
    BY <2>1, <2>2, <2>3 DEF KeysAt, NoTrack
  <2>6. QED
    BY <2>4, <2>5
<1>6. QED
  BY <1>3, <1>4, <1>5, StepKinds

-----------------------------------------------------------------------------
(* Executions that saw each other's marker.                                *)

\* The circumstances under which the guards keep the executions apart.
Calm == /\ faults \subseteq {"lock", "tracker", "lookup"}
        /\ Admitted \subseteq pg
        /\ ~Crossing

Through(e) == \E w \in Of(e) : step[w] = "done"

\* An execution that took the file has it marked, or active in its record, or
\* is through with it.
Guarded(e) == marker = e \/ record[e] \in Active \/ Through(e)

\* One that looked for the marker of another took the file after the other
\* was through with it.
Waited(f) ==
    \A e \in ahead[f] :
        /\ scan[f] \in {"mark", "admitted"} => Through(e)
        /\ scan[f] = "records" => Through(e) \/ record[e] \in Active

PastGuard == {"lock", "wait", "stage", "write", "release", "history"}

\* What is delivered is in file history before its worker is through, and
\* only workers of that execution are past the guard that reads it.
Recorded(v) == IF step[v] \in {"release", "history"}
               THEN note[v] = "ok" ELSE history = "COMPLETED"

InHistory ==
    /\ \A v \in Delivered : Recorded(v)
    /\ \A w \in Worker : step[w] \in PastGuard =>
          \A v \in Delivered : batchOf[v] = batchOf[w]
    /\ \A v, w \in Delivered : batchOf[v] = batchOf[w]

CalmInv ==
    Calm => /\ \A e \in Admitted : Guarded(e)
            /\ \A f \in Exec : Waited(f)
            /\ InHistory

LEMMA CalmBefore ==
    ASSUME FileTypeOK, Discovered, UNCHANGED pg, faults \subseteq faults',
           Admitted \subseteq Admitted',
           \A e \in Admitted : ahead'[e] = ahead[e],
           Calm'
    PROVE  Calm
<1>1. ~Crossing
  <2>1. SUFFICES ASSUME Crossing PROVE Crossing'
    BY DEF Calm
  <2>2. PICK e \in Admitted, f \in Admitted :
            e # f /\ e \notin ahead[f] /\ f \notin ahead[e]
    BY <2>1 DEF Crossing
  <2>3. QED
    BY <2>2 DEF Crossing
<1>2. QED
  BY <1>1 DEF Calm

\* While nobody is through with the file, one execution has it.
LEMMA OneAtATime ==
    ASSUME FileTypeOK, Discovered, CalmInv, Calm,
           NEW e \in Admitted, NEW f \in Admitted, e # f
    PROVE  Through(e) \/ Through(f)
<1>1. e \in Exec /\ f \in Exec /\ scan[e] = "admitted" /\ scan[f] = "admitted"
  BY DEF Admitted
<1>2. e \in ahead[f] \/ f \in ahead[e]
  BY DEF Calm, Crossing
<1>3. QED
  BY <1>1, <1>2 DEF CalmInv, Waited

\* On the Postgres queue a worker that is not through has the execution.
LEMMA WorkingIsNotThrough ==
    ASSUME FileTypeOK, Discovered, Calm, NEW w \in Worker, Begun(w),
           step[w] # "done"
    PROVE  ~Through(batchOf[w])
<1>1. batchOf[w] \in Admitted /\ batchOf[w] \in pg
  BY DEF Discovered, BegunIsAdmitted, Calm
<1>2. QED
  BY <1>1 DEF Discovered, OneRunsOnPg, Through, Of, Begun

LEMMA SoleOnPg ==
    ASSUME FileTypeOK, Discovered, Calm, NEW w \in Worker, Begun(w)
    PROVE  Sole(w)
<1>1. batchOf[w] \in Admitted /\ batchOf[w] \in pg
  BY DEF Discovered, BegunIsAdmitted, Calm
<1>2. QED
  BY <1>1 DEF Discovered, OneRunsOnPg, Sole, Of, Begun

LEMMA ThroughStays ==
    ASSUME FileTypeOK, NEW w \in Worker, WorkerStep(w),
           NEW e \in Exec, Through(e)
    PROVE  Through(e)'
<1>1. PICK v \in Of(e) : step[v] = "done"
  BY DEF Through
<1>2. v \in Worker /\ v # w
  BY <1>1 DEF Of, WorkerStep
<1>3. QED
  BY <1>1, <1>2 DEF WorkerStep, Through, Of

\* A record ceases to be active when its worker is through.
LEMMA ActiveUntilThrough ==
    ASSUME FileTypeOK, AllWrite, Discovered, SoleInv, Calm,
           NEW w \in Worker, PreCreate(w) \/ Deliver(w),
           faults' \subseteq {"lock", "tracker", "lookup"},
           NEW e \in Exec, record[e] \in Active
    PROVE  record'[e] \in Active \/ Through(e)'
<1>1. WorkerStep(w)
  BY PreCreateIsWorkerStep, DeliverIsWorkerStep
<1>2. CASE e # batchOf[w] \/ record' = record
  BY <1>1, <1>2 DEF WorkerStep
<1>3. CASE e = batchOf[w]
  <2>1. step[w] # "idle" => RecordAt(w)
    BY SoleOnPg DEF SoleInv, Calm, Begun
  <2>2. CASE Refuse(w)
    BY <1>3, <2>1, <2>2 DEF Refuse, RecordAt, Active
  <2>3. CASE SetPending(w) \/ SetExecuting(w)
    <3>1. PICK status \in Active : record' = [record EXCEPT ![e] = status]
      BY <1>3, <2>3 DEF SetPending, SetExecuting, WriteRecord, Fault, Active
    <3>2. QED
      BY <3>1 DEF FileTypeOK, TypeOK
  <2>4. CASE GetOrCreate(w)
    <3>1. record'[e] = record[e]
      BY <1>3, <2>4 DEF GetOrCreate, Active, FileTypeOK, TypeOK
    <3>2. QED
      BY <3>1
  <2>5. CASE Report(w)
    <3>1. step'[w] = "done" /\ batchOf'[w] = e
      BY <1>3, <2>5, SoleGoes DEF Report
    <3>2. QED
      BY <3>1 DEF Through, Of
  <2>6. record' = record \/ Refuse(w) \/ SetPending(w) \/ SetExecuting(w)
        \/ GetOrCreate(w) \/ Report(w)
    BY DEF PreCreate, Start, CheckMarker, CheckRecords, Prepare, Cleanup,
       Crash, Deliver, Validate, Resume, RunTool, CheckDuplicate, GuardWrite,
       AcquireLock, WaitForLock, SetStage, WriteOutput, ReleaseLock,
       RecordHistory, MarkDelivered, Finalize, Complete, database
  <2>7. QED
    BY <1>2, <2>2, <2>3, <2>4, <2>5, <2>6
<1>4. QED
  BY <1>2, <1>3

\* The marker is deleted by a worker whose file is active, or that is through.
LEMMA GuardStays ==
    ASSUME FileTypeOK, AllWrite, Discovered, SoleInv, CalmInv, Calm,
           NEW w \in Worker, PreCreate(w) \/ Deliver(w),
           faults' \subseteq {"lock", "tracker", "lookup"},
           NEW e \in Admitted
    PROVE  Guarded(e)'
<1>1. WorkerStep(w) /\ e \in Exec /\ Guarded(e)
  BY PreCreateIsWorkerStep, DeliverIsWorkerStep DEF Admitted, CalmInv
<1>2. CASE Through(e)
  BY <1>1, <1>2, ThroughStays DEF Guarded
<1>3. CASE record[e] \in Active
  BY <1>1, <1>3, ActiveUntilThrough DEF Guarded
<1>4. CASE marker = e /\ marker' = marker
  BY <1>4 DEF Guarded
<1>5. CASE marker = e /\ marker' # marker /\ ~Through(e)
  <2>1. Cleanup(w)
    BY <1>5 DEF PreCreate, Start, CheckMarker, CheckRecords, GetOrCreate,
       Refuse, Prepare, SetPending, Crash, Deliver, Validate, SetExecuting,
       Resume, RunTool, CheckDuplicate, GuardWrite, AcquireLock, WaitForLock,
       SetStage, WriteOutput, ReleaseLock, RecordHistory, MarkDelivered,
       Finalize, Complete, Report
  <2>2. step[w] = "cleanup" /\ Begun(w)
    BY <2>1 DEF Cleanup, Begun
  <2>3. batchOf[w] = e
    <3>1. batchOf[w] \in Admitted /\ ~Through(batchOf[w])
      BY <2>2, WorkingIsNotThrough DEF Discovered, BegunIsAdmitted
    <3>2. QED
      BY <1>5, <3>1, OneAtATime
  <2>4. CASE note[w] = "go"
    <3>1. RecordAt(w)
      BY <2>2, SoleOnPg DEF SoleInv, Calm
    <3>2. record[e] = "PENDING"
      BY <2>2, <2>3, <2>4, <3>1 DEF RecordAt
    <3>3. QED
      BY <1>3, <3>2 DEF Active
  <2>5. CASE note[w] # "go"
    <3>1. step'[w] = "done" /\ batchOf'[w] = e
      BY <2>1, <2>3, <2>5, SoleGoes DEF Cleanup
    <3>2. QED
      BY <3>1 DEF Guarded, Through, Of
  <2>6. QED
    BY <2>4, <2>5
<1>6. QED
  BY <1>1, <1>2, <1>3, <1>4, <1>5 DEF Guarded

\* While one execution works past the guard, no other has delivered.
LEMMA AloneBeforeHistory ==
    ASSUME FileTypeOK, AllWrite, Discovered, CalmInv, Calm,
           NEW w \in Worker, step[w] \in Running,
           NEW v \in Delivered, batchOf[v] # batchOf[w]
    PROVE  history = "COMPLETED"
<1>1. Begun(w) /\ step[w] # "done"
  BY DEF Begun, Running, PreCreateSteps, DeliverySteps
<1>2. v \in Worker /\ Begun(v)
  BY DEF Delivered, AllWrite, Writes, Begun, AfterWrite
<1>3. /\ batchOf[w] \in Admitted /\ batchOf[v] \in Admitted
      /\ ~Through(batchOf[w])
  BY <1>1, <1>2, WorkingIsNotThrough DEF Discovered, BegunIsAdmitted
<1>4. Through(batchOf[v])
  BY <1>3, OneAtATime
<1>5. step[v] = "done"
  BY <1>2, <1>4, WorkingIsNotThrough
<1>6. QED
  BY <1>5 DEF CalmInv, InHistory, Recorded

LEMMA HistoryStays ==
    ASSUME FileTypeOK, AllWrite, Discovered, SoleInv, CalmInv, Calm,
           NEW w \in Worker, PreCreate(w) \/ Deliver(w),
           faults' \subseteq {"lock", "tracker", "lookup"}
    PROVE  InHistory'
<1> DEFINE e == batchOf[w]
<1>1. WorkerStep(w) /\ e \in Exec
  BY PreCreateIsWorkerStep, DeliverIsWorkerStep DEF FileTypeOK, TypeOK
<1>2. InHistory /\ batchOf' = batchOf
  BY <1>1 DEF CalmInv, WorkerStep
<1>3. CASE /\ Delivered' = Delivered /\ history' = history
           /\ {step[w], step'[w]} \cap {"release", "history"} = {}
           /\ step'[w] \in PastGuard \ {"lock"} => step[w] \in PastGuard
           /\ step'[w] = "lock" => step[w] = "guard" /\ GuardWrite(w)
  <2>1. \A v \in Delivered : Recorded(v)
    BY <1>2 DEF InHistory
  <2>2. \A v \in Delivered' : Recorded(v)'
    BY <1>1, <1>3, <2>1 DEF WorkerStep, Delivered, Recorded
  <2>3. ASSUME NEW u \in Worker, step'[u] \in PastGuard, NEW v \in Delivered'
        PROVE  batchOf'[v] = batchOf'[u]
    <3>1. CASE step[u] \in PastGuard
      BY <1>2, <1>3, <2>3, <3>1 DEF InHistory
    <3>2. CASE step[u] \notin PastGuard
      <4>1. u = w /\ GuardWrite(w) /\ step'[w] = "lock"
        BY <1>1, <1>3, <2>3, <3>2 DEF WorkerStep
      <4>2. step[w] \in Running
        BY <4>1 DEF GuardWrite, Running, DeliverySteps
      <4>3. ~(e \in pg /\ history = "COMPLETED")
        BY <4>1, SoleGoes DEF GuardWrite, Skip, Fault
      <4>4. e \in pg
        BY <4>2 DEF Discovered, BegunIsAdmitted, Calm, Begun, Running,
           PreCreateSteps, DeliverySteps
      <4>5. QED
        BY <1>2, <1>3, <2>3, <4>1, <4>2, <4>3, <4>4, AloneBeforeHistory
    <3>3. QED
      BY <3>1, <3>2
  <2>4. QED
    BY <1>2, <1>3, <2>2, <2>3 DEF InHistory
<1>4. CASE WriteOutput(w)
  <2>1. step[w] = "write" /\ history' = history
    BY <1>4 DEF WriteOutput, database
  <2>2. \A v \in Delivered : batchOf[v] = e
    BY <1>2, <2>1 DEF InHistory, PastGuard
  <2>3. Delivered' \subseteq Delivered \cup {w}
    BY <1>1 DEF WorkerStep, Delivered
  <2>4. \A v \in Delivered' \ {w} : Recorded(v)'
    BY <1>1, <1>2, <2>1, <2>3 DEF InHistory, WorkerStep, Delivered, Recorded
  <2>5. w \in Delivered' => step'[w] = "release" /\ note'[w] = "ok"
    <3>1. wrote[w] = "none"
      BY <2>1 DEF AllWrite, Writes, AfterWrite
    <3>2. CASE /\ wrote' = [wrote EXCEPT ![w] = IF note[w] = "ok"
                                                 THEN "data" ELSE "error"]
               /\ Goto(w, "release", note[w])
      BY <3>2, SoleGoes DEF Delivered, FileTypeOK
    <3>3. CASE UNCHANGED wrote
      BY <3>1, <3>3 DEF Delivered
    <3>4. QED
      BY <1>4, <3>2, <3>3 DEF WriteOutput
  <2>6. ASSUME NEW u \in Worker, step'[u] \in PastGuard, NEW v \in Delivered'
        PROVE  batchOf'[v] = batchOf'[u]
    <3>1. batchOf[v] = e
      BY <2>2, <2>3
    <3>2. CASE u = w
      BY <1>2, <3>1, <3>2
    <3>3. CASE u # w
      <4>1. step[u] \in PastGuard
        BY <1>1, <2>6, <3>3 DEF WorkerStep
      <4>2. /\ Begun(u) /\ step[u] # "done" /\ Begun(w) /\ step[w] # "done"
        BY <2>1, <4>1 DEF Begun, PastGuard
      <4>3. /\ batchOf[u] \in Admitted /\ batchOf[w] \in Admitted
            /\ ~Through(batchOf[u]) /\ ~Through(batchOf[w])
        BY <4>2, WorkingIsNotThrough DEF Discovered, BegunIsAdmitted
      <4>4. batchOf[u] = batchOf[w]
        BY <4>3, OneAtATime
      <4>5. QED
        BY <1>2, <3>1, <4>4
    <3>4. QED
      BY <3>2, <3>3
  <2>7. QED
    BY <1>2, <2>2, <2>3, <2>4, <2>5, <2>6 DEF InHistory, Recorded
<1>5. CASE ReleaseLock(w)
  <2>1. step[w] = "release" /\ history' = history /\ wrote' = wrote
        /\ Goto(w, "history", note[w])
    BY <1>5 DEF ReleaseLock, database
  <2>2. step'[w] = "history" /\ note'[w] = note[w] /\ Delivered' = Delivered
    BY <2>1, SoleGoes DEF Delivered
  <2>3. \A v \in Delivered' : Recorded(v)'
    BY <1>1, <1>2, <2>1, <2>2 DEF InHistory, WorkerStep, Delivered, Recorded
  <2>4. \A u \in Worker : step'[u] \in PastGuard => step[u] \in PastGuard
    BY <1>1, <2>1 DEF WorkerStep, PastGuard
  <2>5. QED
    BY <1>2, <2>2, <2>3, <2>4 DEF InHistory
<1>6. CASE RecordHistory(w)
  <2>1. /\ step[w] = "history" /\ wrote' = wrote
        /\ history' = IF note[w] = "failed" THEN "ERROR" ELSE "COMPLETED"
        /\ Goto(w, IF note[w] = "ok" THEN "mark" ELSE "finalize", note[w])
    BY <1>6 DEF RecordHistory, HistoryStatus, Fault
  <2>2. step'[w] \in {"mark", "finalize"} /\ Delivered' = Delivered
    BY <2>1, SoleGoes DEF Delivered
  <2>3. ASSUME note[w] = "failed", NEW v \in Delivered
        PROVE  FALSE
    <3>1. batchOf[v] = e /\ v \in Worker /\ wrote[v] = "data"
      BY <1>2, <2>1 DEF InHistory, PastGuard, Delivered
    <3>2. Begun(v) /\ Begun(w)
      BY <2>1, <3>1 DEF AllWrite, Writes, AfterWrite, Begun
    <3>3. v = w
      BY <3>1, <3>2, SoleOnPg DEF Sole, Of
    <3>4. note[w] = "ok"
      BY <1>2, <2>1, <3>3 DEF InHistory, Recorded
    <3>5. QED
      BY <2>3, <3>4
  <2>4. \A u \in Worker : step'[u] \in PastGuard => step[u] \in PastGuard
    BY <1>1, <2>2 DEF WorkerStep, PastGuard
  <2>5. QED
    <3>1. \A v \in Delivered' : Recorded(v)'
      <4>1. CASE note[w] # "failed"
        BY <1>1, <1>2, <2>1, <2>2, <4>1 DEF InHistory, WorkerStep, Delivered,
           Recorded
      <4>2. CASE note[w] = "failed"
        BY <2>2, <2>3, <4>2
      <4>3. QED
        BY <4>1, <4>2
    <3>2. QED
      BY <1>2, <2>2, <2>4, <3>1 DEF InHistory
<1>7. CASE PreCreate(w)
  <2>1. PICK s, n : Goto(w, s, n) /\ s \notin PastGuard
    BY <1>7 DEF PreCreate, Start, CheckMarker, CheckRecords, GetOrCreate,
       Refuse, Prepare, SetPending, Cleanup, Crash, PastGuard
  <2>2. /\ wrote' = wrote /\ history' = history
        /\ step[w] \notin {"release", "history"}
    BY <1>7, faults' \subseteq {"lock", "tracker", "lookup"}
       DEF PreCreate, Start, CheckMarker, CheckRecords, GetOrCreate, Refuse,
           Prepare, SetPending, Cleanup, Crash, WriteRecord, Fault, database
  <2>3. QED
    BY <1>3, <2>1, <2>2, SoleGoes DEF Delivered, PastGuard
<1>8. CASE \/ Validate(w) \/ SetExecuting(w) \/ Resume(w) \/ RunTool(w)
           \/ CheckDuplicate(w) \/ MarkDelivered(w) \/ Finalize(w)
           \/ Complete(w) \/ Report(w)
  <2>1. PICK s, n : Goto(w, s, n) /\ s \notin PastGuard
    BY <1>8 DEF Validate, SetExecuting, Resume, SetUp, RunTool,
       CheckDuplicate, MarkDelivered, Finalize, Complete, Report, Skip,
       PastGuard
  <2>2. /\ wrote' = wrote /\ history' = history
        /\ step[w] \notin {"release", "history"}
    BY <1>8 DEF Validate, SetExecuting, Resume, RunTool, CheckDuplicate,
       MarkDelivered, Finalize, Complete, Report, WriteRecord, database
  <2>3. QED
    BY <1>3, <2>1, <2>2, SoleGoes DEF Delivered, PastGuard
<1>9. CASE GuardWrite(w)
  <2>1. PICK s, n : Goto(w, s, n) /\ s \notin PastGuard \ {"lock"}
    BY <1>9 DEF GuardWrite, Skip, PastGuard
  <2>2. wrote' = wrote /\ history' = history /\ step[w] = "guard"
    BY <1>9 DEF GuardWrite, database
  <2>3. QED
    BY <1>3, <1>9, <2>1, <2>2, SoleGoes DEF Delivered, PastGuard
<1>10. CASE AcquireLock(w) \/ WaitForLock(w) \/ SetStage(w)
  <2>1. PICK s, n : Goto(w, s, n) /\ s \notin {"lock", "release", "history"}
    BY <1>10 DEF AcquireLock, WaitForLock, SetStage, Lock, Skip
  <2>2. /\ wrote' = wrote /\ history' = history
        /\ step[w] \in {"lock", "wait", "stage"}
    BY <1>10 DEF AcquireLock, WaitForLock, SetStage, database
  <2>3. QED
    BY <1>3, <2>1, <2>2, SoleGoes DEF Delivered, PastGuard
<1>11. QED
  BY <1>4, <1>5, <1>6, <1>7, <1>8, <1>9, <1>10 DEF Deliver

LEMMA WorkerKeepsCalm ==
    ASSUME FileTypeOK, AllWrite, Discovered, SoleInv, CalmInv,
           NEW w \in Worker, PreCreate(w) \/ Deliver(w)
    PROVE  CalmInv'
<1>1. SUFFICES ASSUME Calm'
               PROVE  /\ \A e \in Admitted' : Guarded(e)'
                      /\ \A f \in Exec : Waited(f)'
                      /\ InHistory'
  BY DEF CalmInv
<1>2. WorkerStep(w)
  BY PreCreateIsWorkerStep, DeliverIsWorkerStep
<1>3. /\ scan' = scan /\ ahead' = ahead /\ pg' = pg /\ Admitted' = Admitted
      /\ faults \subseteq faults'
  BY <1>2 DEF WorkerStep, discovery, Admitted
<1>4. Calm /\ faults' \subseteq {"lock", "tracker", "lookup"}
  BY <1>1, <1>3, CalmBefore DEF Calm
<1>5. \A e \in Admitted' : Guarded(e)'
  BY <1>3, <1>4, GuardStays
<1>6. ASSUME NEW f \in Exec PROVE Waited(f)'
  <2>1. SUFFICES ASSUME NEW e \in ahead[f]
                 PROVE  /\ scan[f] \in {"mark", "admitted"} => Through(e)'
                        /\ scan[f] = "records" =>
                              Through(e)' \/ record'[e] \in Active
    BY <1>3 DEF Waited
  <2>2. e \in Exec /\ Waited(f)
    BY <1>4 DEF FileTypeOK, TypeOK, CalmInv
  <2>3. Through(e) => Through(e)'
    BY <1>2, <2>2, ThroughStays
  <2>4. record[e] \in Active => record'[e] \in Active \/ Through(e)'
    BY <1>4, <2>2, ActiveUntilThrough
  <2>5. QED
    BY <2>2, <2>3, <2>4 DEF Waited
<1>7. InHistory'
  BY <1>4, HistoryStays
<1>8. QED
  BY <1>5, <1>6, <1>7

LEMMA DiscoverKeepsCalm ==
    ASSUME FileTypeOK, AllWrite, Discovered, CalmInv,
           NEW e \in Exec, Discover(e)
    PROVE  CalmInv'
<1>1. SUFFICES ASSUME Calm'
               PROVE  /\ \A f \in Admitted' : Guarded(f)'
                      /\ \A f \in Exec : Waited(f)'
                      /\ InHistory'
  BY DEF CalmInv
<1>2. /\ UNCHANGED <<pg, history, tracker, batch, lock, wrote>>
      /\ faults \subseteq faults'
      /\ \A f \in Exec \ {e} : /\ scan'[f] = scan[f]
                               /\ ahead'[f] = ahead[f]
                               /\ record'[f] = record[f]
      /\ e \in Admitted => UNCHANGED <<scan, ahead, marker>>
      /\ e \notin Admitted => UNCHANGED <<record, ended>>
      /\ Admitted \subseteq Admitted'
      /\ Admitted' \subseteq Admitted \cup {e}
  BY DiscoverLeaves
<1>3. \A f \in Admitted : ahead'[f] = ahead[f]
  BY <1>2 DEF Admitted
<1>4. Calm /\ faults' \subseteq {"lock", "tracker", "lookup"}
  BY <1>1, <1>2, <1>3, CalmBefore DEF Calm
<1>5. \A f \in Exec : Through(f)' <=> Through(f)
  BY <1>2 DEF Through, Of, batch
<1>6. InHistory'
  BY <1>2, <1>4 DEF CalmInv, InHistory, Recorded, Delivered, batch
<1>7. record' = record
  <2>1. ASSUME RecoverExecution(e) PROVE FALSE
    <3>1. \E w \in Worker : step[w] = "dead"
      BY <2>1 DEF RecoverExecution
    <3>2. QED
      BY <1>4, <3>1 DEF Discovered, EndsAfterWorker, Calm
  <2>2. QED
    BY <2>1 DEF Discover, ReadHistory, FilterMarker, FilterRecords, Mark,
       EndExecution, database
<1>8. ASSUME NEW f \in Exec \ {e} PROVE Waited(f)'
  BY <1>2, <1>4, <1>5, <1>7 DEF CalmInv, Waited, FileTypeOK, TypeOK
<1>9. \A f \in ahead[e] : f \in Exec /\ f \in Admitted
  BY DEF Discovered, BegunIsAdmitted, Admitted
<1>10. CASE Mark(e)
  <2>1. /\ scan[e] = "mark" /\ marker' = e /\ ahead' = ahead
        /\ scan' = [scan EXCEPT ![e] = "admitted"]
    BY <1>4, <1>10 DEF Mark, Fault
  <2>2. e \notin Admitted /\ scan'[e] = "admitted" /\ e \in Admitted'
    BY <2>1 DEF Admitted, FileTypeOK, TypeOK
  <2>3. Waited(e)'
    BY <1>4, <1>5, <1>9, <2>1, <2>2 DEF CalmInv, Waited
  <2>4. ASSUME NEW f \in Admitted PROVE Guarded(f)'
    <3>1. f \in Admitted' /\ f # e /\ f \in Exec
      BY <1>2, <2>2 DEF Admitted
    <3>2. f \in ahead'[e] \/ e \in ahead'[f]
      BY <1>1, <2>2, <3>1 DEF Calm, Crossing
    <3>3. e \notin ahead[f]
      BY <2>2, <3>1 DEF Discovered, BegunIsAdmitted
    <3>4. Through(f)
      BY <1>4, <2>1, <3>2, <3>3 DEF CalmInv, Waited
    <3>5. QED
      BY <1>5, <3>1, <3>4 DEF Guarded
  <2>5. Guarded(e)'
    BY <2>1 DEF Guarded
  <2>6. QED
    BY <1>2, <1>6, <1>8, <2>3, <2>4, <2>5
<1>11. ASSUME ~Mark(e), Waited(e)' PROVE \A f \in Admitted' : Guarded(f)'
  <2>1. Admitted' = Admitted /\ marker' = marker
    <3>1. CASE FilterRecords(e)
      <4>1. PICK stage \in {"refused", "mark"} : Pass(e, stage)
        <5>1. CASE ActiveRecord(e)
          BY <3>1, <5>1 DEF FilterRecords
        <5>2. CASE ~ActiveRecord(e)
          BY <3>1, <5>2 DEF FilterRecords
        <5>3. QED
          BY <5>1, <5>2
      <4>2. QED
        BY <3>1, <4>1 DEF FilterRecords, Pass, Admitted, FileTypeOK, TypeOK
    <3>2. CASE ~FilterRecords(e)
      BY <1>11, <3>2 DEF Discover, ReadHistory, FilterMarker, Pass,
         EndExecution, RecoverExecution, Admitted, discovery, FileTypeOK,
         TypeOK
    <3>3. QED
      BY <3>1, <3>2
  <2>2. \A f \in Admitted : f \in Exec /\ Guarded(f)
    BY <1>4 DEF CalmInv, Admitted
  <2>3. QED
    BY <1>5, <1>7, <2>1, <2>2 DEF Guarded
<1>12. CASE ReadHistory(e)
  <2>1. scan'[e] \in {"refused", "filter"}
    BY <1>12 DEF ReadHistory, FileTypeOK, TypeOK
  <2>2. ~Mark(e)
    BY <1>12 DEF ReadHistory, Mark
  <2>3. Waited(e)'
    BY <2>1 DEF Waited
  <2>4. QED
    BY <1>6, <1>8, <1>11, <2>2, <2>3
<1>13. CASE FilterMarker(e)
  <2>1. /\ scan[e] = "filter" /\ ahead' = [ahead EXCEPT ![e] = Admitted]
        /\ Pass(e, IF MarkedByOther(e) THEN "refused" ELSE "records")
    BY <1>4, <1>13 DEF FilterMarker, Fault
  <2>2. /\ ahead'[e] = Admitted /\ scan'[e] \in {"refused", "records"}
        /\ scan'[e] = "records" => ~MarkedByOther(e)
        /\ e \notin Admitted /\ ~Mark(e)
    BY <2>1 DEF Pass, Admitted, Mark, FileTypeOK, TypeOK
  <2>3. ASSUME NEW f \in Admitted, scan'[e] = "records"
        PROVE  Through(f) \/ record[f] \in Active
    <3>1. marker # f
      BY <2>2, <2>3, ActiveFilesAssumption DEF MarkedByOther, Admitted
    <3>2. QED
      BY <1>4, <3>1 DEF CalmInv, Guarded
  <2>4. Waited(e)'
    BY <1>5, <1>7, <2>2, <2>3 DEF Waited, Admitted
  <2>5. QED
    BY <1>6, <1>8, <1>11, <2>2, <2>4
<1>14. CASE FilterRecords(e)
  <2>1. /\ scan[e] = "records" /\ ahead' = ahead
        /\ Pass(e, IF ActiveRecord(e) THEN "refused" ELSE "mark")
    BY <1>4, <1>14 DEF FilterRecords, Fault
  <2>2. /\ ActiveRecord(e) => scan'[e] = "refused"
        /\ ~ActiveRecord(e) => scan'[e] = "mark"
        /\ ~Mark(e)
    <3>1. CASE ActiveRecord(e)
      BY <2>1, <3>1 DEF Pass, Mark, FileTypeOK, TypeOK
    <3>2. CASE ~ActiveRecord(e)
      BY <2>1, <3>2 DEF Pass, Mark, FileTypeOK, TypeOK
    <3>3. QED
      BY <3>1, <3>2
  <2>3. ASSUME NEW f \in ahead[e], ~ActiveRecord(e)
        PROVE  Through(f)
    <3>1. f \in Exec /\ f \in Admitted /\ f # e
      BY <1>9, <2>1 DEF Admitted
    <3>2. Through(f) \/ record[f] \in Active
      BY <1>4, <2>1 DEF CalmInv, Waited
    <3>3. f \in ended => Through(f)
      <4>1. f \in ended => \E w \in Of(f) : step[w] \in {"done", "dead"}
        BY DEF Discovered, EndsAfterWorker
      <4>2. \A w \in Worker : step[w] # "dead"
        BY <1>4 DEF Discovered, EndsAfterWorker, Calm
      <4>3. QED
        BY <4>1, <4>2 DEF Through, Of
    <3>4. QED
      BY <2>3, <3>1, <3>2, <3>3 DEF ActiveRecord
  <2>4. Waited(e)'
    <3>1. CASE ActiveRecord(e)
      BY <2>2, <3>1 DEF Waited
    <3>2. CASE ~ActiveRecord(e)
      BY <1>5, <1>9, <2>1, <2>2, <2>3, <3>2 DEF Waited
    <3>3. QED
      BY <3>1, <3>2
  <2>5. QED
    BY <1>6, <1>8, <1>11, <2>2, <2>4
<1>15. CASE EndExecution(e) \/ RecoverExecution(e)
  <2>1. UNCHANGED <<scan, ahead, marker>> /\ ~Mark(e)
    BY <1>15 DEF EndExecution, RecoverExecution, discovery, Mark, Admitted
  <2>2. Waited(e)'
    BY <1>4, <1>5, <1>7, <1>9, <2>1 DEF CalmInv, Waited
  <2>3. QED
    BY <1>6, <1>8, <1>11, <2>1, <2>2
<1>16. QED
  BY <1>10, <1>12, <1>13, <1>14, <1>15 DEF Discover

LEMMA LapseKeepsCalm ==
    ASSUME FileTypeOK, Discovered, CalmInv, Lapse
    PROVE  CalmInv'
<1>1. SUFFICES ASSUME Calm'
               PROVE  /\ \A f \in Admitted' : Guarded(f)'
                      /\ \A f \in Exec : Waited(f)'
                      /\ InHistory'
  BY DEF CalmInv
<1>2. /\ UNCHANGED <<discovery, database, batch, wrote>>
      /\ faults \subseteq faults'
      /\ marker' = marker
      /\ Admitted' = Admitted
  BY <1>1, LapseLeaves DEF Calm, discovery, Admitted
<1>3. /\ UNCHANGED <<pg, scan, ahead, record, history, step, note, batchOf>>
      /\ Delivered' = Delivered
      /\ \A f \in Exec : Through(f)' <=> Through(f)
  BY <1>2 DEF discovery, database, batch, Delivered, Through, Of
<1>4. Calm
  BY <1>1, <1>2, <1>3, CalmBefore
<1>5. \A f \in Admitted : f \in Exec
  BY DEF Admitted
<1>6. \A f \in Exec : \A e \in ahead[f] : e \in Exec
  BY DEF FileTypeOK, TypeOK
<1>7. \A f \in Admitted' : Guarded(f)'
  BY <1>2, <1>3, <1>4, <1>5 DEF CalmInv, Guarded
<1>8. \A f \in Exec : Waited(f)'
  BY <1>2, <1>3, <1>4, <1>6 DEF CalmInv, Waited
<1>9. InHistory'
  BY <1>2, <1>3, <1>4 DEF CalmInv, InHistory, Recorded
<1>10. QED
  BY <1>7, <1>8, <1>9

-----------------------------------------------------------------------------
GuardInv == FileInv /\ Discovered /\ SoleInv /\ CalmInv

LEMMA InitHasGuardInv == FileInit => GuardInv
<1> SUFFICES ASSUME FileInit PROVE GuardInv
  OBVIOUS
<1>1. FileInv
  BY InitHasInv
<1>2. /\ \A w \in Worker : step[w] = "idle" /\ wrote[w] = "none"
      /\ Admitted = {} /\ ended = {} /\ marker = Nobody
      /\ \A e \in Exec : /\ scan[e] = "off" /\ ahead[e] = {}
                         /\ record[e] = "none" /\ tracker[e] = NoTrack
                         /\ lock[e] = Nobody
  BY DEF FileInit, Init, Admitted
<1>3. Discovered
  BY <1>2 DEF Discovered, BegunIsAdmitted, UntouchedBefore, Untouched,
     EndsAfterWorker, OneRunsOnPg, Begun, Of
<1>4. SoleInv
  BY <1>2 DEF SoleInv, Sole, Begun
<1>5. CalmInv
  BY <1>2 DEF CalmInv, Waited, InHistory, Delivered, PastGuard
<1>6. QED
  BY <1>1, <1>3, <1>4, <1>5 DEF GuardInv

LEMMA StepKeepsGuardInv ==
    ASSUME GuardInv, [FileNext]_fileVars
    PROVE  GuardInv'
<1>1. /\ FileInv /\ Discovered /\ SoleInv /\ CalmInv
      /\ FileTypeOK /\ AllWrite /\ Grounded
  BY DEF GuardInv, FileInv, AllWrite
<1>2. FileInv'
  BY <1>1, StepKeepsInv
<1>3. SoleInv'
  BY <1>1, StepKeepsSole
<1>4. Discovered' /\ CalmInv'
  <2>1. CASE \E w \in Worker : PreCreate(w) \/ Deliver(w)
    BY <1>1, <2>1, WorkerKeepsDiscovered, WorkerKeepsCalm
  <2>2. CASE \E e \in Exec : Discover(e)
    BY <1>1, <2>2, DiscoverKeepsDiscovered, DiscoverKeepsCalm
  <2>3. CASE Lapse
    BY <1>1, <2>3, LapseKeepsDiscovered, LapseKeepsCalm
  <2>4. QED
    BY <2>1, <2>2, <2>3, StepKinds
<1>5. QED
  BY <1>2, <1>3, <1>4 DEF GuardInv

LEMMA GuardsAlways == FileSpec => []GuardInv
BY InitHasGuardInv, StepKeepsGuardInv, PTL DEF FileSpec

(***************************************************************************)
(* However many executions discover a file over the Postgres queue, one    *)
(* delivers it, when each saw the markers of those before it               *)
(* (_check_active_files_batch, _pre_create_file_executions) and nothing    *)
(* but the lock and the tracker failed (a set-up that failed may enter     *)
(* COMPLETED, which keeps others out too): an execution that took the file *)
(* has it marked or active in its record until it is through, another      *)
(* takes it only then, and finds it in file history.                       *)
(***************************************************************************)
THEOREM FileIsDeliveredOnce == FileSpec => []OneExecutionDelivers
<1>1. GuardInv => OneExecutionDelivers
  BY DEF GuardInv, CalmInv, Calm, InHistory, OneExecutionDelivers
<1>2. QED
  BY <1>1, GuardsAlways, PTL

(***************************************************************************)
(* When the only delivery of a batch is through, the record of its file    *)
(* has ended, unless another execution delivered the file, or entered a    *)
(* failed set-up as COMPLETED, or the status write failed                  *)
(* (_handle_file_processing_result): a worker that nobody doubles finds    *)
(* its record as it left it, no stage of another and the lock free, so it  *)
(* reaches its report.                                                     *)
(***************************************************************************)
THEOREM RecordsEnd == FileSpec => []NoFileLeftActive
<1>1. ASSUME GuardInv PROVE NoFileLeftActive
  <2>1. SUFFICES ASSUME NEW w \in Worker, step[w] = "done",
                        record[batchOf[w]] \in Active,
                        ~Redelivered(batchOf[w]), "status" \notin faults
                 PROVE  \E v \in Delivered \cup Misrecorded :
                            batchOf[v] # batchOf[w]
    BY DEF NoFileLeftActive
  <2>2. Sole(w)
    BY <2>1 DEF Redelivered, Sole, Of, Begun
  <2>3. DoneAt(w)
    BY <1>1, <2>1, <2>2 DEF GuardInv, SoleInv
  <2>4. QED
    BY <2>1, <2>3 DEF DoneAt, Entered
<1>2. QED
  BY <1>1, GuardsAlways, PTL

-----------------------------------------------------------------------------
(* Somebody handles the file.                                              *)

\* No worker dies and no call to the backend fails; every delivery of a batch
\* then goes on until it is through.
NoLoss == faults \cap {"crash", "status", "lookup"} = {}

\* A worker that writes the file or fails, and then says so.
Answers(w) ==
    \/ step[w] \in {"write"} \cup AfterWrite
    \/ /\ step[w] = "done"
       /\ note[w] \in {"failed", "setup"} \/ wrote[w] = "data"

Answered == \E w \in Worker : Answers(w)

\* ... or holds the lock and is about to.
InHand == \E w \in Worker : step[w] = "stage" \/ Answers(w)

\* A worker that left the file to another execution, or found it ended.
Turned(w) ==
    \/ step[w] = "create" /\ note[w] = "duplicate"
    \/ step[w] = "refuse"
    \/ step[w] \in {"cleanup", "done"} /\ note[w] = "stop"

\* What a worker remembers on its way.
NoteInv ==
    \A w \in Worker :
        /\ step[w] = "create" => note[w] \in {"free", "duplicate"}
        /\ step[w] = "cleanup" => note[w] \in {"go", "stop"}

\* A stage, a lock or a terminal record is the trace of a worker that answers
\* or that was turned away.
TraceInv ==
    NoLoss =>
        /\ \A e \in Exec : tracker[e].stage \in {"final", "completed"} =>
              Answered
        /\ \A e \in Exec : lock[e] # Nobody => InHand
        /\ \A w \in Worker : step[w] = "wait" => InHand
        /\ \A e \in Exec : record[e] \in Terminal =>
              InHand \/ \E w \in Of(e) : Turned(w)

LEMMA WorkerKeepsNotes ==
    ASSUME FileTypeOK, AllWrite, NoteInv, NEW w \in Worker,
           PreCreate(w) \/ Deliver(w)
    PROVE  NoteInv'
<1>1. WorkerStep(w)
  BY PreCreateIsWorkerStep, DeliverIsWorkerStep
<1>2. PICK s, n :
        /\ Goto(w, s, n)
        /\ s = "create" => n \in {"free", "duplicate"}
        /\ s = "cleanup" => n \in {"go", "stop"}
  <2>1. CASE CheckRecords(w)
    <3>1. CASE ActiveRecord(batchOf[w])
      BY <2>1, <3>1 DEF CheckRecords, AfterWrite
    <3>2. CASE ~ActiveRecord(batchOf[w])
      BY <2>1, <3>2 DEF CheckRecords, AfterWrite
    <3>3. QED
      BY <3>1, <3>2
  <2>2. CASE \/ Start(w) \/ CheckMarker(w) \/ GetOrCreate(w)
             \/ Refuse(w) \/ Prepare(w) \/ SetPending(w) \/ Cleanup(w)
             \/ Crash(w)
    BY <2>2 DEF Start, CheckMarker, GetOrCreate, Refuse, Prepare, SetPending,
       Cleanup, Crash, AfterWrite
  <2>3. CASE Deliver(w)
    BY <2>3 DEF Deliver, Validate, SetExecuting, Resume, SetUp, RunTool,
       CheckDuplicate, GuardWrite, AcquireLock, WaitForLock, SetStage,
       WriteOutput, ReleaseLock, RecordHistory, MarkDelivered, Finalize,
       Complete, Report, Skip, Lock
  <2>4. QED
    BY <2>1, <2>2, <2>3 DEF PreCreate
<1>3. step'[w] = s /\ note'[w] = n
  BY <1>2, SoleGoes
<1>4. QED
  BY <1>1, <1>2, <1>3 DEF NoteInv, WorkerStep

LEMMA AnswersStay ==
    ASSUME FileTypeOK, AllWrite, NoteInv, NEW w \in Worker,
           PreCreate(w) \/ Deliver(w), "crash" \notin faults',
           NEW v \in Worker, Answers(v)
    PROVE  Answers(v)'
<1>1. WorkerStep(w)
  BY PreCreateIsWorkerStep, DeliverIsWorkerStep
<1>2. CASE v # w
  BY <1>1, <1>2 DEF WorkerStep, Answers
<1>3. CASE v = w
  <2>1. step[w] \in {"write"} \cup AfterWrite
    BY <1>1, <1>3 DEF WorkerStep, Answers
  <2>2. note[w] \in {"ok", "failed", "setup"}
    BY <2>1 DEF AllWrite, Writes, PastTool
  <2>3. \/ WriteOutput(w) \/ ReleaseLock(w) \/ RecordHistory(w)
        \/ MarkDelivered(w) \/ Finalize(w) \/ Complete(w) \/ Report(w)
        \/ Crash(w)
    BY <2>1 DEF AfterWrite, PreCreate, Start, CheckMarker, CheckRecords,
       GetOrCreate, Refuse, Prepare, SetPending, Cleanup, Deliver, Validate,
       SetExecuting, Resume, RunTool, CheckDuplicate, GuardWrite,
       AcquireLock, WaitForLock, SetStage
  <2>4. CASE Report(w)
    <3>1. step'[w] = "done" /\ note'[w] = note[w] /\ wrote' = wrote
      BY <2>4, SoleGoes DEF Report
    <3>2. note[w] = "ok" => wrote[w] = "data"
      BY <2>4 DEF Report, AllWrite, Writes, AfterWrite
    <3>3. QED
      BY <1>3, <2>2, <3>1, <3>2 DEF Answers
  <2>5. CASE ~Report(w) /\ ~Crash(w)
    <3>1. PICK s, n : Goto(w, s, n) /\ s \in AfterWrite
      BY <2>3, <2>5 DEF WriteOutput, ReleaseLock, RecordHistory,
         MarkDelivered, Finalize, Complete, AfterWrite
    <3>2. step'[w] = s
      BY <3>1, SoleGoes
    <3>3. QED
      BY <1>3, <3>1, <3>2 DEF Answers
  <2>6. ~Crash(w)
    BY DEF Crash, Fault
  <2>7. QED
    BY <2>4, <2>5, <2>6
<1>4. QED
  BY <1>2, <1>3

LEMMA TurnedStays ==
    ASSUME FileTypeOK, AllWrite, NEW w \in Worker, PreCreate(w) \/ Deliver(w),
           "crash" \notin faults', NEW v \in Worker, Turned(v)
    PROVE  Turned(v)'
<1>1. WorkerStep(w)
  BY PreCreateIsWorkerStep, DeliverIsWorkerStep
<1>2. CASE v # w
  BY <1>1, <1>2 DEF WorkerStep, Turned
<1>3. CASE v = w
  <2>1. \/ step[w] = "create" /\ note[w] = "duplicate"
        \/ step[w] = "refuse"
        \/ step[w] = "cleanup" /\ note[w] = "stop"
    BY <1>1, <1>3 DEF WorkerStep, Turned
  <2>2. GetOrCreate(w) \/ Refuse(w) \/ Cleanup(w)
    BY <2>1 DEF PreCreate, Start, CheckMarker, CheckRecords, GetOrCreate,
       Refuse, Prepare, SetPending, Cleanup, Crash, Fault, Deliver, Validate,
       SetExecuting, Resume, RunTool, CheckDuplicate, GuardWrite,
       AcquireLock, WaitForLock, SetStage, WriteOutput, ReleaseLock,
       RecordHistory, MarkDelivered, Finalize, Complete, Report
  <2>3. \/ Goto(w, "refuse", "none") \/ Goto(w, "cleanup", "stop")
        \/ Goto(w, "done", "stop")
    BY <2>1, <2>2 DEF GetOrCreate, Refuse, Cleanup
  <2>4. QED
    BY <1>3, <2>3, SoleGoes DEF Turned
<1>4. QED
  BY <1>2, <1>3

\* A worker in the section goes on to write, unless another has answered.
LEMMA InHandStays ==
    ASSUME FileTypeOK, AllWrite, NoteInv, TraceInv, NEW w \in Worker,
           PreCreate(w) \/ Deliver(w), NoLoss', InHand
    PROVE  InHand'
<1>1. WorkerStep(w) /\ "crash" \notin faults'
  BY PreCreateIsWorkerStep, DeliverIsWorkerStep DEF NoLoss
<1>2. NoLoss
  BY <1>1 DEF WorkerStep, NoLoss
<1>3. PICK v \in Worker : step[v] = "stage" \/ Answers(v)
  BY DEF InHand
<1>4. CASE Answers(v)
  BY <1>1, <1>4, AnswersStay DEF InHand
<1>5. CASE step[v] = "stage" /\ v # w
  BY <1>1, <1>5 DEF WorkerStep, InHand
<1>6. CASE step[v] = "stage" /\ v = w
  <2>1. SetStage(w)
    BY <1>1, <1>6 DEF PreCreate, Start, CheckMarker, CheckRecords,
       GetOrCreate, Refuse, Prepare, SetPending, Cleanup, Crash, Fault,
       Deliver, Validate, SetExecuting, Resume, RunTool, CheckDuplicate,
       GuardWrite, AcquireLock, WaitForLock, WriteOutput, ReleaseLock,
       RecordHistory, MarkDelivered, Finalize, Complete, Report
  <2>2. CASE Goto(w, "write", note[w])
    BY <2>2, SoleGoes DEF InHand, Answers
  <2>3. CASE ~CanMove(batchOf[w], "dest")
    <3>1. batchOf[w] \in Exec /\ tracker[batchOf[w]].stage \in Stages
      BY DEF FileTypeOK, TypeOK, Tracks
    <3>2. tracker[batchOf[w]].stage \in {"final", "completed"}
      BY <2>3, <3>1 DEF CanMove, Rank, Stages
    <3>3. PICK u \in Worker : Answers(u)
      BY <1>2, <3>1, <3>2 DEF TraceInv, Answered
    <3>4. QED
      BY <1>1, <3>3, AnswersStay DEF InHand
  <2>4. QED
    BY <2>1, <2>2, <2>3 DEF SetStage
<1>7. QED
  BY <1>3, <1>4, <1>5, <1>6

LEMMA WorkerKeepsTrace ==
    ASSUME FileTypeOK, AllWrite, NoteInv, TraceInv, NEW w \in Worker,
           PreCreate(w) \/ Deliver(w)
    PROVE  TraceInv'
<1> DEFINE e == batchOf[w]
<1>1. SUFFICES ASSUME NoLoss'
               PROVE  /\ \A f \in Exec :
                            tracker'[f].stage \in {"final", "completed"}
                                => Answered'
                      /\ \A f \in Exec : lock'[f] # Nobody => InHand'
                      /\ \A v \in Worker : step'[v] = "wait" => InHand'
                      /\ \A f \in Exec : record'[f] \in Terminal =>
                            InHand' \/ \E v \in Of(f)' : Turned(v)'
  BY DEF TraceInv
<1>2. WorkerStep(w) /\ e \in Exec /\ "crash" \notin faults'
  BY <1>1, PreCreateIsWorkerStep, DeliverIsWorkerStep
     DEF NoLoss, FileTypeOK, TypeOK
<1>3. NoLoss
  BY <1>1, <1>2 DEF WorkerStep, NoLoss
<1>4. Answered => Answered'
  BY <1>2, AnswersStay DEF Answered
<1>5. InHand => InHand'
  BY <1>1, InHandStays
<1>6. Answers(w) => Answered' /\ InHand'
  BY <1>2, AnswersStay DEF Answered, InHand
<1>7. ASSUME NEW f \in Exec, tracker'[f].stage \in {"final", "completed"}
      PROVE  Answered'
  <2>1. CASE tracker'[f] = tracker[f]
    BY <1>3, <1>4, <1>7, <2>1 DEF TraceInv
  <2>2. CASE f = e /\ (Finalize(w) \/ Complete(w) \/ MarkDelivered(w))
    <3>1. Answers(w)
      BY <2>2 DEF Finalize, Complete, MarkDelivered, Answers, AfterWrite
    <3>2. QED
      BY <1>6, <3>1
  <2>3. CASE f = e /\ (Resume(w) \/ SetStage(w))
    <3>1. CASE UNCHANGED tracker
      BY <2>1, <3>1
    <3>2. CASE SetTrack(e, "init", "running") \/ SetTrack(e, "dest", "running")
      <4>1. tracker'[f].stage \in {"init", "dest"}
        BY <1>2, <2>3, <3>2 DEF SetTrack, FileTypeOK, TypeOK
      <4>2. QED
        BY <1>7, <4>1
    <3>3. QED
      BY <2>3, <3>1, <3>2 DEF Resume, SetUp, StartTrack, SetStage
  <2>4. CASE f # e
    BY <1>2, <2>1, <2>4 DEF WorkerStep
  <2>5. UNCHANGED tracker \/ Finalize(w) \/ Complete(w) \/ MarkDelivered(w)
        \/ Resume(w) \/ SetStage(w)
    BY DEF PreCreate, Start, CheckMarker, CheckRecords, GetOrCreate, Refuse,
       Prepare, SetPending, Cleanup, Crash, Deliver, Validate, SetExecuting,
       RunTool, CheckDuplicate, GuardWrite, AcquireLock, WaitForLock,
       WriteOutput, ReleaseLock, RecordHistory, Report
  <2>6. QED
    BY <2>1, <2>2, <2>3, <2>4, <2>5
<1>8. ASSUME NEW f \in Exec, lock'[f] # Nobody
      PROVE  InHand'
  <2>1. CASE Lock(w)
    <3>1. step'[w] = "stage"
      BY <2>1, SoleGoes DEF Lock
    <3>2. QED
      BY <3>1 DEF InHand
  <2>2. CASE lock[f] # Nobody
    BY <1>3, <1>5, <2>2 DEF TraceInv
  <2>3. Lock(w) \/ UNCHANGED lock \/ lock' = [lock EXCEPT ![e] = Nobody]
    BY DEF PreCreate, Deliver, Validate, SetExecuting, Resume, RunTool,
       CheckDuplicate, GuardWrite, AcquireLock, WaitForLock, SetStage,
       WriteOutput, ReleaseLock, RecordHistory, MarkDelivered, Finalize,
       Complete, Report
  <2>4. lock[f] = Nobody => Lock(w)
    BY <1>8, <2>3 DEF FileTypeOK
  <2>5. QED
    BY <2>1, <2>2, <2>4
<1>9. ASSUME NEW v \in Worker, step'[v] = "wait"
      PROVE  InHand'
  <2>1. CASE step[v] = "wait"
    BY <1>3, <1>5, <2>1 DEF TraceInv
  <2>2. CASE step[v] # "wait"
    <3>1. v = w
      BY <1>2, <1>9, <2>2 DEF WorkerStep
    <3>2. ~AcquireLock(w) => \E s, n : Goto(w, s, n) /\ s # "wait"
      BY DEF PreCreate, Start, CheckMarker, CheckRecords, GetOrCreate, Refuse,
         Prepare, SetPending, Cleanup, Crash, Deliver, Validate, SetExecuting,
         Resume, SetUp, RunTool, CheckDuplicate, GuardWrite, WaitForLock,
         SetStage, WriteOutput, ReleaseLock, RecordHistory, MarkDelivered,
         Finalize, Complete, Report, Skip, Lock
    <3>3. AcquireLock(w)
      BY <1>9, <3>1, <3>2, SoleGoes
    <3>4. lock[e] # Nobody
      BY <1>9, <3>1, <3>3, SoleGoes DEF AcquireLock, Lock
    <3>5. QED
      BY <1>2, <1>3, <1>5, <3>4 DEF TraceInv
  <2>3. QED
    BY <2>1, <2>2
<1>10. ASSUME NEW f \in Exec, record'[f] \in Terminal
       PROVE  InHand' \/ \E v \in Of(f)' : Turned(v)'
  <2>1. CASE record[f] \in Terminal
    <3>1. \A v \in Worker : Turned(v) => Turned(v)'
      BY <1>2, TurnedStays
    <3>2. Of(f)' = Of(f) /\ Of(f) \subseteq Worker
      BY <1>2 DEF WorkerStep, Of
    <3>3. QED
      BY <1>3, <1>5, <2>1, <3>1, <3>2 DEF TraceInv
  <2>2. CASE record[f] \notin Terminal
    <3>1. f = e /\ record' # record
      BY <1>2, <1>10, <2>2 DEF WorkerStep
    <3>2. CASE Report(w)
      <4>1. Answers(w)
        BY <3>2 DEF Report, Answers, AfterWrite
      <4>2. QED
        BY <1>6, <4>1
    <3>3. CASE Refuse(w)
      <4>1. step'[w] = "cleanup" /\ note'[w] = "stop" /\ batchOf'[w] = f
        BY <3>1, <3>3, SoleGoes DEF Refuse
      <4>2. QED
        BY <4>1 DEF Turned, Of
    <3>4. CASE GetOrCreate(w)
      BY <1>10, <2>2, <3>1, <3>4 DEF GetOrCreate, Terminal, FileTypeOK, TypeOK
    <3>5. CASE SetPending(w) \/ SetExecuting(w)
      BY <1>10, <2>2, <3>1, <3>5 DEF SetPending, SetExecuting, WriteRecord,
         Terminal, FileTypeOK, TypeOK
    <3>6. QED
      BY <3>1, <3>2, <3>3, <3>4, <3>5 DEF PreCreate, Start, CheckMarker,
         CheckRecords, Prepare, Cleanup, Crash, Deliver, Validate, Resume,
         RunTool, CheckDuplicate, GuardWrite, AcquireLock, WaitForLock,
         SetStage, WriteOutput, ReleaseLock, RecordHistory, MarkDelivered,
         Finalize, Complete, database
  <2>3. QED
    BY <2>1, <2>2
<1>11. QED
  BY <1>7, <1>8, <1>9, <1>10

\* The guards between the executions worked, or no batch of several
\* executions was delivered twice.
Unmixed == ~Crossing /\ faults \cap {"check", "marker"} = {}
Excused == ~Unmixed /\ \E e, f \in Admitted : e # f /\ Redelivered(e)
Usual == NoLoss /\ ~Excused

\* A worker that took the file and has not come to the lock.
Firm(w) ==
    \/ step[w] \in {"prepare", "pend", "validate", "execute", "resume",
                    "tool", "dupcheck", "guard", "lock"}
    \/ step[w] = "create" /\ note[w] = "free"
    \/ step[w] = "cleanup" /\ note[w] = "go"

Saved == InHand \/ \E w \in Worker : Firm(w)

\* None of the workers of an execution has decided yet.
Soft(e) == \A w \in Of(e) : step[w] \in {"idle", "check", "records"}

\* Where a worker counts on the record being active.
CountsOnRecord(w) ==
    \/ step[w] = "prepare" /\ note[w] = "EXECUTING"
    \/ step[w] = "cleanup" /\ note[w] = "go"
    \/ step[w] = "validate"

\* Until a worker has the file in hand, one that was turned away is the only
\* one of its execution, and has left the file to another execution; what
\* turns workers away, a marker or an active record, is of an execution that
\* took the file or may still take it.
LeftToAnother ==
    /\ \A w \in Worker : Turned(w) => Sole(w) /\ Admitted # {batchOf[w]}
    /\ \A w \in Worker : CountsOnRecord(w) => record[batchOf[w]] \in Active
    /\ \A w \in Worker : step[w] = "done" => Turned(w)
    /\ \A e \in Exec : record[e] \in Active => Saved
    /\ marker # Nobody => Soft(marker) \/ Saved
    /\ Admitted # {} => Saved \/ \E e \in Admitted : Soft(e)

\* ... and when the guards worked, no second execution took the file.
FirstComes ==
    /\ \A e \in Admitted : marker = e \/ record[e] \in Active
    /\ \A f \in Exec : \A e \in ahead[f] :
          /\ scan[f] \notin {"mark", "admitted"}
          /\ scan[f] = "records" => record[e] \in Active

HandledInv ==
    ~InHand => /\ Usual => LeftToAnother
               /\ NoLoss /\ Unmixed => FirstComes

LEMMA UsualBefore ==
    ASSUME FileTypeOK, Discovered, faults \subseteq faults',
           batchOf' = batchOf, Admitted \subseteq Admitted',
           \A e \in Admitted : ahead'[e] = ahead[e],
           \A v \in Worker : Begun(v) => Begun(v)'
    PROVE  /\ NoLoss' => NoLoss
           /\ Unmixed' => Unmixed
           /\ Usual' => Usual
<1>1. NoLoss' => NoLoss
  BY DEF NoLoss
<1>2. Unmixed' => Unmixed
  <2>1. Crossing => Crossing'
    <3>1. SUFFICES ASSUME Crossing PROVE Crossing'
      OBVIOUS
    <3>2. PICK e \in Admitted, f \in Admitted :
              e # f /\ e \notin ahead[f] /\ f \notin ahead[e]
      BY <3>1 DEF Crossing
    <3>3. QED
      BY <3>2 DEF Crossing
  <2>2. QED
    BY <2>1 DEF Unmixed
<1>3. \A e \in Admitted : Redelivered(e) => Redelivered(e)'
  BY DEF Redelivered, Begun
<1>4. Excused => Excused'
  BY <1>2, <1>3 DEF Excused
<1>5. QED
  BY <1>1, <1>2, <1>4 DEF Usual

\* While the guards work and nobody has the file in hand, one execution does.
LEMMA OneTook ==
    ASSUME FileTypeOK, Discovered, HandledInv, NoLoss, Unmixed, ~InHand,
           NEW e \in Admitted, NEW f \in Admitted
    PROVE  e = f
<1>1. SUFFICES ASSUME e # f PROVE FALSE
  OBVIOUS
<1>2. /\ e \in Exec /\ f \in Exec
      /\ scan[e] = "admitted" /\ scan[f] = "admitted"
  BY DEF Admitted
<1>3. e \in ahead[f] \/ f \in ahead[e]
  BY <1>1 DEF Unmixed, Crossing
<1>4. FirstComes
  BY DEF HandledInv
<1>5. QED
  BY <1>2, <1>3, <1>4 DEF FirstComes

\* A batch of one of several executions has one delivery.
LEMMA OneDelivery ==
    ASSUME FileTypeOK, Discovered, HandledInv, Usual, ~InHand,
           NEW e \in Admitted, NEW f \in Admitted, e # f
    PROVE  ~Redelivered(e)
<1>1. ~Unmixed
  BY OneTook DEF Usual
<1>2. QED
  BY <1>1 DEF Usual, Excused

LEMMA OneIsSole ==
    ASSUME NEW w \in Worker, Begun(w), ~Redelivered(batchOf[w])
    PROVE  Sole(w)
BY DEF Redelivered, Sole, Of, Begun

LEMMA ActiveIsAdmitted ==
    ASSUME FileTypeOK, Discovered, NEW e \in Exec, record[e] \in Active
    PROVE  e \in Admitted
<1>1. PICK w \in Of(e) : Begun(w)
  BY DEF Discovered, UntouchedBefore, Untouched, Active
<1>2. QED
  BY <1>1 DEF Discovered, BegunIsAdmitted, Of

\* Nobody has delivered, finished or locked a file that nobody has in hand.
LEMMA NothingInHand ==
    ASSUME FileTypeOK, AllWrite, Grounded, TraceInv, NoLoss,
           Discovered, ~InHand
    PROVE  /\ Delivered = {} /\ history # "COMPLETED"
           /\ \A e \in Exec : /\ tracker[e].status # "success"
                              /\ tracker[e].stage \notin {"final", "completed"}
                              /\ lock[e] = Nobody
           /\ \A w \in Worker : /\ step[w] \notin {"wait", "stage", "write"}
                                /\ step[w] \notin AfterWrite
<1>1. ASSUME NEW w \in Delivered PROVE FALSE
  <2>1. w \in Worker /\ wrote[w] = "data"
    BY DEF Delivered
  <2>2. step[w] \in AfterWrite \cup {"done", "dead"}
    BY <2>1 DEF AllWrite, Writes
  <2>3. step[w] # "dead"
    BY <2>1 DEF Discovered, EndsAfterWorker, NoLoss
  <2>4. QED
    BY <2>1, <2>2, <2>3 DEF InHand, Answers
<1>2. ASSUME NEW w \in Entered PROVE FALSE
  <2>1. w \in Worker /\ wrote[w] = "error" /\ note[w] = "setup"
    BY DEF Entered, Misrecorded
  <2>2. step[w] \in AfterWrite \cup {"done", "dead"}
    BY <2>1 DEF AllWrite, Writes
  <2>3. step[w] # "dead"
    BY <2>1 DEF Discovered, EndsAfterWorker, NoLoss
  <2>4. QED
    BY <2>1, <2>2, <2>3 DEF InHand, Answers
<1>3. QED
  BY <1>1, <1>2 DEF Grounded, TraceInv, InHand, Answered, Answers

\* A worker that took the file goes on to the lock.
LEMMA FirmStays ==
    ASSUME FileTypeOK, AllWrite, Grounded, NoteInv, TraceInv,
           Discovered, HandledInv, NEW w \in Worker, PreCreate(w) \/ Deliver(w),
           NoLoss', Usual, ~InHand, ~InHand', Firm(w)
    PROVE  Firm(w)'
<1> DEFINE e == batchOf[w]
<1>1. WorkerStep(w) /\ e \in Exec
  BY PreCreateIsWorkerStep, DeliverIsWorkerStep DEF FileTypeOK, TypeOK
<1>2. LeftToAnother /\ NoLoss
  BY DEF HandledInv, Usual
<1>3. /\ Delivered = {} /\ history # "COMPLETED"
      /\ tracker[e].status # "success"
      /\ tracker[e].stage \notin {"final", "completed"}
      /\ lock[e] = Nobody
  BY <1>1, <1>2, NothingInHand
<1>4. /\ step'[w] \notin {"stage", "write"} \cup AfterWrite
      /\ faults' \cap {"crash", "status", "lookup"} = {}
  BY <1>1 DEF InHand, Answers, NoLoss
<1>5. CASE GetOrCreate(w)
  <2>1. step[w] = "create" /\ note[w] = "free"
    BY <1>5 DEF GetOrCreate, Firm
  <2>2. record[e] \notin Terminal
    <3>1. SUFFICES ASSUME record[e] \in Terminal PROVE FALSE
      OBVIOUS
    <3>2. PICK v \in Of(e) : Turned(v)
      BY <1>1, <1>2, <3>1 DEF TraceInv
    <3>3. v \in Worker /\ batchOf[v] = e /\ v # w
      BY <2>1, <3>2 DEF Of, Turned
    <3>4. Sole(v)
      BY <1>2, <3>2, <3>3 DEF LeftToAnother
    <3>5. QED
      BY <2>1, <3>3, <3>4 DEF Sole, Of, Begun
  <2>3. \E n : Goto(w, "prepare", n)
    BY <1>4, <1>5, <2>1, <2>2 DEF GetOrCreate, Fault
  <2>4. QED
    BY <2>3, SoleGoes DEF Firm
<1>6. CASE Prepare(w)
  <2>1. Goto(w, "cleanup", "go") \/ Goto(w, "pend", "go")
    BY <1>3, <1>4, <1>6 DEF Prepare, Fault
  <2>2. QED
    BY <2>1, SoleGoes DEF Firm
<1>7. CASE SetPending(w)
  BY <1>7, SoleGoes DEF SetPending, Firm
<1>8. CASE Cleanup(w)
  <2>1. Goto(w, "validate", note[w])
    BY <1>8 DEF Cleanup, Firm
  <2>2. QED
    BY <2>1, SoleGoes DEF Firm
<1>9. CASE Validate(w)
  <2>1. record[e] \in Active
    BY <1>2, <1>9 DEF LeftToAnother, CountsOnRecord, Validate
  <2>2. Goto(w, "execute", "none")
    BY <1>9, <2>1 DEF Validate, Terminal, Active
  <2>3. QED
    BY <2>2, SoleGoes DEF Firm
<1>10. CASE SetExecuting(w)
  BY <1>10, SoleGoes DEF SetExecuting, Firm
<1>11. CASE Resume(w)
  <2>1. Goto(w, "tool", "none") \/ Goto(w, "dupcheck", "setup")
    BY <1>3, <1>11 DEF Resume, SetUp
  <2>2. QED
    BY <2>1, SoleGoes DEF Firm
<1>12. CASE RunTool(w) \/ CheckDuplicate(w)
  <2>1. \E s \in {"dupcheck", "guard"} : \E n : Goto(w, s, n)
    BY <1>3, <1>12 DEF RunTool, CheckDuplicate
  <2>2. QED
    BY <2>1, SoleGoes DEF Firm
<1>13. CASE GuardWrite(w)
  <2>1. Goto(w, "lock", note[w]) \/ Goto(w, "finalize", "failed")
    BY <1>3, <1>13 DEF GuardWrite
  <2>2. QED
    BY <1>4, <2>1, SoleGoes DEF Firm, AfterWrite
<1>14. CASE AcquireLock(w)
  <2>1. \E s \in {"stage", "write"} : \E n : Goto(w, s, n)
    BY <1>3, <1>14 DEF AcquireLock, Lock
  <2>2. QED
    BY <1>4, <2>1, SoleGoes
<1>15. QED
  BY <1>4, <1>5, <1>6, <1>7, <1>8, <1>9, <1>10, <1>11, <1>12, <1>13, <1>14
     DEF PreCreate, Start, CheckMarker, CheckRecords, Refuse, Crash, Fault,
     Deliver, WaitForLock, SetStage, WriteOutput, ReleaseLock, RecordHistory,
     MarkDelivered, Finalize, Complete, Report, Firm, AfterWrite

LEMMA DeliverIsFirm ==
    ASSUME FileTypeOK, AllWrite, Grounded, TraceInv, Discovered,
           NEW w \in Worker, Deliver(w), NoLoss, ~InHand
    PROVE  Firm(w)
<1>1. step[w] \notin {"wait", "stage", "write"} \cup AfterWrite
  BY NothingInHand
<1>2. QED
  BY <1>1 DEF Deliver, Validate, SetExecuting, Resume, RunTool,
     CheckDuplicate, GuardWrite, AcquireLock, WaitForLock, SetStage,
     WriteOutput, ReleaseLock, RecordHistory, MarkDelivered, Finalize,
     Complete, Report, AfterWrite, Firm

\* What holds of a file that nobody has in hand, before and after a step.
HandledFacts ==
    /\ FileTypeOK /\ AllWrite /\ Grounded /\ Discovered /\ SoleInv
    /\ NoteInv /\ TraceInv /\ HandledInv

\* A worker of such a file has not decided, was turned away, or took it.
LEMMA Undecided ==
    ASSUME HandledFacts, NoLoss, ~InHand, NEW w \in Worker,
           PreCreate(w) \/ Deliver(w)
    PROVE  \/ step[w] \in {"idle", "check", "records"}
           \/ Turned(w)
           \/ Firm(w)
<1>1. WorkerStep(w)
  BY PreCreateIsWorkerStep, DeliverIsWorkerStep DEF HandledFacts
<1>2. step[w] \notin {"done", "dead", "wait", "stage", "write"} \cup AfterWrite
  BY <1>1, NothingInHand DEF HandledFacts, WorkerStep
<1>3. step[w] \in Steps
  BY DEF HandledFacts, FileTypeOK, TypeOK
<1>4. /\ step[w] = "create" => note[w] \in {"free", "duplicate"}
      /\ step[w] = "cleanup" => note[w] \in {"go", "stop"}
  BY DEF HandledFacts, NoteInv
<1>5. QED
  BY <1>2, <1>3, <1>4 DEF Steps, Running, PreCreateSteps, DeliverySteps,
     AfterWrite, Turned, Firm

\* How a worker decides: it finds the marker of another execution, an active
\* record of one, or neither.
LEMMA Decides ==
    ASSUME HandledFacts, NEW w \in Worker, PreCreate(w) \/ Deliver(w),
           "crash" \notin faults', step[w] \in {"idle", "check", "records"},
           step'[w] \notin {"idle", "check", "records"}
    PROVE  \/ Firm(w)' /\ UNCHANGED record
           \/ /\ step'[w] = "create" /\ note'[w] = "duplicate"
              /\ MarkedByOther(batchOf[w]) \/ ActiveRecord(batchOf[w])
<1>1. CheckMarker(w) \/ CheckRecords(w) \/ Start(w)
  BY DEF PreCreate, GetOrCreate, Refuse, Prepare, SetPending, Cleanup, Crash,
     Fault, Deliver, Validate, SetExecuting, Resume, RunTool, CheckDuplicate,
     GuardWrite, AcquireLock, WaitForLock, SetStage, WriteOutput,
     ReleaseLock, RecordHistory, MarkDelivered, Finalize, Complete, Report
<1>2. CASE CheckMarker(w)
  <2>1. /\ \/ Goto(w, "create", "duplicate") /\ MarkedByOther(batchOf[w])
           \/ Goto(w, "create", "free")
           \/ Goto(w, "records", "none")
        /\ UNCHANGED record
    BY <1>2 DEF CheckMarker, database
  <2>2. QED
    BY <2>1, SoleGoes DEF Firm, HandledFacts
<1>3. CASE CheckRecords(w)
  <2>1. /\ \/ Goto(w, "create", "duplicate") /\ ActiveRecord(batchOf[w])
           \/ Goto(w, "create", "free")
        /\ UNCHANGED record
    <3>1. CASE ActiveRecord(batchOf[w])
      BY <1>3, <3>1 DEF CheckRecords, database
    <3>2. CASE ~ActiveRecord(batchOf[w])
      BY <1>3, <3>2 DEF CheckRecords, database
    <3>3. QED
      BY <3>1, <3>2
  <2>2. QED
    BY <2>1, SoleGoes DEF Firm, HandledFacts
<1>4. CASE Start(w)
  BY <1>4, SoleGoes DEF Start, HandledFacts
<1>5. QED
  BY <1>1, <1>2, <1>3, <1>4

\* Another execution to leave the file to makes a worker the only one of its
\* own.
LEMMA OthersMakeSole ==
    ASSUME HandledFacts, NoLoss, Unmixed' => Unmixed, ~InHand, Usual',
           Discovered', Admitted \subseteq Admitted', batchOf' = batchOf,
           NEW v \in Worker, Begun(v)', batchOf[v] \in Admitted,
           NEW f \in Admitted, f # batchOf[v]
    PROVE  Sole(v)' /\ Admitted' # {batchOf[v]}
<1>1. ~Unmixed
  BY OneTook DEF HandledFacts
<1>2. ~Redelivered(batchOf[v])'
  BY <1>1 DEF Usual, Excused
<1>3. QED
  BY <1>2 DEF Redelivered, Sole, Of, Begun

LEMMA TurnedIsSole ==
    ASSUME HandledFacts, NEW w \in Worker, PreCreate(w) \/ Deliver(w),
           Discovered', NoLoss', Usual, Usual', Unmixed' => Unmixed,
           ~InHand, ~InHand', NEW v \in Worker, Turned(v)'
    PROVE  Sole(v)' /\ Admitted' # {batchOf'[v]}
<1>1. /\ WorkerStep(w) /\ LeftToAnother /\ NoLoss
      /\ "crash" \notin faults' /\ batchOf[v] \in Exec
  BY PreCreateIsWorkerStep, DeliverIsWorkerStep
     DEF HandledFacts, HandledInv, Usual, NoLoss, FileTypeOK, TypeOK
<1>2. Admitted' = Admitted /\ batchOf' = batchOf /\ Begun(v)'
  BY <1>1 DEF WorkerStep, discovery, Admitted, Turned, Begun
<1>3. batchOf[v] \in Admitted
  BY <1>2 DEF Discovered, BegunIsAdmitted
<1>4. SUFFICES \E f \in Admitted : f # batchOf[v]
  BY <1>1, <1>2, <1>3, OthersMakeSole
<1>5. CASE Turned(v)
  BY <1>1, <1>3, <1>5 DEF LeftToAnother
<1>6. CASE ~Turned(v)
  <2>1. v = w
    BY <1>1, <1>6 DEF WorkerStep, Turned
  <2>2. ~Firm(w)' /\ step'[w] \notin {"idle", "check", "records"}
    BY <2>1 DEF Turned, Firm
  <2>3. ~Firm(w)
    BY <2>2, FirmStays DEF HandledFacts
  <2>4. step[w] \in {"idle", "check", "records"}
    BY <1>1, <1>6, <2>1, <2>3, Undecided
  <2>5. MarkedByOther(batchOf[w]) \/ ActiveRecord(batchOf[w])
    BY <1>1, <2>2, <2>4, Decides
  <2>6. CASE MarkedByOther(batchOf[w])
    BY <2>1, <2>6 DEF MarkedByOther, HandledFacts, Discovered, BegunIsAdmitted
  <2>7. CASE ActiveRecord(batchOf[w])
    <3>1. PICK f \in Exec : f # batchOf[w] /\ record[f] \in Active
      BY <2>7 DEF ActiveRecord
    <3>2. f \in Admitted
      BY <3>1, ActiveIsAdmitted DEF HandledFacts
    <3>3. QED
      BY <2>1, <3>1, <3>2
  <2>8. QED
    BY <2>5, <2>6, <2>7
<1>7. QED
  BY <1>5, <1>6

\* A record leaves PENDING and EXECUTING with an answer.
LEMMA ActiveStays ==
    ASSUME HandledFacts, NEW w \in Worker, PreCreate(w) \/ Deliver(w),
           NoLoss', Usual, ~InHand, ~InHand',
           NEW e \in Exec, record[e] \in Active
    PROVE  record'[e] \in Active
<1>1. /\ WorkerStep(w) /\ LeftToAnother
      /\ "status" \notin faults' /\ "status" \notin faults
  BY PreCreateIsWorkerStep, DeliverIsWorkerStep
     DEF HandledFacts, HandledInv, Usual, NoLoss
<1>2. CASE e # batchOf[w]
  BY <1>1, <1>2 DEF WorkerStep
<1>3. CASE e = batchOf[w]
  <2>1. CASE Refuse(w)
    <3>1. Turned(w)
      BY <2>1 DEF Refuse, Turned
    <3>2. RecordAt(w)
      BY <1>1, <3>1 DEF LeftToAnother, HandledFacts, SoleInv
    <3>3. QED
      BY <1>3, <2>1, <3>2 DEF Refuse, RecordAt, Active
  <2>2. CASE Report(w)
    BY <2>2 DEF Report, InHand, Answers, AfterWrite
  <2>3. CASE GetOrCreate(w)
    BY <1>3, <2>3 DEF GetOrCreate, Active, HandledFacts, FileTypeOK, TypeOK
  <2>4. CASE SetPending(w) \/ SetExecuting(w)
    BY <1>1, <1>3, <2>4 DEF SetPending, SetExecuting, WriteRecord, Fault,
       Active, HandledFacts, FileTypeOK, TypeOK
  <2>5. QED
    BY <2>1, <2>2, <2>3, <2>4 DEF PreCreate, Start, CheckMarker, CheckRecords,
       Prepare, Cleanup, Crash, Deliver, Validate, Resume, RunTool,
       CheckDuplicate, GuardWrite, AcquireLock, WaitForLock, SetStage,
       WriteOutput, ReleaseLock, RecordHistory, MarkDelivered, Finalize,
       Complete, database
<1>4. QED
  BY <1>2, <1>3

LEMMA SavedStays ==
    ASSUME HandledFacts, NEW w \in Worker, PreCreate(w) \/ Deliver(w),
           NoLoss', Usual, ~InHand, ~InHand', Saved
    PROVE  Saved'
<1>1. WorkerStep(w)
  BY PreCreateIsWorkerStep, DeliverIsWorkerStep DEF HandledFacts
<1>2. PICK v \in Worker : Firm(v)
  BY DEF Saved
<1>3. CASE v = w
  BY <1>2, <1>3, FirmStays DEF Saved, HandledFacts
<1>4. CASE v # w
  BY <1>1, <1>2, <1>4 DEF WorkerStep, Firm, Saved
<1>5. QED
  BY <1>3, <1>4

\* Where a worker counts on an active record, it read it or wrote it active.
LEMMA CountedStays ==
    ASSUME HandledFacts, NEW w \in Worker, PreCreate(w) \/ Deliver(w),
           NoLoss', Usual, ~InHand, ~InHand',
           NEW v \in Worker, CountsOnRecord(v)'
    PROVE  record'[batchOf[v]] \in Active
<1>1. /\ WorkerStep(w) /\ LeftToAnother /\ batchOf[v] \in Exec
      /\ "status" \notin faults' /\ "crash" \notin faults'
  BY PreCreateIsWorkerStep, DeliverIsWorkerStep
     DEF HandledFacts, HandledInv, Usual, NoLoss, FileTypeOK, TypeOK
<1>2. CASE CountsOnRecord(v)
  BY <1>1, <1>2, ActiveStays DEF LeftToAnother
<1>3. CASE ~CountsOnRecord(v)
  <2>1. v = w
    BY <1>1, <1>3 DEF WorkerStep, CountsOnRecord
  <2>2. CASE GetOrCreate(w)
    <3>1. step'[w] # "prepare" => step'[w] \in {"refuse", "cleanup"}
      BY <2>2, SoleGoes DEF GetOrCreate, HandledFacts
    <3>2. step'[w] = "cleanup" => note'[w] = "stop"
      BY <2>2, SoleGoes DEF GetOrCreate, HandledFacts
    <3>3. step'[w] = "prepare" /\ note'[w] = "EXECUTING"
      BY <2>1, <3>1, <3>2 DEF CountsOnRecord
    <3>4. Goto(w, "prepare", record'[batchOf[w]])
      BY <2>2, <3>3, SoleGoes DEF GetOrCreate, HandledFacts
    <3>5. QED
      BY <2>1, <3>3, <3>4, SoleGoes DEF Active, HandledFacts
  <2>3. CASE SetPending(w)
    BY <1>1, <2>1, <2>3 DEF SetPending, WriteRecord, Fault, Active,
       HandledFacts, FileTypeOK, TypeOK
  <2>4. CASE Prepare(w)
    <3>1. Goto(w, "cleanup", "go") => note[w] = "EXECUTING"
      BY <2>4, SoleGoes DEF Prepare, HandledFacts
    <3>2. \/ Goto(w, "cleanup", "stop") \/ Goto(w, "pend", "go")
          \/ Goto(w, "cleanup", "go")
      BY <2>4 DEF Prepare
    <3>3. Goto(w, "cleanup", "go")
      BY <2>1, <3>2, SoleGoes DEF CountsOnRecord, HandledFacts
    <3>4. QED
      BY <1>3, <2>1, <2>4, <3>1, <3>3 DEF Prepare, CountsOnRecord
  <2>5. CASE Cleanup(w)
    BY <1>3, <2>1, <2>5, SoleGoes DEF Cleanup, CountsOnRecord, HandledFacts
  <2>6. ASSUME ~GetOrCreate(w), ~SetPending(w), ~Prepare(w), ~Cleanup(w)
        PROVE  \E s, n : /\ Goto(w, s, n) /\ s \notin {"prepare", "validate"}
                         /\ s = "cleanup" => n = "stop"
    <3>1. CASE CheckRecords(w)
      BY <3>1 DEF CheckRecords
    <3>2. CASE \/ Start(w) \/ CheckMarker(w) \/ Refuse(w) \/ Crash(w)
      BY <3>2 DEF Start, CheckMarker, Refuse, Crash
    <3>3. CASE Deliver(w)
      BY <3>3 DEF Deliver, Validate, SetExecuting, Resume, SetUp, RunTool,
         CheckDuplicate, GuardWrite, AcquireLock, WaitForLock, SetStage,
         WriteOutput, ReleaseLock, RecordHistory, MarkDelivered, Finalize,
         Complete, Report, Skip, Lock
    <3>4. QED
      BY <2>6, <3>1, <3>2, <3>3 DEF PreCreate
  <2>7. QED
    BY <2>1, <2>2, <2>3, <2>4, <2>5, <2>6, SoleGoes
       DEF CountsOnRecord, HandledFacts
<1>4. QED
  BY <1>2, <1>3

\* The worker that makes a record active took the file.
LEMMA ActiveIsSaved ==
    ASSUME HandledFacts, NEW w \in Worker, PreCreate(w) \/ Deliver(w),
           NoLoss', Usual, ~InHand, ~InHand',
           NEW e \in Exec, record'[e] \in Active
    PROVE  Saved'
<1>1. WorkerStep(w) /\ LeftToAnother
  BY PreCreateIsWorkerStep, DeliverIsWorkerStep
     DEF HandledFacts, HandledInv, Usual
<1>2. CASE record[e] \in Active
  BY <1>1, <1>2, SavedStays DEF LeftToAnother
<1>3. CASE record[e] \notin Active
  <2>1. e = batchOf[w] /\ record'[e] # record[e]
    BY <1>1, <1>3 DEF WorkerStep
  <2>2. CASE SetPending(w) \/ SetExecuting(w)
    <3>1. \/ Goto(w, "cleanup", "go") \/ Goto(w, "resume", "none")
      BY <2>2 DEF SetPending, SetExecuting
    <3>2. Firm(w)'
      BY <3>1, SoleGoes DEF Firm, HandledFacts
    <3>3. QED
      BY <3>2 DEF Saved
  <2>3. CASE GetOrCreate(w) \/ Refuse(w) \/ Report(w)
    BY <1>3, <2>1, <2>3 DEF GetOrCreate, Refuse, Report, WriteRecord, Active,
       HandledFacts, FileTypeOK, TypeOK
  <2>4. QED
    BY <2>1, <2>2, <2>3 DEF PreCreate, Start, CheckMarker, CheckRecords,
       Prepare, Cleanup, Crash, Deliver, Validate, Resume, RunTool,
       CheckDuplicate, GuardWrite, AcquireLock, WaitForLock, SetStage,
       WriteOutput, ReleaseLock, RecordHistory, MarkDelivered, Finalize,
       Complete, database
<1>4. QED
  BY <1>2, <1>3

\* An execution that may still take the file does, or leaves it to another
\* that has or may.
LEMMA SoftOrSaved ==
    ASSUME HandledFacts, NEW w \in Worker, PreCreate(w) \/ Deliver(w),
           NoLoss', Usual, ~InHand, ~InHand',
           NEW e \in Exec, Soft(e) \/ Saved
    PROVE  \/ Soft(e)' \/ Saved'
           \/ e = batchOf[w] /\ MarkedByOther(e)
<1>1. /\ WorkerStep(w) /\ LeftToAnother /\ "crash" \notin faults'
      /\ Of(e)' = Of(e) /\ Of(e) \subseteq Worker
  BY PreCreateIsWorkerStep, DeliverIsWorkerStep
     DEF HandledFacts, HandledInv, Usual, NoLoss, WorkerStep, Of
<1>2. CASE Saved
  BY <1>2, SavedStays
<1>3. CASE Soft(e) /\ ~Soft(e)'
  <2>1. /\ w \in Of(e) /\ step[w] \in {"idle", "check", "records"}
        /\ step'[w] \notin {"idle", "check", "records"}
    BY <1>1, <1>3 DEF Soft, WorkerStep
  <2>2. e = batchOf[w]
    BY <2>1 DEF Of
  <2>3. CASE Firm(w)'
    BY <2>3 DEF Saved
  <2>4. CASE ActiveRecord(e)
    <3>1. Saved
      BY <1>1, <2>4 DEF ActiveRecord, LeftToAnother
    <3>2. QED
      BY <3>1, SavedStays
  <2>5. QED
    BY <1>1, <2>1, <2>2, <2>3, <2>4, Decides
<1>4. QED
  BY <1>2, <1>3

LEMMA WorkerLeavesToAnother ==
    ASSUME HandledFacts, NEW w \in Worker, PreCreate(w) \/ Deliver(w),
           Discovered', NoLoss', Usual, Usual', Unmixed' => Unmixed,
           ~InHand, ~InHand'
    PROVE  LeftToAnother'
<1>1. /\ WorkerStep(w) /\ LeftToAnother /\ NoLoss /\ "crash" \notin faults'
      /\ Admitted' = Admitted /\ batchOf' = batchOf /\ batchOf[w] \in Exec
      /\ BegunIsAdmitted
  BY PreCreateIsWorkerStep, DeliverIsWorkerStep
     DEF HandledFacts, HandledInv, Usual, NoLoss, WorkerStep, discovery,
     Admitted, FileTypeOK, TypeOK, Discovered
<1>2. ASSUME NEW v \in Worker, Turned(v)'
      PROVE  Sole(v)' /\ Admitted' # {batchOf'[v]}
  BY <1>2, TurnedIsSole
<1>3. ASSUME NEW v \in Worker, CountsOnRecord(v)'
      PROVE  record'[batchOf'[v]] \in Active
  BY <1>1, <1>3, CountedStays
<1>4. ASSUME NEW v \in Worker, step'[v] = "done"
      PROVE  Turned(v)'
  <2>1. CASE Turned(v)
    BY <1>1, <2>1, TurnedStays DEF HandledFacts
  <2>2. CASE step[v] = "done"
    BY <1>1, <2>1, <2>2 DEF LeftToAnother
  <2>3. CASE ~Turned(v) /\ step[v] # "done"
    <3>1. v = w
      BY <1>1, <1>4, <2>3 DEF WorkerStep
    <3>2. ~Firm(w)'
      BY <1>4, <3>1 DEF Firm
    <3>3. ~Firm(w)
      BY <3>2, FirmStays DEF HandledFacts
    <3>4. step[w] \in {"idle", "check", "records"}
      BY <1>1, <2>3, <3>1, <3>3, Undecided
    <3>5. QED
      BY <1>1, <1>4, <3>1, <3>2, <3>4, Decides
  <2>4. QED
    BY <2>1, <2>2, <2>3
<1>5. ASSUME NEW e \in Exec, record'[e] \in Active
      PROVE  Saved'
  BY <1>5, ActiveIsSaved
<1>6. ASSUME marker' # Nobody
      PROVE  Soft(marker)' \/ Saved'
  <2>1. marker' = marker /\ marker \in Exec
    BY <1>1, <1>6 DEF WorkerStep, BegunIsAdmitted, Admitted
  <2>2. Soft(marker) \/ Saved
    BY <1>1, <1>6, <2>1 DEF LeftToAnother
  <2>3. \E m \in Exec : m = marker
    BY <2>1
  <2>4. PICK m \in Exec : m = marker
    BY <2>3
  <2>5. ~(m = batchOf[w] /\ MarkedByOther(m))
    BY <2>4 DEF MarkedByOther
  <2>6. Soft(m)' \/ Saved'
    BY <2>2, <2>4, <2>5, SoftOrSaved
  <2>7. m = marker'
    BY <2>1, <2>4
  <2>8. Soft(m)' => Soft(marker)'
    BY <2>7 DEF Soft, Of
  <2>9. QED
    BY <2>6, <2>8
<1>7. ASSUME Admitted' # {}
      PROVE  Saved' \/ \E e \in Admitted' : Soft(e)'
  <2>1. Saved \/ \E e \in Admitted : Soft(e)
    BY <1>1, <1>7 DEF LeftToAnother
  <2>2. CASE Saved
    BY <2>2, SavedStays
  <2>3. ASSUME NEW e \in Admitted, Soft(e)
        PROVE  Saved' \/ \E f \in Admitted' : Soft(f)'
    <3>1. e \in Exec
      BY DEF Admitted
    <3>2. CASE e = batchOf[w] /\ MarkedByOther(e)
      <4>1. marker # Nobody /\ marker \in Admitted /\ marker # batchOf[w]
        BY <1>1, <3>2 DEF MarkedByOther, BegunIsAdmitted
      <4>2. Soft(marker) \/ Saved
        BY <1>1, <4>1 DEF LeftToAnother
      <4>3. PICK m \in Admitted : m = marker
        BY <4>1
      <4>4. Soft(m)' \/ Saved'
        BY <4>1, <4>2, <4>3, SoftOrSaved DEF Admitted
      <4>5. QED
        BY <1>1, <4>3, <4>4
    <3>3. CASE ~(e = batchOf[w] /\ MarkedByOther(e))
      BY <1>1, <2>3, <3>1, <3>3, SoftOrSaved
    <3>4. QED
      BY <3>2, <3>3
  <2>4. QED
    BY <2>1, <2>2, <2>3
<1>8. QED
  BY <1>2, <1>3, <1>4, <1>5, <1>6, <1>7 DEF LeftToAnother

LEMMA WorkerKeepsFirst ==
    ASSUME HandledFacts, NEW w \in Worker, PreCreate(w) \/ Deliver(w),
           NoLoss', Usual, Unmixed, ~InHand, ~InHand'
    PROVE  FirstComes'
<1>1. /\ WorkerStep(w) /\ LeftToAnother /\ NoLoss /\ FirstComes
      /\ Admitted' = Admitted /\ BegunIsAdmitted
      /\ \A e \in Exec : ahead[e] \subseteq Exec
  BY PreCreateIsWorkerStep, DeliverIsWorkerStep
     DEF HandledFacts, HandledInv, Usual, NoLoss, WorkerStep, discovery,
     Admitted, FileTypeOK, TypeOK, Discovered
<1>2. ASSUME NEW e \in Admitted
      PROVE  marker' = e \/ record'[e] \in Active
  <2>1. e \in Exec
    BY DEF Admitted
  <2>2. CASE record[e] \in Active
    BY <2>1, <2>2, ActiveStays
  <2>3. CASE record[e] \notin Active
    <3>1. marker = e
      BY <1>1, <2>3 DEF FirstComes
    <3>2. ASSUME Cleanup(w) PROVE FALSE
      <4>1. batchOf[w] \in Admitted
        BY <1>1, <3>2 DEF Cleanup, BegunIsAdmitted, Begun
      <4>2. \A f \in Admitted : f = e
        BY <1>1, OneTook DEF HandledFacts
      <4>3. batchOf[w] = e /\ Admitted = {e}
        BY <4>1, <4>2
      <4>4. note[w] \in {"go", "stop"} /\ step[w] = "cleanup"
        BY <3>2 DEF Cleanup, HandledFacts, NoteInv
      <4>5. CASE note[w] = "stop"
        BY <1>1, <4>3, <4>4, <4>5 DEF Turned, LeftToAnother
      <4>6. CASE note[w] = "go"
        BY <1>1, <2>3, <4>3, <4>4, <4>6 DEF CountsOnRecord, LeftToAnother
      <4>7. QED
        BY <4>4, <4>5, <4>6
    <3>3. UNCHANGED marker
      BY <3>2 DEF PreCreate, Start, CheckMarker, CheckRecords, GetOrCreate,
         Refuse, Prepare, SetPending, Crash, Deliver, Validate, SetExecuting,
         Resume, RunTool, CheckDuplicate, GuardWrite, AcquireLock,
         WaitForLock, SetStage, WriteOutput, ReleaseLock, RecordHistory,
         MarkDelivered, Finalize, Complete, Report
    <3>4. QED
      BY <3>1, <3>3
  <2>4. QED
    BY <2>2, <2>3
<1>3. ASSUME NEW f \in Exec, NEW e \in ahead'[f]
      PROVE  /\ scan'[f] \notin {"mark", "admitted"}
             /\ scan'[f] = "records" => record'[e] \in Active
  <2>1. scan' = scan /\ ahead' = ahead
    BY <1>1 DEF WorkerStep, discovery
  <2>2. e \in Exec
    BY <1>1, <2>1
  <2>3. QED
    BY <1>1, <2>1, <2>2, ActiveStays DEF FirstComes
<1>4. QED
  BY <1>1, <1>2, <1>3 DEF FirstComes

LEMMA WorkerKeepsHandled ==
    ASSUME HandledFacts, NEW w \in Worker, PreCreate(w) \/ Deliver(w),
           Discovered'
    PROVE  HandledInv'
<1>1. SUFFICES ASSUME ~InHand', NoLoss'
               PROVE  /\ Usual' => LeftToAnother'
                      /\ Unmixed' => FirstComes'
  BY DEF HandledInv, Usual
<1>2. ~InHand
  BY <1>1, InHandStays DEF HandledFacts
<1>3. /\ Usual' => Usual
      /\ Unmixed' => Unmixed
      /\ NoLoss
  <2>1. WorkerStep(w)
    BY PreCreateIsWorkerStep, DeliverIsWorkerStep DEF HandledFacts
  <2>2. /\ faults \subseteq faults' /\ batchOf' = batchOf /\ ahead' = ahead
        /\ Admitted \subseteq Admitted'
        /\ \A v \in Worker : Begun(v) => Begun(v)'
    BY <2>1 DEF WorkerStep, discovery, Admitted, Begun
  <2>3. QED
    BY <1>1, <2>2, UsualBefore DEF HandledFacts
<1>4. Usual' => LeftToAnother'
  BY <1>1, <1>2, <1>3, WorkerLeavesToAnother
<1>5. Unmixed' => FirstComes'
  <2>1. Unmixed => Usual
    BY <1>3 DEF Usual, Excused
  <2>2. QED
    BY <1>1, <1>2, <1>3, <2>1, WorkerKeepsFirst
<1>6. QED
  BY <1>4, <1>5

\* What a step of nobody's worker leaves as it is.
LEMMA SameWorkers ==
    ASSUME UNCHANGED <<batch, wrote>>
    PROVE  /\ InHand' <=> InHand
           /\ Answered' <=> Answered
           /\ Saved' <=> Saved
           /\ \A v \in Worker : /\ Begun(v)' <=> Begun(v)
                                /\ Turned(v)' <=> Turned(v)
                                /\ Sole(v)' <=> Sole(v)
                                /\ CountsOnRecord(v)' <=> CountsOnRecord(v)
           /\ \A f \in Exec : Of(f)' = Of(f) /\ (Soft(f)' <=> Soft(f))
<1>1. UNCHANGED <<step, note, batchOf, wrote>>
  BY DEF batch
<1>2. /\ \A v \in Worker : /\ Begun(v)' <=> Begun(v)
                           /\ Answers(v)' <=> Answers(v)
                           /\ Firm(v)' <=> Firm(v)
                           /\ Turned(v)' <=> Turned(v)
                           /\ CountsOnRecord(v)' <=> CountsOnRecord(v)
      /\ \A f \in Exec : Of(f)' = Of(f)
  BY <1>1 DEF Begun, Answers, Firm, Turned, CountsOnRecord, Of
<1>3. (InHand' <=> InHand) /\ (Answered' <=> Answered)
  BY <1>1, <1>2 DEF InHand, Answered
<1>4. Saved' <=> Saved
  BY <1>2, <1>3 DEF Saved
<1>5. \A v \in Worker : Sole(v)' <=> Sole(v)
  BY <1>1 DEF Sole, Begun, Of
<1>6. \A f \in Exec : Soft(f)' <=> Soft(f)
  BY <1>1 DEF Soft, Of
<1>7. QED
  BY <1>2, <1>3, <1>4, <1>5, <1>6

LEMMA DiscoverKeepsTrace ==
    ASSUME HandledFacts, NEW e \in Exec, Discover(e)
    PROVE  /\ NoteInv' /\ TraceInv'
           /\ NoLoss' => UNCHANGED record
<1>1. /\ UNCHANGED <<tracker, batch, lock, wrote>>
      /\ faults \subseteq faults'
  BY DiscoverLeaves DEF HandledFacts
<1>2. UNCHANGED <<step, note, batchOf>>
  BY <1>1 DEF batch
<1>3. NoLoss' => NoLoss
  BY <1>1 DEF NoLoss
<1>4. ASSUME NoLoss' PROVE UNCHANGED record
  <2>1. \A w \in Worker : step[w] # "dead"
    BY <1>3, <1>4 DEF HandledFacts, Discovered, EndsAfterWorker, NoLoss
  <2>2. QED
    BY <2>1 DEF Discover, ReadHistory, FilterMarker, FilterRecords, Mark,
       EndExecution, RecoverExecution, database
<1>5. NoteInv'
  BY <1>2 DEF HandledFacts, NoteInv
<1>6. TraceInv'
  <2>1. SUFFICES ASSUME NoLoss' PROVE TraceInv'
    BY DEF TraceInv
  <2>2. /\ UNCHANGED <<record, tracker, lock, step>>
        /\ InHand' <=> InHand
        /\ Answered' <=> Answered
        /\ \A v \in Worker : Turned(v)' <=> Turned(v)
        /\ \A f \in Exec : Of(f)' = Of(f)
    BY <1>1, <1>2, <1>4, <2>1, SameWorkers
  <2>3. \A f \in Exec : Of(f) \subseteq Worker
    BY DEF Of
  <2>4. TraceInv
    BY DEF HandledFacts
  <2>5. QED
    BY <1>3, <2>1, <2>2, <2>3, <2>4 DEF TraceInv
<1>7. QED
  BY <1>4, <1>5, <1>6

\* A second execution that looked after the first took the file is refused:
\* it finds the marker, or an active record of an execution that goes on.
LEMMA DiscoverKeepsFirst ==
    ASSUME HandledFacts, NEW e \in Exec, Discover(e), NoLoss', Unmixed,
           Unmixed', ~InHand
    PROVE  FirstComes'
<1>1. /\ UNCHANGED <<batch, wrote>>
      /\ faults \subseteq faults'
      /\ marker' \in {marker, e}
      /\ \A f \in Exec \ {e} : scan'[f] = scan[f] /\ ahead'[f] = ahead[f]
      /\ e \in Admitted => UNCHANGED <<scan, ahead, marker>>
      /\ Admitted' \subseteq Admitted \cup {e}
      /\ record' = record
  BY DiscoverLeaves, DiscoverKeepsTrace DEF HandledFacts
<1>2. /\ NoLoss /\ FirstComes /\ LeftToAnother /\ BegunIsAdmitted
      /\ Admitted \subseteq Exec /\ Nobody \notin Exec
      /\ \A f \in Exec : ahead[f] \subseteq Admitted
      /\ "check" \notin faults' /\ "marker" \notin faults'
  BY <1>1, ActiveFilesAssumption
     DEF NoLoss, Unmixed, Usual, Excused, HandledFacts, HandledInv,
     Discovered, BegunIsAdmitted, Admitted
<1>3. CASE Mark(e)
  <2>1. /\ scan[e] = "mark" /\ e \notin Admitted /\ ahead' = ahead
        /\ scan' = [scan EXCEPT ![e] = "admitted"]
        /\ marker' = e
    BY <1>2, <1>3 DEF Mark, Fault, Admitted
  <2>2. ahead[e] = {}
    BY <1>2, <2>1 DEF FirstComes
  <2>3. Admitted = {}
    <3>1. SUFFICES ASSUME NEW f \in Admitted PROVE FALSE
      OBVIOUS
    <3>2. e \in Admitted' /\ f \in Admitted' /\ e # f
      BY <1>2, <2>1, <3>1 DEF Admitted, HandledFacts, FileTypeOK, TypeOK
    <3>3. e \in ahead[f] \/ f \in ahead[e]
      BY <2>1, <3>2 DEF Unmixed, Crossing
    <3>4. QED
      BY <1>2, <2>1, <2>2, <3>1, <3>3
  <2>4. QED
    BY <1>1, <1>2, <2>1, <2>2, <2>3 DEF FirstComes
<1>4. CASE FilterMarker(e)
  <2>1. /\ scan[e] = "filter" /\ e \notin Admitted /\ marker' = marker
        /\ ahead' = [ahead EXCEPT ![e] = Admitted]
        /\ Pass(e, IF MarkedByOther(e) THEN "refused" ELSE "records")
    BY <1>2, <1>4 DEF FilterMarker, Fault, Admitted
  <2>2. ahead'[e] = Admitted
    BY <2>1 DEF HandledFacts, FileTypeOK, TypeOK
  <2>3. Admitted' = Admitted
    <3>1. PICK s \in {"refused", "records"} : Pass(e, s)
      BY <2>1
    <3>2. QED
      BY <2>1, <3>1 DEF Pass, Admitted, HandledFacts, FileTypeOK, TypeOK
  <2>4. CASE MarkedByOther(e)
    <3>1. scan'[e] = "refused"
      BY <2>1, <2>4 DEF Pass, HandledFacts, FileTypeOK, TypeOK
    <3>2. QED
      BY <1>1, <1>2, <2>1, <2>3, <3>1 DEF FirstComes
  <2>5. CASE ~MarkedByOther(e)
    <3>1. scan'[e] = "records"
      BY <2>1, <2>5 DEF Pass, HandledFacts, FileTypeOK, TypeOK
    <3>2. \A g \in Admitted : record[g] \in Active
      BY <1>2, <2>1, <2>5 DEF FirstComes, MarkedByOther
    <3>3. QED
      BY <1>1, <1>2, <2>1, <2>2, <2>3, <3>1, <3>2 DEF FirstComes
  <2>6. QED
    BY <2>4, <2>5
<1>5. CASE FilterRecords(e)
  <2>1. /\ scan[e] = "records" /\ e \notin Admitted
        /\ UNCHANGED <<marker, ahead>>
        /\ Pass(e, IF ActiveRecord(e) THEN "refused" ELSE "mark")
    BY <1>2, <1>5 DEF FilterRecords, Fault, Admitted
  <2>2. CASE ActiveRecord(e)
    <3>1. scan'[e] = "refused" /\ Admitted' = Admitted
      BY <2>1, <2>2 DEF Pass, Admitted, HandledFacts, FileTypeOK, TypeOK
    <3>2. QED
      BY <1>1, <1>2, <2>1, <3>1 DEF FirstComes
  <2>3. CASE ~ActiveRecord(e)
    <3>1. scan'[e] = "mark" /\ Admitted' = Admitted
      BY <2>1, <2>3 DEF Pass, Admitted, HandledFacts, FileTypeOK, TypeOK
    <3>2. ASSUME NEW g \in ahead[e] PROVE FALSE
      <4>1. g \in Admitted /\ g # e /\ record[g] \in Active
        BY <1>2, <2>1, <3>2 DEF FirstComes
      <4>2. g \in ended
        BY <1>2, <2>3, <4>1 DEF ActiveRecord
      <4>3. PICK w \in Of(g) : step[w] = "done"
        BY <1>2, <4>2
           DEF HandledFacts, Discovered, EndsAfterWorker, NoLoss, Of
      <4>4. w \in Worker /\ batchOf[w] = g
        BY <4>3 DEF Of
      <4>5. Admitted # {g}
        BY <1>2, <4>3, <4>4 DEF LeftToAnother
      <4>6. \A f \in Admitted : f = g
        BY <1>2, <4>1, OneTook DEF HandledFacts
      <4>7. QED
        BY <4>1, <4>5, <4>6
    <3>3. QED
      BY <1>1, <1>2, <2>1, <3>1, <3>2 DEF FirstComes
  <2>4. QED
    BY <2>2, <2>3
<1>6. CASE ReadHistory(e)
  <2>1. /\ scan'[e] \in {"refused", "filter"} /\ Admitted' = Admitted
        /\ UNCHANGED <<marker, ahead>>
    BY <1>6 DEF ReadHistory, Admitted, HandledFacts, FileTypeOK, TypeOK
  <2>2. QED
    BY <1>1, <1>2, <2>1 DEF FirstComes
<1>7. CASE EndExecution(e) \/ RecoverExecution(e)
  <2>1. UNCHANGED <<scan, ahead, marker>> /\ Admitted' = Admitted
    BY <1>7 DEF EndExecution, RecoverExecution, discovery, Admitted
  <2>2. QED
    BY <1>1, <1>2, <2>1 DEF FirstComes
<1>8. QED
  BY <1>3, <1>4, <1>5, <1>6, <1>7 DEF Discover

LEMMA DiscoverKeepsHandled ==
    ASSUME HandledFacts, NEW e \in Exec, Discover(e)
    PROVE  HandledInv'
<1>1. SUFFICES ASSUME ~InHand', NoLoss'
               PROVE  /\ Usual' => LeftToAnother'
                      /\ Unmixed' => FirstComes'
  BY DEF HandledInv, Usual
<1>2. /\ UNCHANGED <<batch, wrote>>
      /\ faults \subseteq faults'
      /\ marker' \in {marker, e}
      /\ \A f \in Exec \ {e} : scan'[f] = scan[f] /\ ahead'[f] = ahead[f]
      /\ e \in Admitted => UNCHANGED <<scan, ahead, marker>>
      /\ Admitted \subseteq Admitted' /\ Admitted' \subseteq Admitted \cup {e}
      /\ record' = record
  BY <1>1, DiscoverLeaves, DiscoverKeepsTrace DEF HandledFacts
<1>3. /\ ~InHand /\ batchOf' = batchOf /\ step' = step
      /\ \A v \in Worker : /\ Begun(v)' <=> Begun(v)
                           /\ Turned(v)' <=> Turned(v)
                           /\ Sole(v)' <=> Sole(v)
                           /\ CountsOnRecord(v)' <=> CountsOnRecord(v)
      /\ \A f \in Exec : Soft(f)' <=> Soft(f)
      /\ Saved' <=> Saved
  BY <1>1, <1>2, SameWorkers DEF batch
<1>4. (Usual' => Usual) /\ (Unmixed' => Unmixed) /\ NoLoss
  <2>1. \A f \in Admitted : ahead'[f] = ahead[f]
    BY <1>2 DEF Admitted
  <2>2. QED
    BY <1>1, <1>2, <1>3, <2>1, UsualBefore DEF HandledFacts
<1>5. ASSUME Usual' PROVE LeftToAnother'
  <2>1. LeftToAnother /\ BegunIsAdmitted
    BY <1>3, <1>4, <1>5 DEF HandledFacts, HandledInv, Discovered
  <2>2. e \notin Admitted => Soft(e)
    BY <2>1 DEF BegunIsAdmitted, Soft, Of, Begun
  <2>3. ASSUME NEW v \in Worker, Turned(v)
        PROVE  Sole(v) /\ Admitted' # {batchOf[v]}
    <3>1. batchOf[v] \in Admitted
      BY <2>1, <2>3 DEF BegunIsAdmitted, Begun, Turned
    <3>2. Sole(v) /\ Admitted # {batchOf[v]}
      BY <2>1, <2>3 DEF LeftToAnother
    <3>3. QED
      BY <1>2, <3>1, <3>2
  <2>4. marker' # Nobody => Soft(marker') \/ Saved
    <3>1. CASE marker' = marker
      BY <2>1, <3>1 DEF LeftToAnother
    <3>2. CASE marker' # marker
      BY <1>2, <2>2, <3>2
    <3>3. QED
      BY <3>1, <3>2
  <2>5. marker' # Nobody => marker' \in Exec
    BY <1>2, <2>1 DEF BegunIsAdmitted, Admitted
  <2>6. Admitted' # {} => Saved \/ \E f \in Admitted' : Soft(f)
    <3>1. CASE Admitted = {}
      BY <1>2, <2>2, <3>1
    <3>2. CASE Admitted # {}
      BY <1>2, <2>1, <3>2 DEF LeftToAnother
    <3>3. QED
      BY <3>1, <3>2
  <2>7. /\ marker' # Nobody => Soft(marker)' \/ Saved'
        /\ Admitted' # {} => Saved' \/ \E f \in Admitted' : Soft(f)'
    <3>1. \A f \in Admitted' : f \in Exec
      BY DEF Admitted
    <3>2. Soft(marker') => Soft(marker)'
      BY <1>3 DEF Soft, Of
    <3>3. QED
      BY <1>3, <2>4, <2>6, <3>1, <3>2
  <2>8. QED
    BY <1>2, <1>3, <2>1, <2>3, <2>7 DEF LeftToAnother
<1>6. ASSUME Unmixed' PROVE FirstComes'
  BY <1>1, <1>3, <1>4, <1>6, DiscoverKeepsFirst
<1>7. QED
  BY <1>5, <1>6

LEMMA LapseKeepsHandled ==
    ASSUME HandledFacts, Lapse
    PROVE  NoteInv' /\ TraceInv' /\ HandledInv'
<1>1. /\ UNCHANGED <<discovery, database, batch, wrote>>
      /\ faults \subseteq faults'
      /\ marker' = marker \/ (marker' = Nobody /\ "marker" \in faults')
      /\ \A e \in Exec : /\ lock'[e] \in {lock[e], Nobody}
                         /\ tracker'[e] \in {tracker[e], NoTrack}
  BY LapseLeaves DEF HandledFacts
<1>2. /\ UNCHANGED <<step, note, batchOf, scan, ahead, record>>
      /\ Admitted' = Admitted /\ (NoLoss' => NoLoss)
  BY <1>1 DEF batch, discovery, database, Admitted, NoLoss
<1>3. /\ InHand' <=> InHand
      /\ Answered' <=> Answered
      /\ \A v \in Worker : /\ Begun(v)' <=> Begun(v)
                           /\ Turned(v)' <=> Turned(v)
                           /\ Sole(v)' <=> Sole(v)
                           /\ CountsOnRecord(v)' <=> CountsOnRecord(v)
      /\ \A f \in Exec : Of(f)' = Of(f) /\ (Soft(f)' <=> Soft(f))
      /\ Saved' <=> Saved
  BY <1>1, SameWorkers
<1>4. (Usual' => Usual) /\ (Unmixed' => Unmixed)
  BY <1>1, <1>2, <1>3, UsualBefore DEF HandledFacts
<1>5. NoteInv'
  BY <1>2 DEF HandledFacts, NoteInv
<1>6. TraceInv'
  <2>1. TraceInv /\ \A e \in Exec : Of(e) \subseteq Worker
    BY DEF HandledFacts, Of
  <2>2. \A e \in Exec :
            /\ tracker'[e].stage \in {"final", "completed"} =>
                  tracker[e].stage \in {"final", "completed"}
            /\ lock'[e] # Nobody => lock[e] # Nobody
    BY <1>1 DEF NoTrack
  <2>3. QED
    BY <1>2, <1>3, <2>1, <2>2 DEF TraceInv
<1>7. LeftToAnother => LeftToAnother'
  <2>1. SUFFICES ASSUME LeftToAnother PROVE LeftToAnother'
    OBVIOUS
  <2>2. marker' # Nobody => Soft(marker)' \/ Saved'
    <3>1. marker' # Nobody => marker' = marker /\ (Soft(marker) \/ Saved)
      BY <1>1, <2>1 DEF LeftToAnother
    <3>2. marker' = marker /\ Soft(marker) => Soft(marker)'
      BY <1>2 DEF Soft, Of
    <3>3. QED
      BY <1>3, <3>1, <3>2
  <2>3. Admitted' # {} => Saved' \/ \E e \in Admitted' : Soft(e)'
    BY <1>2, <1>3, <2>1 DEF LeftToAnother, Admitted
  <2>4. QED
    BY <1>2, <1>3, <2>1, <2>2, <2>3 DEF LeftToAnother
<1>8. Unmixed' /\ FirstComes => FirstComes'
  BY <1>1, <1>2 DEF Unmixed, FirstComes
<1>9. HandledInv'
  <2>1. HandledInv
    BY DEF HandledFacts
  <2>2. QED
    BY <1>2, <1>3, <1>4, <1>7, <1>8, <2>1 DEF HandledInv
<1>10. QED
  BY <1>5, <1>6, <1>9

-----------------------------------------------------------------------------
HandsInv == GuardInv /\ NoteInv /\ TraceInv /\ HandledInv

LEMMA HandsGiveFacts ==
    ASSUME HandsInv
    PROVE  HandledFacts
BY DEF HandsInv, GuardInv, FileInv, AllWrite, HandledFacts

LEMMA InitHasHandsInv == FileInit => HandsInv
<1> SUFFICES ASSUME FileInit PROVE HandsInv
  OBVIOUS
<1>1. GuardInv
  BY InitHasGuardInv
<1>2. /\ \A w \in Worker : step[w] = "idle" /\ note[w] = "none"
      /\ Admitted = {} /\ marker = Nobody
      /\ \A e \in Exec : /\ ahead[e] = {} /\ record[e] = "none"
                         /\ tracker[e] = NoTrack /\ lock[e] = Nobody
  BY DEF FileInit, Init, Admitted
<1>3. NoteInv /\ TraceInv
  BY <1>2 DEF NoteInv, TraceInv, AfterWrite, NoTrack, Terminal
<1>4. LeftToAnother
  BY <1>2 DEF LeftToAnother, Turned, CountsOnRecord, Active
<1>5. FirstComes
  BY <1>2 DEF FirstComes
<1>6. QED
  BY <1>1, <1>3, <1>4, <1>5 DEF HandsInv, HandledInv

LEMMA StepKeepsHandsInv ==
    ASSUME HandsInv, [FileNext]_fileVars
    PROVE  HandsInv'
<1>1. HandledFacts
  BY HandsGiveFacts
<1>2. GuardInv'
  BY StepKeepsGuardInv DEF HandsInv
<1>3. Discovered'
  BY <1>2 DEF GuardInv
<1>4. NoteInv' /\ TraceInv' /\ HandledInv'
  <2>1. CASE \E w \in Worker : PreCreate(w) \/ Deliver(w)
    BY <1>1, <1>3, <2>1, WorkerKeepsNotes, WorkerKeepsTrace,
       WorkerKeepsHandled DEF HandledFacts
  <2>2. CASE \E e \in Exec : Discover(e)
    BY <1>1, <2>2, DiscoverKeepsTrace, DiscoverKeepsHandled
  <2>3. CASE Lapse
    BY <1>1, <2>3, LapseKeepsHandled
  <2>4. QED
    BY <2>1, <2>2, <2>3, StepKinds
<1>5. QED
  BY <1>2, <1>4 DEF HandsInv

(***************************************************************************)
(* The executions of a workflow do not leave a file to each other for good *)
(* (_check_active_files_batch, _check_file_already_active): whatever turns *)
(* one of them away, a marker or an active record, is of an execution that *)
(* took the file or may still take it, and one that took it writes it or   *)
(* fails. A worker whose look at the tracker failed is excused with its    *)
(* fault: it leaves the file without a trace (_pre_create_file_executions).*)
(***************************************************************************)
THEOREM FilesAreHandled == FileSpec => []FileIsHandled
<1>1. ASSUME HandsInv PROVE FileIsHandled
  <2>1. SUFFICES ASSUME NoLoss, Admitted # {},
                        \A e \in Admitted : \E w \in Worker :
                            batchOf[w] = e /\ step[w] = "done",
                        \A w \in Worker : step[w] \in {"idle", "done"},
                        ~Excused
                 PROVE  \E w \in Worker :
                            \/ wrote[w] = "data"
                            \/ note[w] \in {"failed", "setup"}
    BY DEF FileIsHandled, NoLoss, Excused, Unmixed
  <2>2. InHand
    <3>1. SUFFICES ASSUME ~InHand PROVE FALSE
      OBVIOUS
    <3>2. LeftToAnother
      BY <1>1, <2>1, <3>1 DEF HandsInv, HandledInv, Usual
    <3>3. ~Saved
      BY <2>1, <3>1 DEF Saved, Firm
    <3>4. PICK e \in Admitted : Soft(e)
      BY <2>1, <3>2, <3>3 DEF LeftToAnother
    <3>5. QED
      BY <2>1, <3>4 DEF Soft, Of
  <2>3. QED
    BY <2>1, <2>2 DEF InHand, Answers, AfterWrite
<1>2. FileSpec => []HandsInv
  BY InitHasHandsInv, StepKeepsHandsInv, PTL DEF FileSpec
<1>3. QED
  BY <1>1, <1>2, PTL
=============================================================================
