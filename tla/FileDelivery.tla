---------------------------- MODULE FileDelivery ----------------------------
(***************************************************************************)
(* What the worker of a batch does with a file it pre-created (module      *)
(* ActiveFiles): validate its record, run the tools, write to the          *)
(* destination under a Redis lock, record file history, the tracker's      *)
(* stages and the outcome (processing/files/processor.py, workflow/        *)
(* execution/service.py, workflow/destination_connector.py and core's      *)
(* file_execution_tracker.py).                                             *)
(*                                                                         *)
(* The lock's token is the worker that set it. The tools are one step that *)
(* succeeds or fails; their own stage, TOOL_EXECUTION, is left out.        *)
(***************************************************************************)
EXTENDS ActiveFiles

VARIABLES
    metadata,  \* executions with a METADATA.json of the file
    lock,      \* [Exec -> Worker or Nobody], the destination lock of the file
    wrote      \* [Worker -> {"none","data","error"}], its destination write

fileVars == <<vars, metadata, lock, wrote>>

\* The workers between taking the lock and giving it back.
Section == {"stage", "write", "release"}

FileInit ==
    /\ Init
    /\ metadata = {}
    /\ lock = [e \in Exec |-> Nobody]
    /\ wrote = [w \in Worker |-> "none"]

-----------------------------------------------------------------------------
(* FileExecutionStatusTracker.update_stage_status.                         *)

Rank == [s \in Stages |->
    CASE s = "none" -> 0 [] s = "init" -> 1 [] s = "dest" -> 2
      [] s = "final" -> 3 [] s = "completed" -> 4]

\* can_move_to, or an update within the stage.
CanMove(e, stage) == Rank[tracker[e].stage] <= Rank[stage]

SetTrack(e, stage, status) ==
    tracker' = [tracker EXCEPT ![e] = [stage |-> stage, status |-> status]]

\* A refused or failed update is logged by the caller, which goes on.
TryTrack(e, stage, status) ==
    \/ /\ CanMove(e, stage)
       /\ SetTrack(e, stage, status)
       /\ UNCHANGED faults
    \/ /\ ~CanMove(e, stage)
       /\ UNCHANGED <<tracker, faults>>
    \/ Fault("tracker") /\ UNCHANGED tracker

-----------------------------------------------------------------------------
(* process_file.                                                           *)

\* A file whose record has ended is somebody else's.
Validate(w) ==
    /\ step[w] = "validate"
    /\ Goto(w, IF record[batchOf[w]] \in Terminal THEN "done" ELSE "execute",
            "none")
    /\ UNCHANGED <<discovery, metadata, marker, database, tracker, lock,
                   wrote, faults>>

SetExecuting(w) ==
    /\ step[w] = "execute"
    /\ WriteRecord(batchOf[w], "EXECUTING")
    /\ Goto(w, "resume", "none")
    /\ UNCHANGED <<discovery, metadata, marker, tracker, lock, wrote>>

\* The tracker is started, unless it exists.
StartTrack(e) ==
    IF tracker[e] = NoTrack THEN SetTrack(e, "init", "running")
                            ELSE UNCHANGED tracker

\* Step 1, up to the tools. It fails before or after the tracker is started:
\* then the file failed, and _last_execution_error does not say so.
SetUp(w) ==
    \/ StartTrack(batchOf[w]) /\ Goto(w, "tool", "none")
    \/ StartTrack(batchOf[w]) /\ Goto(w, "dupcheck", "setup")
    \/ UNCHANGED tracker /\ Goto(w, "dupcheck", "setup")

\* Step 0: a file completed with success is a duplicate. Without an answer
\* the worker goes on, and the tracker may not be started either.
Resume(w) ==
    LET completed == tracker[batchOf[w]] =
                         [stage |-> "completed", status |-> "success"] IN
    /\ step[w] = "resume"
    /\ \/ /\ completed
          /\ Goto(w, "done", "none")
          /\ UNCHANGED <<tracker, faults>>
       \/ /\ ~completed
          /\ SetUp(w)
          /\ UNCHANGED faults
       \/ /\ Fault("tracker")
          /\ SetUp(w) \/ (UNCHANGED tracker /\ Goto(w, "tool", "none"))
    /\ UNCHANGED <<discovery, metadata, marker, database, lock, wrote>>

\* METADATA.json is written before the tools run. They are skipped once
\* another worker is past them.
RunTool(w) ==
    LET prepared == metadata \cup {batchOf[w]} IN
    /\ step[w] = "tool"
    /\ \/ /\ metadata' = prepared
          /\ Goto(w, "dupcheck", "ok")
          /\ UNCHANGED faults
       \/ /\ metadata' \in {metadata, prepared}
          /\ Goto(w, "dupcheck", "failed")
          /\ \/ /\ Rank[tracker[batchOf[w]].stage] < Rank["dest"]
                /\ UNCHANGED faults
             \/ Fault("tracker")
    /\ UNCHANGED <<discovery, marker, database, tracker, lock, wrote>>

\* Mutant: a skipped file is reported like a delivered one.
SkipReported(w) == Goto(w, "report", note[w])

\* processed=False: no stage is written, and no status unless the tools
\* failed.
Skip(w) == Goto(w, IF note[w] = "ok" THEN "done" ELSE "report", note[w])

\* Step 2.5.
CheckDuplicate(w) ==
    LET t == tracker[batchOf[w]] IN
    /\ step[w] = "dupcheck"
    /\ \/ /\ t.stage = "completed"
          /\ Goto(w, "done", "none")
          /\ UNCHANGED faults
       \/ /\ t = [stage |-> "dest", status |-> "success"]
          /\ Skip(w)
          /\ UNCHANGED faults
       \/ /\ t.stage # "completed"
          /\ t # [stage |-> "dest", status |-> "success"]
          /\ Goto(w, "guard", note[w])
          /\ UNCHANGED faults
       \/ Fault("tracker") /\ Goto(w, "guard", note[w])
    /\ UNCHANGED <<discovery, metadata, marker, database, tracker, lock, wrote>>

-----------------------------------------------------------------------------
(* _handle_destination_processing and handle_output.                       *)

\* _pg_destination_already_written: no over Celery, and when its lookup fails.
\* Before it, a workflow that was never read or that has no destination makes
\* the file fail without an entry in file history.
GuardWrite(w) ==
    LET written == batchOf[w] \in pg /\ history = "COMPLETED" IN
    /\ step[w] = "guard"
    /\ \/ written /\ Skip(w) /\ UNCHANGED faults
       \/ ~written /\ Goto(w, "lock", note[w]) /\ UNCHANGED faults
       \/ Fault("history") /\ Goto(w, "lock", note[w])
       \/ Goto(w, "finalize", "failed") /\ UNCHANGED faults
    /\ UNCHANGED <<discovery, metadata, marker, database, tracker, lock, wrote>>

\* Mutant: SET without NX.
LockAnyway(w) ==
    /\ lock' = [lock EXCEPT ![batchOf[w]] = w]
    /\ Goto(w, "stage", note[w])

Lock(w) ==
    /\ lock[batchOf[w]] = Nobody
    /\ lock' = [lock EXCEPT ![batchOf[w]] = w]
    /\ Goto(w, "stage", note[w])

\* Without Redis the write goes on without a lock or a stage.
AcquireLock(w) ==
    /\ step[w] = "lock"
    /\ \/ Lock(w) /\ UNCHANGED faults
       \/ /\ lock[batchOf[w]] # Nobody
          /\ Goto(w, "wait", note[w])
          /\ UNCHANGED <<lock, faults>>
       \/ Fault("lock") /\ Goto(w, "write", note[w]) /\ UNCHANGED lock
    /\ UNCHANGED <<discovery, metadata, marker, database, tracker, wrote>>

\* A poll that finds the lock gone, or a wait that ends with the lock held,
\* skips the file. A wait may also end just after the lock went: then the
\* lock is taken.
WaitForLock(w) ==
    /\ step[w] = "wait"
    /\ \/ Skip(w) /\ UNCHANGED lock
       \/ Lock(w)
    /\ UNCHANGED <<discovery, metadata, marker, database, tracker, wrote,
                   faults>>

\* The stage is refused once the other worker is past its own write; the
\* lock is then given back.
SetStage(w) ==
    LET e == batchOf[w] IN
    /\ step[w] = "stage"
    /\ \/ /\ CanMove(e, "dest")
          /\ SetTrack(e, "dest", "running")
          /\ Goto(w, "write", note[w])
          /\ UNCHANGED <<lock, faults>>
       \/ /\ ~CanMove(e, "dest")
          /\ lock' = [lock EXCEPT ![e] = Nobody]
          /\ Skip(w)
          /\ UNCHANGED <<tracker, faults>>
       \/ /\ Fault("tracker")
          /\ Goto(w, "write", note[w])
          /\ UNCHANGED <<tracker, lock>>
    /\ UNCHANGED <<discovery, metadata, marker, database, wrote>>

\* The data, or an error record when the file failed before. An exception
\* before the try (extraction, also without a METADATA.json, or manual
\* review) leaves the lock to its TTL.
WriteOutput(w) ==
    /\ step[w] = "write"
    /\ \/ /\ batchOf[w] \in metadata
          /\ \/ /\ wrote' = [wrote EXCEPT ![w] = IF note[w] = "ok" THEN "data"
                                                                   ELSE "error"]
                /\ Goto(w, "release", note[w])
             \/ Goto(w, "release", "failed") /\ UNCHANGED wrote
       \/ Goto(w, "history", "failed") /\ UNCHANGED wrote
    /\ UNCHANGED <<discovery, metadata, marker, database, tracker, lock,
                   faults>>

\* Whoever holds the lock by now.
ReleaseLock(w) ==
    /\ step[w] = "release"
    /\ \/ lock' = [lock EXCEPT ![batchOf[w]] = Nobody] /\ UNCHANGED faults
       \/ Fault("lock") /\ UNCHANGED lock
    /\ Goto(w, "history", note[w])
    /\ UNCHANGED <<discovery, metadata, marker, database, tracker, wrote>>

\* processing_error or _last_execution_error: a failed set-up is neither.
HistoryStatus(w) == IF note[w] = "failed" THEN "ERROR" ELSE "COMPLETED"

\* create_file_history replaces the status it finds. A refusal is logged, an
\* exception makes the file fail.
RecordHistory(w) ==
    LET next == IF note[w] = "ok" THEN "mark" ELSE "finalize" IN
    /\ step[w] = "history"
    /\ \/ /\ history' = HistoryStatus(w)
          /\ Goto(w, next, note[w])
          /\ UNCHANGED faults
       \/ /\ Fault("history")
          /\ Goto(w, next, note[w]) \/ Goto(w, "finalize", "failed")
          /\ UNCHANGED history
    /\ UNCHANGED <<discovery, metadata, marker, record, ended, tracker, lock,
                   wrote>>

-----------------------------------------------------------------------------
(* The end of execute_workflow_for_file and the status of the file.        *)

MarkDelivered(w) ==
    /\ step[w] = "mark"
    /\ TryTrack(batchOf[w], "dest", "success")
    /\ Goto(w, "finalize", note[w])
    /\ UNCHANGED <<discovery, metadata, marker, database, lock, wrote>>

Outcome(w) == IF note[w] = "ok" THEN "success" ELSE "failed"

\* FINALIZATION, then COMPLETED; a failure of the first skips the second.
Finalize(w) ==
    LET e == batchOf[w] IN
    /\ step[w] = "finalize"
    /\ \/ /\ CanMove(e, "final")
          /\ SetTrack(e, "final", Outcome(w))
          /\ Goto(w, "complete", note[w])
          /\ UNCHANGED faults
       \/ /\ ~CanMove(e, "final")
          /\ Goto(w, "report", note[w])
          /\ UNCHANGED <<tracker, faults>>
       \/ Fault("tracker") /\ Goto(w, "report", note[w]) /\ UNCHANGED tracker
    /\ UNCHANGED <<discovery, metadata, marker, database, lock, wrote>>

Complete(w) ==
    /\ step[w] = "complete"
    /\ TryTrack(batchOf[w], "completed", Outcome(w))
    /\ Goto(w, "report", note[w])
    /\ UNCHANGED <<discovery, metadata, marker, database, lock, wrote>>

\* Mutant: a file that failed is left as it is.
ReportSuccess(w) ==
    /\ step[w] = "report"
    /\ IF note[w] = "ok" THEN WriteRecord(batchOf[w], "COMPLETED")
                         ELSE UNCHANGED <<database, faults>>
    /\ Goto(w, "done", note[w])
    /\ UNCHANGED <<discovery, metadata, marker, tracker, lock, wrote>>

\* _update_file_execution_status.
Report(w) ==
    /\ step[w] = "report"
    /\ WriteRecord(batchOf[w], IF note[w] = "ok" THEN "COMPLETED" ELSE "ERROR")
    /\ Goto(w, "done", note[w])
    /\ UNCHANGED <<discovery, metadata, marker, tracker, lock, wrote>>

-----------------------------------------------------------------------------
(* The keys expire. While a worker relies on one, that is a fault.         *)

LockLapses(e) ==
    /\ lock[e] # Nobody
    /\ IF step[lock[e]] \in Section THEN Fault("lock") ELSE UNCHANGED faults
    /\ lock' = [lock EXCEPT ![e] = Nobody]
    /\ UNCHANGED <<discovery, metadata, marker, database, tracker, batch,
                   wrote>>

TrackerLapses(e) ==
    /\ tracker[e] # NoTrack
    /\ IF \E w \in Worker : batchOf[w] = e /\ step[w] \in Running
       THEN Fault("tracker") ELSE UNCHANGED faults
    /\ tracker' = [tracker EXCEPT ![e] = NoTrack]
    /\ UNCHANGED <<discovery, metadata, marker, database, batch, lock, wrote>>

Deliver(w) ==
    \/ Validate(w) \/ SetExecuting(w) \/ Resume(w) \/ RunTool(w)
    \/ CheckDuplicate(w) \/ GuardWrite(w) \/ AcquireLock(w) \/ WaitForLock(w)
    \/ SetStage(w) \/ WriteOutput(w) \/ ReleaseLock(w) \/ RecordHistory(w)
    \/ MarkDelivered(w) \/ Finalize(w) \/ Complete(w) \/ Report(w)

FileNext ==
    \/ ActiveFilesNext /\ UNCHANGED <<metadata, lock, wrote>>
    \/ \E w \in Worker : Deliver(w)
    \/ \E e \in Exec : LockLapses(e) \/ TrackerLapses(e)

FileSpec == FileInit /\ [][FileNext]_fileVars

-----------------------------------------------------------------------------
\* The types of the file, the lock and what was written (process_file and
\* handle_output leave every key and status in its range).
FileTypeOK ==
    /\ TypeOK
    /\ metadata \in SUBSET Exec
    /\ lock \in [Exec -> Worker \cup {Nobody}]
    /\ wrote \in [Worker -> {"none", "data", "error"}]

Delivered == {w \in Worker : wrote[w] = "data"}

\* Two executions took the file, and each looked for the marker of the other
\* before it was there.
Crossing ==
    \E e, f \in Admitted : e # f /\ e \notin ahead[f] /\ f \notin ahead[e]

Redelivered(e) ==
    \E v, w \in Worker :
        /\ v # w
        /\ batchOf[v] = e /\ batchOf[w] = e
        /\ step[v] # "idle" /\ step[w] # "idle"

(***************************************************************************)
(* Executions on the Postgres queue do not deliver a file twice: the       *)
(* marker of the first is there until its record is PENDING, the record is *)
(* active until file history has the file, and the write guard reads       *)
(* history. This takes that no two looked for a marker before the other    *)
(* had set it (_check_active_files_batch; the README names what happens    *)
(* otherwise, also to a third), that no worker died and no call or marker  *)
(* failed; the lock and the tracker are not needed.                        *)
(***************************************************************************)
OneExecutionDelivers ==
    /\ faults \subseteq {"lock", "tracker", "lookup"}
    /\ Admitted \subseteq pg
    /\ ~Crossing
    => \A v, w \in Delivered : batchOf[v] = batchOf[w]

(***************************************************************************)
(* Two deliveries of one batch are never both between taking the           *)
(* destination lock and giving it back (_check_and_acquire_destination_    *)
(* lock, handle_output), unless the lock ran out under its holder or Redis *)
(* failed: whatever dies, is refused or is skipped on the way.             *)
(***************************************************************************)
WritersExcludeEachOther ==
    \A v, w \in Worker :
        /\ v # w /\ batchOf[v] = batchOf[w]
        /\ step[v] \in Section /\ step[w] \in Section
        => "lock" \in faults

\* The workers that wrote the error of a failed set-up: file history takes
\* them for deliveries.
Misrecorded == {w \in Worker : note[w] = "setup" /\ wrote[w] = "error"}

(***************************************************************************)
(* Nothing says a file succeeded that nobody wrote: not the record or the  *)
(* tracker of an execution none of whose workers wrote the data            *)
(* (_build_final_result and process_file treat a duplicate as success=True,*)
(* processed=False), and not file history, unless a set-up failed: that    *)
(* leaves _last_execution_error unset, and where an earlier delivery left  *)
(* a METADATA.json the error is written and the entry is COMPLETED.        *)
(***************************************************************************)
SuccessMeansDelivered ==
    /\ history = "COMPLETED" => Delivered \cup Misrecorded # {}
    /\ \A e \in Exec :
          record[e] = "COMPLETED" \/ tracker[e].status = "success" =>
              \E w \in Delivered : batchOf[w] = e

(***************************************************************************)
(* The executions do not all leave a file to each other, nor the workers   *)
(* of an execution: when every admitted execution is through with it, its  *)
(* data was written or its processing failed. This takes that no worker    *)
(* died, no call to the backend failed and no worker was turned away by a  *)
(* tracker it could not read, and that no batch of several executions was  *)
(* delivered twice when they crossed or the marker was lost or overlooked  *)
(* (_check_file_already_active).                                           *)
(***************************************************************************)
FileIsHandled ==
    /\ faults \cap {"crash", "status", "lookup"} = {}
    /\ Admitted # {}
    /\ \A e \in Admitted : \E w \in Worker : batchOf[w] = e /\ step[w] = "done"
    /\ \A w \in Worker : step[w] \in {"idle", "done"}
    => \/ \E w \in Worker : wrote[w] = "data" \/ note[w] \in {"failed", "setup"}
       \/ /\ \E e, f \in Admitted : e # f /\ Redelivered(e)
          /\ Crossing \/ faults \cap {"check", "marker"} # {}

(***************************************************************************)
(* A file is not left PENDING or EXECUTING: once the only delivery of its  *)
(* batch is through, its record has ended, unless another execution        *)
(* delivered it or recorded it so after a failed set-up (the write guard   *)
(* then skips it and nobody writes a status, _handle_file_processing_      *)
(* result), or a status write failed.                                      *)
(***************************************************************************)
NoFileLeftActive ==
    \A w \in Worker :
        /\ step[w] = "done" /\ record[batchOf[w]] \in Active
        => \/ \E v \in Delivered \cup Misrecorded : batchOf[v] # batchOf[w]
           \/ Redelivered(batchOf[w])
           \/ "status" \in faults
=============================================================================
