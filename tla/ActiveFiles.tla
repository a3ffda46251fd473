---------------------------- MODULE ActiveFiles ----------------------------
(***************************************************************************)
(* One source file of an ETL workflow, several executions of the workflow, *)
(* and the guards that keep two of them from processing it: the filters of *)
(* discovery (shared/processing/filter_pipeline.py), the Redis marker      *)
(* "file_active:..." (active_file_manager.py) and the pre-creation of the  *)
(* file execution record by the worker of a batch (_pre_create_file_       *)
(* executions of file_processing/tasks.py). What a worker does once its    *)
(* batch starts on the file is module FileDelivery.                        *)
(*                                                                         *)
(* A worker is one delivery of one batch message; two workers of the same  *)
(* execution are a message and its redelivery. On the Postgres queue       *)
(* claim_batch lets one of them run (module PgBarrier); over Celery both   *)
(* may, and the checks that are for the Postgres queue only are absent.    *)
(* Both checks for other executions read the marker first and then, in a   *)
(* step of its own, the file execution records.                            *)
(***************************************************************************)
EXTENDS Naturals, FiniteSets

CONSTANTS
    Exec,      \* executions of the workflow that discover the file
    Worker,    \* deliveries of the batch messages
    MaxFaults  \* bound on the kinds of fault in one behaviour

Nobody == "nobody"

ASSUME ActiveFilesAssumption ==
    /\ MaxFaults \in Nat
    /\ Nobody \notin Exec \cup Worker

VARIABLES
    pg,       \* executions dispatched over the Postgres queue
    scan,     \* [Exec -> Scans], how far discovery of the file is
    ahead,    \* [Exec -> SUBSET Exec], admitted before this one looked
    marker,   \* the execution in the active-file key, or Nobody
    record,   \* [Exec -> Records], status of the file execution record
    history,  \* status of the file history entry
    tracker,  \* [Exec -> Tracks], Redis stage of the file execution
    ended,    \* executions with a terminal status
    batchOf,  \* [Worker -> Exec]
    step,     \* [Worker -> Steps]
    note,     \* [Worker -> Notes], what the worker remembers
    faults    \* the kinds of fault so far

discovery == <<pg, scan, ahead>>
database == <<record, history, ended>>
batch == <<batchOf, step, note>>
vars == <<discovery, marker, database, tracker, batch, faults>>

Scans == {"off", "filter", "records", "mark", "admitted", "refused"}
Records == {"none", "new", "PENDING", "EXECUTING", "COMPLETED", "ERROR"}
Terminal == {"COMPLETED", "ERROR"}
Active == {"PENDING", "EXECUTING"}
Stages == {"none", "init", "dest", "final", "completed"}
Tracks == [stage : Stages, status : {"none", "running", "success", "failed"}]
NoTrack == [stage |-> "none", status |-> "none"]

PreCreateSteps ==
    {"check", "records", "create", "refuse", "prepare", "pend", "cleanup"}
DeliverySteps ==
    {"validate", "execute", "resume", "tool", "dupcheck", "guard", "lock",
     "wait", "stage", "write", "release", "history", "mark", "finalize",
     "complete", "report"}
Running == PreCreateSteps \cup DeliverySteps
Steps == Running \cup {"idle", "done", "dead"}
Notes == {"none", "free", "duplicate", "new", "PENDING", "EXECUTING",
          "go", "stop", "ok", "failed", "setup"}

\* A worker dies; the marker or its checks, a call to the backend, the
\* lock or the tracker fails, or the key expires while it is relied on;
\* "lookup" is the tracker that cannot be read when the file is prepared.
Kinds == {"crash", "marker", "check", "status", "history", "lock", "tracker",
          "lookup"}

Init ==
    /\ pg \in SUBSET Exec
    /\ scan = [e \in Exec |-> "off"]
    /\ ahead = [e \in Exec |-> {}]
    /\ marker = Nobody
    /\ record = [e \in Exec |-> "none"]
    /\ history = "none"
    /\ tracker = [e \in Exec |-> NoTrack]
    /\ ended = {}
    /\ batchOf \in [Worker -> Exec]
    /\ step = [w \in Worker |-> "idle"]
    /\ note = [w \in Worker |-> "none"]
    /\ faults = {}

Admitted == {e \in Exec : scan[e] = "admitted"}

Fault(kind) ==
    /\ faults' = faults \cup {kind}
    /\ Cardinality(faults') <= MaxFaults

-----------------------------------------------------------------------------
(* Discovery by an execution (general worker, before the fan-out).         *)

\* check_files_active_processing: another execution that has not ended holds
\* the file in a record that has not ended.
ActiveRecord(e) ==
    \E f \in Exec \ (ended \cup {e}) : record[f] \in Active

MarkedByOther(e) == marker \notin {Nobody, e}

\* FileHistoryFilter: the file was completed at this path.
ReadHistory(e) ==
    /\ scan[e] = "off"
    /\ scan' = [scan EXCEPT ![e] =
                   IF history = "COMPLETED" THEN "refused" ELSE "filter"]
    /\ UNCHANGED <<pg, ahead, marker, database, tracker, batch, faults>>

Pass(e, stage) == scan' = [scan EXCEPT ![e] = stage]

\* ActiveFileFilter, first the marker, then the records. Both of its checks
\* swallow their errors.
FilterMarker(e) ==
    /\ scan[e] = "filter"
    /\ ahead' = [ahead EXCEPT ![e] = Admitted]
    /\ \/ Pass(e, IF MarkedByOther(e) THEN "refused" ELSE "records")
          /\ UNCHANGED faults
       \/ Fault("check") /\ Pass(e, "records")
    /\ UNCHANGED <<pg, marker, database, tracker, batch>>

FilterRecords(e) ==
    /\ scan[e] = "records"
    /\ \/ Pass(e, IF ActiveRecord(e) THEN "refused" ELSE "mark")
          /\ UNCHANGED faults
       \/ Fault("check") /\ Pass(e, "mark")
    /\ UNCHANGED <<pg, ahead, marker, database, tracker, batch>>

\* create_cache_entries_simple, once discovery has selected its files: the
\* key is set whoever holds it, and a failure is only logged.
Mark(e) ==
    /\ scan[e] = "mark"
    /\ scan' = [scan EXCEPT ![e] = "admitted"]
    /\ \/ marker' = e /\ UNCHANGED faults
       \/ Fault("marker") /\ UNCHANGED marker
    /\ UNCHANGED <<pg, ahead, database, tracker, batch>>

MarkerLapses ==
    /\ marker # Nobody
    /\ Fault("marker")
    /\ marker' = Nobody
    /\ UNCHANGED <<discovery, database, tracker, batch>>

-----------------------------------------------------------------------------
(* _pre_create_file_executions, by the worker of a batch.                  *)

Goto(w, s, n) ==
    /\ step' = [step EXCEPT ![w] = s]
    /\ note' = [note EXCEPT ![w] = n]
    /\ UNCHANGED batchOf

\* update_file_execution_status: any status over any other; a failure of the
\* call is swallowed by every caller.
WriteRecord(e, status) ==
    /\ \/ record' = [record EXCEPT ![e] = status] /\ UNCHANGED faults
       \/ Fault("status") /\ UNCHANGED record
    /\ UNCHANGED <<history, ended>>

\* A batch of the Postgres queue is claimed by its first delivery, and not
\* started when its execution has ended.
Start(w) ==
    LET e == batchOf[w] IN
    /\ step[w] = "idle"
    /\ e \in Admitted
    /\ e \in pg =>
          /\ e \notin ended
          /\ \A v \in Worker : batchOf[v] = e => step[v] = "idle"
    /\ Goto(w, "check", "none")
    /\ UNCHANGED <<discovery, marker, database, tracker, faults>>

\* Mutant: any marker is taken for another execution's.
AnyMarkerIsDuplicate(w) ==
    /\ step[w] = "check"
    /\ IF marker # Nobody THEN Goto(w, "create", "duplicate")
                         ELSE Goto(w, "records", "none")
    /\ UNCHANGED <<discovery, marker, database, tracker, faults>>

\* _check_file_already_active: the own marker answers without a look at the
\* database; without a marker, or without Redis, the records do.
CheckMarker(w) ==
    LET e == batchOf[w] IN
    /\ step[w] = "check"
    /\ \/ MarkedByOther(e) /\ Goto(w, "create", "duplicate") /\ UNCHANGED faults
       \/ marker = e /\ Goto(w, "create", "free") /\ UNCHANGED faults
       \/ marker = Nobody /\ Goto(w, "records", "none") /\ UNCHANGED faults
       \/ Fault("check") /\ Goto(w, "records", "none")
    /\ UNCHANGED <<discovery, marker, database, tracker>>

\* A file that could not be looked up is free.
CheckRecords(w) ==
    /\ step[w] = "records"
    /\ \/ /\ Goto(w, "create",
                  IF ActiveRecord(batchOf[w]) THEN "duplicate" ELSE "free")
          /\ UNCHANGED faults
       \/ Fault("check") /\ Goto(w, "create", "free")
    /\ UNCHANGED <<discovery, marker, database, tracker>>

\* get_or_create_workflow_file_execution: a created record has no status yet.
GetOrCreate(w) ==
    LET e == batchOf[w] IN
    /\ step[w] = "create"
    /\ \/ /\ record[e] \in Terminal
          /\ Goto(w, "cleanup", "stop")
          /\ UNCHANGED <<record, faults>>
       \/ /\ record[e] \notin Terminal
          /\ record' = [record EXCEPT ![e] = IF @ = "none" THEN "new" ELSE @]
          /\ IF note[w] = "duplicate"
             THEN Goto(w, "refuse", "none")
             ELSE Goto(w, "prepare", record'[e])
          /\ UNCHANGED faults
       \/ Fault("status") /\ Goto(w, "cleanup", "stop") /\ UNCHANGED record
    /\ UNCHANGED <<discovery, marker, history, ended, tracker>>

\* The duplicate keeps a record, in ERROR.
Refuse(w) ==
    /\ step[w] = "refuse"
    /\ WriteRecord(batchOf[w], "ERROR")
    /\ Goto(w, "cleanup", "stop")
    /\ UNCHANGED <<discovery, marker, tracker>>

\* The stage of the file, then the record as it was read on creation. When
\* the stage cannot be read, the exception leaves the file to nobody.
Prepare(w) ==
    /\ step[w] = "prepare"
    /\ \/ /\ tracker[batchOf[w]].stage \in {"final", "completed"}
          /\ Goto(w, "cleanup", "stop")
          /\ UNCHANGED faults
       \/ /\ tracker[batchOf[w]].stage \notin {"final", "completed"}
          /\ IF note[w] = "EXECUTING" THEN Goto(w, "cleanup", "go")
                                      ELSE Goto(w, "pend", "go")
          /\ UNCHANGED faults
       \/ Fault("lookup") /\ Goto(w, "cleanup", "stop")
    /\ UNCHANGED <<discovery, marker, database, tracker>>

\* Mutant: the marker goes before the record is PENDING.
UnmarkThenPend(w) ==
    /\ step[w] = "pend"
    /\ \/ marker' = Nobody /\ UNCHANGED <<record, batch>>
       \/ /\ marker = Nobody
          /\ record' = [record EXCEPT ![batchOf[w]] = "PENDING"]
          /\ Goto(w, "cleanup", "go")
          /\ UNCHANGED marker
    /\ UNCHANGED <<discovery, history, ended, tracker, faults>>

SetPending(w) ==
    /\ step[w] = "pend"
    /\ WriteRecord(batchOf[w], "PENDING")
    /\ Goto(w, "cleanup", "go")
    /\ UNCHANGED <<discovery, marker, tracker>>

\* _cleanup_file_cache_entry, in the finally: it deletes the key whoever set
\* it. The files that were pre-created are then processed.
Cleanup(w) ==
    /\ step[w] = "cleanup"
    /\ \/ marker' = Nobody /\ UNCHANGED faults
       \/ Fault("marker") /\ UNCHANGED marker
    /\ Goto(w, IF note[w] = "go" THEN "validate" ELSE "done", note[w])
    /\ UNCHANGED <<discovery, database, tracker>>

-----------------------------------------------------------------------------
(* The end of workers and executions.                                      *)

Crash(w) ==
    /\ step[w] \in Running
    /\ Fault("crash")
    /\ Goto(w, "dead", note[w])
    /\ UNCHANGED <<discovery, marker, database, tracker>>

\* The callback ends the execution once a delivery of its batch has counted.
EndExecution(e) ==
    /\ e \in Admitted \ ended
    /\ \E w \in Worker : batchOf[w] = e /\ step[w] = "done"
    /\ ended' = ended \cup {e}
    /\ UNCHANGED <<discovery, marker, record, history, tracker, batch, faults>>

\* The claim of a worker that died bars the redelivery: the reaper fails the
\* execution, and _cascade_terminal_files its file.
RecoverExecution(e) ==
    /\ e \in (pg \cap Admitted) \ ended
    /\ \E w \in Worker : batchOf[w] = e /\ step[w] = "dead"
    /\ ended' = ended \cup {e}
    /\ record' = [record EXCEPT ![e] =
                     IF @ \in {"none"} \cup Terminal THEN @ ELSE "ERROR"]
    /\ UNCHANGED <<discovery, marker, history, tracker, batch, faults>>

ActiveFilesNext ==
    \/ \E e \in Exec :
          \/ ReadHistory(e) \/ FilterMarker(e) \/ FilterRecords(e) \/ Mark(e)
          \/ EndExecution(e) \/ RecoverExecution(e)
    \/ \E w \in Worker :
          \/ Start(w) \/ CheckMarker(w) \/ CheckRecords(w) \/ GetOrCreate(w)
          \/ Refuse(w) \/ Prepare(w) \/ SetPending(w) \/ Cleanup(w) \/ Crash(w)
    \/ MarkerLapses

\* The types of discovery, of the batches and of what they share.
TypeOK ==
    /\ pg \in SUBSET Exec
    /\ scan \in [Exec -> Scans]
    /\ ahead \in [Exec -> SUBSET Exec]
    /\ marker \in Exec \cup {Nobody}
    /\ record \in [Exec -> Records]
    /\ history \in {"none"} \cup Terminal
    /\ tracker \in [Exec -> Tracks]
    /\ ended \in SUBSET Exec
    /\ batchOf \in [Worker -> Exec]
    /\ step \in [Worker -> Steps]
    /\ note \in [Worker -> Notes]
    /\ faults \in SUBSET Kinds
=============================================================================
