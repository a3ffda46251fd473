------------------------- MODULE PgScheduler_proofs -------------------------
(***************************************************************************)
(* Theorems about PgScheduler. That no value of next_run_at is fired twice *)
(* holds for a sole leader (theorem LeaseKeepsActorSole of                 *)
(* ReaperLeadership_proofs says when there is one): the tick's row and the *)
(* stored row name values not fired yet, and only the tick fires.          *)
(*                                                                         *)
(* That the next run follows the cron, that no resume fires at once and    *)
(* that an active schedule has one firer need no sole leader. They hold    *)
(* because a save and a convergence write what they read; a read that is   *)
(* overtaken is told by "lost", and the value that a save leaves when it   *)
(* cannot read is in "left".                                               *)
(***************************************************************************)
EXTENDS PgScheduler, TLAPS

\* What a write of the row must respect for the types to be kept.
LEMMA SetRowType ==
    ASSUME TypeOK, NEW new \in Row, SetRow(new)
    PROVE  /\ row' \in Row
           /\ due' \in BOOLEAN
           /\ due' => row'.next # None
           /\ period' \in Nat
<1>1. row' = new
  BY DEF SetRow
<1>2. due' <=> due /\ new.next = row.next
  BY DEF SetRow, TypeOK
<1>3. due' \in BOOLEAN
  BY Zenon DEF SetRow, TypeOK
<1>4. due' => row'.next # None
  BY <1>1, <1>2 DEF TypeOK
<1>5. period' \in {period, period + 1}
  BY DEF SetRow
<1> QED BY <1>1, <1>3, <1>4, <1>5 DEF TypeOK

\* A new value of next_run_at is well-formed while the bound allows one.
LEMMA NextRunType ==
    ASSUME TypeOK, ConstantAssumption, NEW c \in Cron, values < MaxValues
    PROVE  /\ NextRun(c) \in RunTime
           /\ NextRun(c).serial = values + 1
BY DEF TypeOK, ConstantAssumption, NextRun, RunTime, Serial

\* The advance of the tick keeps the types.
LEMMA AdvanceType ==
    ASSUME TypeOK, ConstantAssumption, NEW r \in Reaper, seen[r] # None,
           Parses(seen[r].cron), Advance(r)
    PROVE  /\ row' \in Row
           /\ due' \in BOOLEAN
           /\ due' => row'.next # None
           /\ period' \in Nat
           /\ values' \in 0..MaxValues
           /\ lost' \in BOOLEAN
           /\ seen' \in [Reaper -> Row \cup {None}]
<1> DEFINE new == [row EXCEPT !.next = NextRun(seen[r].cron)]
<1>1. seen[r] \in Row
  BY DEF TypeOK
<1>2. seen[r].cron \in Cron
  BY <1>1 DEF Row, Parses
<1>3. values < MaxValues /\ values' = values + 1
  BY DEF Advance, NewValue
<1>4. NextRun(seen[r].cron) \in RunTime
  BY <1>2, <1>3, NextRunType
<1>5. new \in Row
  BY <1>4 DEF TypeOK, Row
<1>6. SetRow(new)
  BY DEF Advance
<1>7. /\ row' \in Row
      /\ due' \in BOOLEAN
      /\ due' => row'.next # None
      /\ period' \in Nat
  BY <1>5, <1>6, SetRowType
<1>8. values' \in 0..MaxValues
  BY <1>3 DEF TypeOK, ConstantAssumption
<1>9. lost' \in BOOLEAN /\ seen' \in [Reaper -> Row \cup {None}]
  BY DEF TypeOK, Advance, RowDone, Overtaken
<1> QED BY <1>7, <1>8, <1>9

\* A transaction of reconcile_ownership_for keeps the types.
LEMMA ReconcileType ==
    ASSUME TypeOK, NEW g \in BOOLEAN, NEW a \in BOOLEAN,
           ReconcileOwnership(g, a)
    PROVE  /\ row' \in Row
           /\ due' \in BOOLEAN
           /\ due' => row'.next # None
           /\ period' \in Nat
           /\ beat' \in BOOLEAN
<1> DEFINE new == [row EXCEPT !.owned = g,
                              !.next = IF g /\ row.owned THEN @ ELSE None]
<1>1. CASE g \/ row.owned
  <2>1. new \in Row
    BY DEF TypeOK, Row
  <2>2. SetRow(new) /\ beat' = (a /\ ~g)
    BY <1>1 DEF ReconcileOwnership, Own
  <2> QED BY <2>1, <2>2, SetRowType
<1>2. CASE ~(g \/ row.owned)
  BY <1>2 DEF ReconcileOwnership, TypeOK
<1> QED BY <1>1, <1>2

\* Steps of the tick.
LEMMA TickType ==
    ASSUME TypeOK, ConstantAssumption, NEW r \in Reaper, Tick(r)
    PROVE  TypeOK'
<1>1. CASE Scan(r)
  BY <1>1 DEF TypeOK, Scan, saveVars, deployVars
<1>2. CASE Quiesce(r)
  <2> DEFINE new == [row EXCEPT !.enabled = FALSE]
  <2>1. new \in Row
    BY DEF TypeOK, Row
  <2>2. SetRow(new)
    BY <1>2 DEF Quiesce
  <2>3. /\ row' \in Row
        /\ due' \in BOOLEAN
        /\ due' => row'.next # None
        /\ period' \in Nat
    BY <2>1, <2>2, SetRowType
  <2>4. lost' \in BOOLEAN /\ seen' \in [Reaper -> Row \cup {None}]
    BY <1>2 DEF TypeOK, Quiesce, RowDone, Overtaken
  <2> QED BY <1>2, <2>3, <2>4 DEF TypeOK, Quiesce, saveVars, deployVars
<1>3. CASE Baseline(r)
  BY <1>3, AdvanceType DEF TypeOK, Baseline, saveVars, deployVars
<1>4. CASE Fire(r)
  <2>1. seen[r].next.serial \in Serial
    BY <1>4 DEF TypeOK, Fire, Row, RunTime
  <2>2. fired' \in [Serial -> Nat]
    BY <1>4, <2>1 DEF TypeOK, Fire, Enqueue
  <2> QED BY <1>4, <2>2, AdvanceType DEF TypeOK, Fire, saveVars, deployVars
<1>5. CASE TickFails(r)
  BY <1>5 DEF TypeOK, TickFails, RowDone, Fault, saveVars, deployVars
<1> QED BY <1>1, <1>2, <1>3, <1>4, <1>5 DEF Tick

\* What the upsert writes to next_run_at, in every case.
LEMMA PlanCases ==
    Plan \in {row.next, None, NextRun(save.cron)}
BY DEF Plan

\* Steps of a save.
LEMMA SaveType ==
    ASSUME TypeOK, ConstantAssumption, Save
    PROVE  TypeOK'
<1>1. CASE BeginSave
  <2>1. PICK a \in BOOLEAN, c \in Cron :
            /\ active' = a
            /\ save' = [at |-> "task", active |-> a, cron |-> c, gate |-> gate,
                        read |-> None, ok |-> TRUE]
    BY <1>1 DEF BeginSave
  <2>2. save' \in SaveState /\ save'.cron \in Cron
    BY <2>1 DEF TypeOK, SaveState, SaveSteps
  <2> QED BY <1>1, <2>1, <2>2 DEF TypeOK, BeginSave, tickVars, deployVars
<1>2. CASE WriteTask
  BY <1>2 DEF TypeOK, WriteTask, GoTo, SaveState, SaveSteps, tickVars,
              deployVars
<1>3. CASE ReadMirror
  BY <1>3 DEF TypeOK, ReadMirror, SaveState, SaveSteps, tickVars, deployVars
<1>9. CASE PlanFails
  <2>1. save' \in SaveState /\ save'.cron = save.cron /\ save.at = "read"
    BY <1>9 DEF TypeOK, PlanFails, SaveState, SaveSteps
  <2> QED BY <1>9, <2>1 DEF TypeOK, PlanFails, Fault, tickVars, deployVars
<1>4. CASE Upsert
  <2> DEFINE new == [row EXCEPT !.cron = save.cron, !.enabled = save.active,
                                !.next = Plan]
  <2>1. save.cron \in Cron
    BY <1>4 DEF TypeOK, Upsert
  <2>2. Plan \in RunTime \cup {None} /\ values' \in 0..MaxValues
    <3>1. CASE Plan \in {None, row.next}
      BY <1>4, <3>1 DEF TypeOK, Upsert, Row
    <3>2. CASE Plan \notin {None, row.next}
      <4>1. Plan = NextRun(save.cron)
        BY <3>2, PlanCases
      <4>2. values < MaxValues /\ values' = values + 1
        BY <1>4, <3>2 DEF Upsert, NewValue
      <4> QED BY <2>1, <4>1, <4>2, NextRunType DEF TypeOK, ConstantAssumption
    <3> QED BY <3>1, <3>2
  <2>3. new \in Row
    BY <2>1, <2>2 DEF TypeOK, Row, SaveState
  <2>4. SetRow(new)
    BY <1>4 DEF Upsert
  <2>5. /\ row' \in Row
        /\ due' \in BOOLEAN
        /\ due' => row'.next # None
        /\ period' \in Nat
    BY <2>3, <2>4, SetRowType
  <2>6. save' \in SaveState /\ save'.cron \in Cron
    BY <1>4, <2>1 DEF TypeOK, Upsert, GoTo, SaveState, SaveSteps
  <2>7. lost' \in BOOLEAN
    BY <1>4 DEF TypeOK, Upsert
  <2>8. left' \subseteq Serial
    BY <1>4 DEF TypeOK, Upsert, Row, RunTime
  <2> QED BY <1>4, <2>2, <2>5, <2>6, <2>7, <2>8
          DEF TypeOK, Upsert, tickVars, deployVars
<1>5. CASE UpsertFails
  <2>1. save' \in SaveState /\ save'.cron = save.cron
    BY <1>5 DEF TypeOK, UpsertFails, Fails, SaveState, SaveSteps
  <2> QED BY <1>5, <2>1
          DEF TypeOK, UpsertFails, Fails, Fault, tickVars, deployVars
<1>6. CASE Reconcile
  <2>1. save.gate \in BOOLEAN /\ save.active \in BOOLEAN
    BY DEF TypeOK, SaveState
  <2>2. /\ row' \in Row
        /\ due' \in BOOLEAN
        /\ due' => row'.next # None
        /\ period' \in Nat
        /\ beat' \in BOOLEAN
    BY <1>6, <2>1, ReconcileType DEF Reconcile
  <2>3. NoSave \in SaveState /\ NoSave.at = "idle"
    BY DEF NoSave, SaveState, SaveSteps
  <2>4. torn' \in BOOLEAN
    BY <1>6 DEF TypeOK, Reconcile
  <2> QED BY <1>6, <2>2, <2>3, <2>4 DEF TypeOK, Reconcile, tickVars, deployVars
<1>7. CASE ReconcileFails
  <2>1. save' \in SaveState /\ save'.at = "idle"
    BY <1>7 DEF ReconcileFails, NoSave, SaveState, SaveSteps
  <2> QED BY <1>7, <2>1
          DEF TypeOK, ReconcileFails, Fault, tickVars, deployVars
<1>8. CASE SaveDies
  <2>1. save' \in SaveState /\ save'.at = "idle"
    BY <1>8 DEF SaveDies, NoSave, SaveState, SaveSteps
  <2> QED BY <1>8, <2>1 DEF TypeOK, SaveDies, Fault, tickVars, deployVars
<1> QED BY <1>1, <1>2, <1>3, <1>4, <1>5, <1>6, <1>7, <1>8, <1>9 DEF Save

\* Steps of a convergence.
LEMMA ConvergenceType ==
    ASSUME TypeOK, Convergence
    PROVE  TypeOK'
<1>1. CASE Deploy
  <2>1. converge' \in ConvergeState
    BY <1>1 DEF Deploy, NoConverge, ConvergeState
  <2> QED BY <1>1, <2>1 DEF TypeOK, Deploy, tickVars, saveVars
<1>2. CASE ConvergeRead
  BY <1>2 DEF TypeOK, ConvergeRead, NoConverge, ConvergeState, Row, tickVars,
              saveVars
<1>3. CASE ConvergeReconcile
  <2>1. converge.active \in BOOLEAN /\ gate \in BOOLEAN
    BY DEF TypeOK, ConvergeState
  <2>2. /\ row' \in Row
        /\ due' \in BOOLEAN
        /\ due' => row'.next # None
        /\ period' \in Nat
        /\ beat' \in BOOLEAN
    BY <1>3, <2>1, ReconcileType DEF ConvergeReconcile
  <2>3. lost' \in BOOLEAN /\ converge' \in ConvergeState
    BY <1>3 DEF TypeOK, ConvergeReconcile, NoConverge, ConvergeState
  <2> QED BY <1>3, <2>2, <2>3 DEF TypeOK, ConvergeReconcile, tickVars, saveVars
<1>4. CASE ConvergeFails
  BY <1>4 DEF TypeOK, ConvergeFails, Fault, NoConverge, ConvergeState,
              tickVars, saveVars
<1> QED BY <1>1, <1>2, <1>3, <1>4 DEF Convergence

LEMMA InitType ==
    ASSUME Init, ConstantAssumption
    PROVE  TypeOK
<1>1. row \in Row
  BY DEF Init, Row
<1>2. save \in SaveState /\ save.at = "idle"
  BY DEF Init, NoSave, SaveState, SaveSteps
<1>3. converge \in ConvergeState
  BY DEF Init, NoConverge, ConvergeState
<1>4. beat \in BOOLEAN
  BY Zenon DEF Init
<1>5. /\ seen \in [Reaper -> Row \cup {None}]
      /\ fired \in [Serial -> Nat]
      /\ values \in 0..MaxValues
  BY DEF Init, ConstantAssumption
<1>6. due = FALSE /\ lost = FALSE /\ torn = FALSE /\ left = {}
  BY Zenon DEF Init
<1>7. /\ active \in BOOLEAN /\ gate \in BOOLEAN
      /\ period \in Nat /\ saves \in Nat /\ deploys \in Nat /\ faults \in Nat
  BY DEF Init
<1> QED BY <1>1, <1>2, <1>3, <1>4, <1>5, <1>6, <1>7 DEF TypeOK

LEMMA NextType ==
    ASSUME TypeOK, ConstantAssumption, [Next]_vars
    PROVE  TypeOK'
<1>1. CASE TimePasses
  BY <1>1 DEF TypeOK, TimePasses, tickVars, saveVars, deployVars
<1>2. CASE UNCHANGED vars
  BY <1>2 DEF TypeOK, vars, tickVars, saveVars, deployVars
<1> QED BY <1>1, <1>2, TickType, SaveType, ConvergenceType DEF Next

(***************************************************************************)
(* Every variable has its type in every reachable state.                   *)
(***************************************************************************)
THEOREM TypeCorrect == Spec => []TypeOK
<1>1. Init => TypeOK
  BY InitType, ConstantAssumption
<1>2. TypeOK /\ [Next]_vars => TypeOK'
  BY NextType, ConstantAssumption
<1> QED BY <1>1, <1>2, PTL DEF Spec

-----------------------------------------------------------------------------
\* A next_run_at, stored or scanned, that is not NULL has not been fired.
Unfired(next) ==
    next # None => next.serial \in 1..values /\ fired[next.serial] = 0

\* FiresOnce alone does not say that what the tick holds is still unfired.
FireInv ==
    /\ FiresOnce
    /\ \A n \in Serial : n > values => fired[n] = 0
    /\ Unfired(row.next)
    /\ \A r \in Reaper : seen[r] # None => Unfired(seen[r].next)

\* A value written now is one that nobody has fired.
LEMMA NewValueUnfired ==
    ASSUME TypeOK, ConstantAssumption, FireInv, NewValue
    PROVE  /\ values + 1 \in 1..values'
           /\ values + 1 \in Serial
           /\ fired[values + 1] = 0
<1>1. values \in Nat /\ values < MaxValues /\ values' = values + 1
  BY DEF TypeOK, NewValue, ConstantAssumption
<1>2. values + 1 \in Serial
  BY <1>1 DEF Serial, ConstantAssumption
<1> QED BY <1>1, <1>2 DEF FireInv

\* What is unfired stays so while nothing fires.
LEMMA UnfiredStays ==
    ASSUME TypeOK, ConstantAssumption, NEW next, Unfired(next),
           UNCHANGED fired, values' \in {values, values + 1}
    PROVE  Unfired(next)'
BY DEF TypeOK, ConstantAssumption, Unfired

\* A step that fires nothing and leaves the scanned rows alone, or forgets
\* one, keeps the invariant if the value it stores is the old one, NULL or new.
LEMMA QuietStep ==
    ASSUME TypeOK, TypeOK', ConstantAssumption, FireInv,
           UNCHANGED fired,
           \A r \in Reaper : seen'[r] \in {seen[r], None, row},
           \/ row'.next \in {row.next, None} /\ UNCHANGED values
           \/ NewValue /\ row'.next.serial = values + 1
    PROVE  FireInv'
<1>1. values' \in {values, values + 1}
  BY DEF NewValue
<1>2. FiresOnce'
  BY DEF FireInv, FiresOnce
<1>3. \A n \in Serial : n > values' => fired'[n] = 0
  BY <1>1 DEF FireInv, TypeOK, ConstantAssumption, Serial
<1>4. Unfired(row.next)'
  <2>1. CASE row'.next \in {row.next, None} /\ UNCHANGED values
    BY <2>1 DEF FireInv, Unfired
  <2>2. CASE NewValue /\ row'.next.serial = values + 1
    BY <2>2, NewValueUnfired DEF Unfired
  <2> QED BY <2>1, <2>2
<1>5. ASSUME NEW r \in Reaper, seen'[r] # None
      PROVE  Unfired(seen[r].next)'
  <2>1. CASE seen'[r] = seen[r]
    <3>1. Unfired(seen[r].next)
      BY <1>5, <2>1 DEF FireInv
    <3> QED BY <1>1, <2>1, <3>1 DEF Unfired, TypeOK, ConstantAssumption
  <2>2. CASE seen'[r] = row
    <3>1. Unfired(row.next)
      BY DEF FireInv
    <3> QED BY <1>1, <2>2, <3>1 DEF Unfired, TypeOK, ConstantAssumption
  <2> QED BY <1>5, <2>1, <2>2
<1> QED BY <1>2, <1>3, <1>4, <1>5 DEF FireInv

\* The firing of a sole leader: its scanned value is unfired, and it forgets it.
LEMMA FireStep ==
    ASSUME TypeOK, TypeOK', ConstantAssumption, FireInv,
           \A r1, r2 \in Reaper : r1 = r2,
           NEW r \in Reaper, Fire(r)
    PROVE  FireInv'
<1> DEFINE s == seen[r].next.serial
<1>1. seen[r] # None /\ seen[r].next # None
  BY DEF Fire
<1>2. s \in 1..values /\ fired[s] = 0
  BY <1>1 DEF FireInv, Unfired
<1>3. values \in Nat /\ 1..values \subseteq Serial
  BY DEF TypeOK, ConstantAssumption, Serial
<1>4. fired' = [fired EXCEPT ![s] = 1]
  BY <1>2 DEF Fire, Enqueue
<1>5. NewValue
  BY DEF Fire, Advance
<1>6. row'.next.serial = values + 1
  BY DEF Fire, Advance, SetRow, NextRun, TypeOK, Row
<1>7. seen'[r] = None
  BY DEF Fire, Advance, RowDone, TypeOK
<1>8. \A n \in Serial : fired'[n] = IF n = s THEN 1 ELSE fired[n]
  BY <1>4 DEF TypeOK
<1> HIDE DEF s
<1>9. FiresOnce'
  BY <1>8 DEF FireInv, FiresOnce
<1>10. \A n \in Serial : n > values' => fired'[n] = 0
  <2>1. values' = values + 1
    BY <1>5 DEF NewValue
  <2> QED BY <1>2, <1>3, <1>8, <2>1 DEF FireInv, Serial, ConstantAssumption
<1>11. Unfired(row.next)'
  <2>1. values + 1 # s
    BY <1>2, <1>3
  <2> QED BY <1>5, <1>6, <1>8, <2>1, NewValueUnfired DEF Unfired
<1>12. \A q \in Reaper : seen'[q] = None
  BY <1>7
<1> QED BY <1>9, <1>10, <1>11, <1>12 DEF FireInv

\* Steps of the tick.
LEMMA TickFires ==
    ASSUME TypeOK, TypeOK', ConstantAssumption, FireInv,
           \A r1, r2 \in Reaper : r1 = r2,
           NEW r \in Reaper, Tick(r)
    PROVE  FireInv'
<1>1. CASE Scan(r)
  BY <1>1, QuietStep DEF Scan, TypeOK
<1>2. CASE Quiesce(r)
  <2>1. row'.next = row.next
    BY <1>2 DEF Quiesce, SetRow, TypeOK, Row
  <2> QED BY <1>2, <2>1, QuietStep DEF Quiesce, RowDone, TypeOK
<1>3. CASE Baseline(r)
  <2>1. row'.next.serial = values + 1
    BY <1>3 DEF Baseline, Advance, SetRow, NextRun, TypeOK, Row
  <2> QED BY <1>3, <2>1, QuietStep DEF Baseline, Advance, RowDone, TypeOK
<1>4. CASE Fire(r)
  BY <1>4, FireStep
<1>5. CASE TickFails(r)
  BY <1>5, QuietStep DEF TickFails, RowDone, TypeOK
<1> QED BY <1>1, <1>2, <1>3, <1>4, <1>5 DEF Tick

\* A transaction of reconcile_ownership_for clears the column or leaves it.
LEMMA ReconcileNext ==
    ASSUME TypeOK, NEW g \in BOOLEAN, NEW a \in BOOLEAN,
           ReconcileOwnership(g, a)
    PROVE  row'.next \in {row.next, None}
BY DEF ReconcileOwnership, Own, SetRow, TypeOK, Row

\* Steps of a save.
LEMMA SaveFires ==
    ASSUME TypeOK, TypeOK', ConstantAssumption, FireInv, Save
    PROVE  FireInv'
<1>1. UNCHANGED <<seen, fired>>
  BY DEF Save, BeginSave, WriteTask, ReadMirror, PlanFails, Upsert,
         UpsertFails, Reconcile, ReconcileFails, SaveDies, tickVars
<1>2. CASE Upsert
  <2>1. row'.next = Plan
    BY <1>2 DEF Upsert, SetRow, TypeOK, Row
  <2>2. CASE Plan \in {None, row.next}
    BY <1>1, <1>2, <2>1, <2>2, QuietStep DEF Upsert
  <2>3. CASE Plan \notin {None, row.next}
    <3>1. Plan.serial = values + 1
      BY <2>3, PlanCases DEF NextRun
    <3>2. NewValue
      BY <1>2, <2>3 DEF Upsert
    <3> QED BY <1>1, <2>1, <3>1, <3>2, QuietStep
  <2> QED BY <2>2, <2>3
<1>3. CASE Reconcile
  <2>1. save.gate \in BOOLEAN /\ save.active \in BOOLEAN
    BY DEF TypeOK, SaveState
  <2>2. row'.next \in {row.next, None} /\ UNCHANGED values
    BY <1>3, <2>1, ReconcileNext DEF Reconcile
  <2> QED BY <1>1, <2>2, QuietStep
<1>4. CASE ~Upsert /\ ~Reconcile
  <2>1. UNCHANGED <<row, values>>
    BY <1>4 DEF Save, BeginSave, WriteTask, ReadMirror, PlanFails,
                UpsertFails, ReconcileFails, SaveDies
  <2> QED BY <1>1, <2>1, QuietStep
<1> QED BY <1>2, <1>3, <1>4

\* Steps of a convergence.
LEMMA ConvergenceFires ==
    ASSUME TypeOK, TypeOK', ConstantAssumption, FireInv, Convergence
    PROVE  FireInv'
<1>1. UNCHANGED <<seen, fired, values>>
  BY DEF Convergence, Deploy, ConvergeRead, ConvergeReconcile, ConvergeFails,
         tickVars
<1>2. row'.next \in {row.next, None}
  <2>1. CASE ConvergeReconcile
    <3>1. converge.active \in BOOLEAN /\ gate \in BOOLEAN
      BY DEF TypeOK, ConvergeState
    <3> QED BY <2>1, <3>1, ReconcileNext DEF ConvergeReconcile
  <2>2. CASE ~ConvergeReconcile
    BY <2>2 DEF Convergence, Deploy, ConvergeRead, ConvergeFails
  <2> QED BY <2>1, <2>2
<1> QED BY <1>1, <1>2, QuietStep

(***************************************************************************)
(* With one leader at a time, no value of next_run_at is fired twice,      *)
(* whatever saves, deployments and failures fall in between                *)
(* (dispatch_due_schedules, pg_scheduler.py).                              *)
(***************************************************************************)
THEOREM ValuesFireOnce ==
    (\A r1, r2 \in Reaper : r1 = r2) => (Spec => []FiresOnce)
<1> SUFFICES ASSUME \A r1, r2 \in Reaper : r1 = r2
             PROVE  Spec => []FiresOnce
  OBVIOUS
<1>1. Init => FireInv
  BY DEF Init, FireInv, FiresOnce, Unfired
<1>2. TypeOK /\ TypeOK' /\ FireInv /\ [Next]_vars => FireInv'
  <2> SUFFICES ASSUME TypeOK, TypeOK', FireInv, [Next]_vars
               PROVE  FireInv'
    OBVIOUS
  <2>1. CASE TimePasses \/ UNCHANGED vars
    BY <2>1, QuietStep, ConstantAssumption DEF TimePasses, vars, tickVars
  <2>2. CASE \E r \in Reaper : Tick(r)
    BY <2>2, TickFires, ConstantAssumption
  <2>3. CASE Save
    BY <2>3, SaveFires, ConstantAssumption
  <2>4. CASE Convergence
    BY <2>4, ConvergenceFires, ConstantAssumption
  <2> QED BY <2>1, <2>2, <2>3, <2>4 DEF Next
<1>3. FireInv => FiresOnce
  BY DEF FireInv
<1> QED BY <1>1, <1>2, <1>3, TypeCorrect, PTL DEF Spec

-----------------------------------------------------------------------------
(* The next run follows the cron in force, and lies in the present period. *)

(***************************************************************************)
(* The upsert of a save decides on next_run_at from the row it read one    *)
(* step before. What it read is still true of the cron, which only saves   *)
(* change; enabled may have been cleared meanwhile, but only for a cron    *)
(* that does not parse; next_run_at may have moved, but then the row had   *)
(* none when it was read (lost) or the plan does not keep the old one. A   *)
(* save that could not read keeps the value, which is then in "left".      *)
(***************************************************************************)
ReadIsRecent ==
    save.at = "upsert" /\ HasRead =>
        /\ save.read \in Row
        /\ save.read.cron = row.cron
        /\ ~lost /\ save.read.enabled /\ ~row.enabled => row.cron = Bad
        /\ ~lost /\ save.read.next # None => row.cron # Bad

\* Only a cron that parses is ever scheduled.
ScheduledParses == ~lost /\ row.next # None => row.cron # Bad

NextInv ==
    ReadIsRecent /\ ScheduledParses /\ NextRunFollowsCron /\ NoCatchUpRun

\* A step that leaves the row and what a save read of it.
LEMMA RowStays ==
    ASSUME TypeOK, NextInv, UNCHANGED <<row, period, lost, left>>,
           save'.at = "upsert" => UNCHANGED save \/ save'.read = None
    PROVE  NextInv'
BY DEF NextInv, ReadIsRecent, HasRead, ScheduledParses, NextRunFollowsCron,
       NoCatchUpRun, InForce

LEMMA AdvanceNext ==
    ASSUME TypeOK, TypeOK', NextInv, NEW r \in Reaper, seen[r] # None,
           Parses(seen[r].cron), Advance(r), UNCHANGED <<save, left>>
    PROVE  NextInv'
<1>1. /\ row' = [row EXCEPT !.next = NextRun(seen[r].cron)]
      /\ lost' <=> lost \/ Overtaken(r)
  BY DEF Advance, SetRow, TypeOK
<1>2. /\ row'.owned = row.owned /\ row'.enabled = row.enabled
      /\ row'.cron = row.cron
      /\ row'.next = NextRun(seen[r].cron)
  BY <1>1 DEF TypeOK, Row
<1>3. period' = period
  BY <1>2 DEF Advance, SetRow, InForce, TypeOK, Row
<1>4. ~lost' => ~lost /\ seen[r].cron = row.cron
  BY <1>1 DEF Overtaken
<1>5. NextRunFollowsCron'
  BY <1>2, <1>4 DEF NextRunFollowsCron, NextRun
<1>6. NoCatchUpRun'
  BY <1>2, <1>3 DEF NoCatchUpRun, NextRun
<1>7. ReadIsRecent'
  BY <1>2, <1>4 DEF NextInv, ReadIsRecent, HasRead
<1>8. ScheduledParses'
  BY <1>2, <1>4 DEF ScheduledParses, Parses
<1> QED BY <1>5, <1>6, <1>7, <1>8 DEF NextInv

\* Steps of the tick.
LEMMA TickNext ==
    ASSUME TypeOK, TypeOK', ConstantAssumption, NextInv, NEW r \in Reaper,
           Tick(r)
    PROVE  NextInv'
<1> USE DEF saveVars
<1>1. CASE Scan(r) \/ TickFails(r)
  BY <1>1, RowStays DEF Scan, TickFails
<1>2. CASE Quiesce(r)
  <2>1. /\ row' = [row EXCEPT !.enabled = FALSE]
        /\ lost' <=> lost \/ Overtaken(r)
        /\ seen[r].cron = Bad
        /\ UNCHANGED <<save, left>>
    BY <1>2 DEF Quiesce, SetRow, Parses, TypeOK
  <2>2. /\ row'.owned = row.owned /\ ~row'.enabled
        /\ row'.cron = row.cron /\ row'.next = row.next
    BY <2>1 DEF TypeOK, Row
  <2>3. ~lost' => ~lost /\ row.cron = Bad
    BY <2>1 DEF Overtaken
  <2>4. NextRunFollowsCron' /\ NoCatchUpRun'
    BY <2>1, <2>2, <2>3 DEF NextInv, NextRunFollowsCron, NoCatchUpRun, InForce
  <2>5. ReadIsRecent'
    BY <2>1, <2>2, <2>3 DEF NextInv, ReadIsRecent, HasRead
  <2>6. ScheduledParses'
    BY <2>2, <2>3 DEF NextInv, ScheduledParses
  <2> QED BY <2>4, <2>5, <2>6 DEF NextInv
<1>3. CASE Baseline(r) \/ Fire(r)
  BY <1>3, AdvanceNext DEF Baseline, Fire
<1> QED BY <1>1, <1>2, <1>3 DEF Tick

\* A transaction of reconcile_ownership_for, of a save or of a convergence.
LEMMA ReconcileFields ==
    ASSUME TypeOK, NEW g \in BOOLEAN, NEW a \in BOOLEAN,
           ReconcileOwnership(g, a)
    PROVE  /\ row'.enabled = row.enabled /\ row'.cron = row.cron
           /\ \/ /\ g \/ row.owned
                 /\ row'.owned = g
                 /\ row'.next = IF g /\ row.owned THEN row.next ELSE None
                 /\ beat' = (a /\ ~g)
              \/ ~g /\ ~row.owned /\ UNCHANGED <<row, due, period, beat>>
<1>1. CASE g \/ row.owned
  <2>1. /\ row' = [row EXCEPT !.owned = g,
                              !.next = IF g /\ row.owned THEN @ ELSE None]
        /\ beat' = (a /\ ~g)
    BY <1>1 DEF ReconcileOwnership, Own, SetRow
  <2>2. /\ row'.enabled = row.enabled /\ row'.cron = row.cron
        /\ row'.owned = g
        /\ row'.next = IF g /\ row.owned THEN row.next ELSE None
    BY <2>1 DEF TypeOK, Row
  <2> QED BY <1>1, <2>1, <2>2, Zenon
<1>2. CASE ~(g \/ row.owned)
  <2>1. UNCHANGED <<row, due, period, beat>>
    BY <1>2 DEF ReconcileOwnership
  <2> QED BY <1>2, <2>1, Zenon
<1> QED BY <1>1, <1>2

LEMMA ReconcileKeepsNext ==
    ASSUME TypeOK, TypeOK', NextInv, NEW g \in BOOLEAN, NEW a \in BOOLEAN,
           ReconcileOwnership(g, a), lost => lost', UNCHANGED left,
           save'.at = "upsert" => UNCHANGED save
    PROVE  NextInv'
<1>1. /\ row'.enabled = row.enabled /\ row'.cron = row.cron
      /\ row'.next \in {row.next, None}
  BY ReconcileNext, ReconcileFields
<1>2. ReadIsRecent' /\ ScheduledParses' /\ NextRunFollowsCron'
  BY <1>1 DEF NextInv, ReadIsRecent, HasRead, ScheduledParses,
              NextRunFollowsCron
<1>3. NoCatchUpRun'
  <2> SUFFICES ASSUME InForce(row'), row'.next # None, ~lost'
               PROVE  row'.next.period = period' \/ row'.next.serial \in left
    BY DEF NoCatchUpRun, InForce
  <2>1. row'.next = row.next /\ row.owned /\ row'.owned
    BY <1>1, ReconcileFields DEF InForce, TypeOK, Row
  <2>2. InForce(row)
    BY <1>1, <2>1 DEF InForce
  <2>3. period' = period
    BY <2>2 DEF ReconcileOwnership, Own, SetRow
  <2> QED BY <2>1, <2>2, <2>3 DEF NextInv, NoCatchUpRun
<1> QED BY <1>2, <1>3 DEF NextInv

\* The upsert, case by case of its plan.
LEMMA UpsertNext ==
    ASSUME TypeOK, TypeOK', ConstantAssumption, NextInv, Upsert
    PROVE  NextInv'
<1>1. /\ row' = [row EXCEPT !.cron = save.cron, !.enabled = save.active,
                            !.next = Plan]
      /\ lost' <=> lost \/ (HasRead /\ ~Planned /\ row.next # None)
      /\ save.at = "upsert" /\ save'.at = "reconcile"
      /\ save.cron \in Cron
  BY DEF Upsert, SetRow, GoTo, TypeOK, SaveState
<1>2. /\ row'.cron = save.cron /\ row'.owned = row.owned
      /\ row'.enabled = save.active /\ row'.next = Plan
  BY <1>1 DEF TypeOK, Row
<1>3. save.cron # Bad
  BY <1>1, ConstantAssumption DEF ConstantAssumption
<1>4. ReadIsRecent' /\ ScheduledParses'
  BY <1>1, <1>2, <1>3 DEF ReadIsRecent, ScheduledParses
<1>5. HasRead =>
          /\ save.read \in Row /\ save.read.cron = row.cron
          /\ ~lost /\ save.read.enabled /\ ~row.enabled => row.cron = Bad
          /\ ~lost /\ save.read.next # None => row.cron # Bad
  BY <1>1 DEF NextInv, ReadIsRecent
<1>6. CASE lost'
  BY <1>4, <1>6 DEF NextInv, NextRunFollowsCron, NoCatchUpRun
<1>7. CASE ~lost' /\ Plan = None
  BY <1>2, <1>4, <1>7 DEF NextInv, NextRunFollowsCron, NoCatchUpRun
<1>8. CASE ~HasRead
  <2>1. row'.next = row.next
    BY <1>2, <1>8 DEF Plan, Planned
  <2>2. row.next # None => row.next.serial \in left'
    BY <1>8 DEF Upsert
  <2> QED BY <1>4, <2>1, <2>2 DEF NextInv, NextRunFollowsCron, NoCatchUpRun
<1>9. CASE ~lost' /\ Plan # None /\ HasRead
  <2>1. ~lost /\ Planned /\ save.read.next # None /\ ~Resumes
    BY <1>1, <1>9 DEF Plan, Planned
  <2>2. UNCHANGED left
    BY <1>9 DEF Upsert
  <2>3. save.active /\ row.owned => InForce(row)
    BY <1>5, <1>9, <2>1 DEF Resumes, InForce, TypeOK, Row
  <2>4. InForce(row') => period' = period
    BY <1>1, <1>2, <2>3 DEF Upsert, SetRow, InForce
  <2>5. CASE Edits
    <3>1. row'.next = NextRun(save.cron)
      BY <1>2, <2>1, <2>5 DEF Plan
    <3> QED BY <1>2, <1>4, <2>4, <3>1
            DEF NextInv, NextRunFollowsCron, NoCatchUpRun, NextRun, InForce
  <2>6. CASE ~Edits
    <3>1. row'.next = row.next /\ row'.cron = row.cron
      BY <1>2, <1>5, <1>9, <2>1, <2>6 DEF Plan, Edits
    <3>2. NextRunFollowsCron'
      BY <2>1, <2>2, <3>1 DEF NextInv, NextRunFollowsCron
    <3>3. NoCatchUpRun'
      BY <1>2, <2>1, <2>2, <2>3, <2>4, <3>1
      DEF NextInv, NoCatchUpRun, InForce
    <3> QED BY <1>4, <3>2, <3>3 DEF NextInv
  <2> QED BY <2>5, <2>6
<1> QED BY <1>6, <1>7, <1>8, <1>9

\* Steps of a save.
LEMMA SaveNext ==
    ASSUME TypeOK, TypeOK', ConstantAssumption, NextInv, Save
    PROVE  NextInv'
<1> USE DEF saveVars
<1>1. CASE ReadMirror
  <2>1. save'.read = row /\ UNCHANGED <<row, period, lost, left>>
    BY <1>1 DEF ReadMirror, TypeOK, SaveState
  <2>2. ScheduledParses' /\ NextRunFollowsCron' /\ NoCatchUpRun'
    BY <2>1
    DEF NextInv, ScheduledParses, NextRunFollowsCron, NoCatchUpRun, InForce
  <2>3. ReadIsRecent'
    BY <2>1 DEF NextInv, ReadIsRecent, ScheduledParses, TypeOK
  <2> QED BY <2>2, <2>3 DEF NextInv
<1>2. CASE Upsert
  BY <1>2, UpsertNext
<1>3. CASE Reconcile
  <2>1. /\ ReconcileOwnership(save.gate, save.active)
        /\ save.gate \in BOOLEAN /\ save.active \in BOOLEAN
        /\ save'.at = "idle" /\ UNCHANGED <<lost, left>>
    BY <1>3 DEF Reconcile, NoSave, TypeOK, SaveState
  <2> QED BY <2>1, ReconcileKeepsNext
<1>4. CASE ~ReadMirror /\ ~Upsert /\ ~Reconcile
  <2>1. CASE BeginSave \/ WriteTask
    <3>1. UNCHANGED <<row, period, lost, left>> /\ save'.at # "upsert"
      BY <2>1 DEF BeginSave, WriteTask, GoTo, TypeOK, SaveState
    <3> QED BY <3>1, RowStays
  <2>2. CASE UpsertFails \/ ReconcileFails \/ SaveDies
    <3>1. UNCHANGED <<row, period, lost, left>>
      BY <2>2 DEF UpsertFails, ReconcileFails, SaveDies
    <3>2. save' \in {[save EXCEPT !.at = "reconcile", !.ok = FALSE], NoSave}
      BY <2>2 DEF UpsertFails, ReconcileFails, SaveDies, Fails
    <3>3. save'.at # "upsert"
      <4>1. NoSave.at = "idle"
        BY DEF NoSave
      <4>2. [save EXCEPT !.at = "reconcile", !.ok = FALSE].at = "reconcile"
        BY DEF TypeOK, SaveState
      <4> QED BY <3>2, <4>1, <4>2
    <3> QED BY <3>1, <3>3, RowStays
  <2>3. CASE PlanFails
    <3>1. UNCHANGED <<row, period, lost, left>> /\ save'.read = None
      BY <2>3 DEF PlanFails, TypeOK, SaveState
    <3> QED BY <3>1, RowStays
  <2> QED BY <1>4, <2>1, <2>2, <2>3 DEF Save
<1> QED BY <1>1, <1>2, <1>3, <1>4

\* Steps of a convergence.
LEMMA ConvergenceNext ==
    ASSUME TypeOK, TypeOK', NextInv, Convergence
    PROVE  NextInv'
<1> USE DEF saveVars
<1>1. CASE ConvergeReconcile
  <2>1. /\ ReconcileOwnership(gate, converge.active)
        /\ gate \in BOOLEAN /\ converge.active \in BOOLEAN
        /\ UNCHANGED <<save, left>>
        /\ lost => lost'
    BY <1>1 DEF ConvergeReconcile, TypeOK, ConvergeState
  <2> QED BY <2>1, ReconcileKeepsNext
<1>2. CASE ~ConvergeReconcile
  <2>1. UNCHANGED <<row, period, lost, save, left>>
    BY <1>2 DEF Convergence, Deploy, ConvergeRead, ConvergeFails
  <2> QED BY <2>1, RowStays
<1> QED BY <1>1, <1>2

LEMMA NextInvAlways == Spec => []NextInv
<1>1. Init => NextInv
  BY DEF Init, NextInv, ReadIsRecent, ScheduledParses, NextRunFollowsCron,
         NoCatchUpRun, NoSave
<1>2. TypeOK /\ TypeOK' /\ NextInv /\ [Next]_vars => NextInv'
  <2> SUFFICES ASSUME TypeOK, TypeOK', NextInv, [Next]_vars
               PROVE  NextInv'
    OBVIOUS
  <2>1. CASE TimePasses \/ UNCHANGED vars
    BY <2>1, RowStays DEF TimePasses, vars, saveVars
  <2> QED BY <2>1, TickNext, SaveNext, ConvergenceNext, ConstantAssumption
          DEF Next
<1> QED BY <1>1, <1>2, TypeCorrect, PTL DEF Spec

(***************************************************************************)
(* The next run of a schedule is a match of the cron in force, for any     *)
(* number of reapers, saves and deployments, unless a write was based on a *)
(* row that had changed, or a save failed to read and left the value: such *)
(* a value is the only one that is wrong (_next_run_at_for_upsert).        *)
(***************************************************************************)
THEOREM NextRunTracksCron == Spec => []NextRunFollowsCron
<1>1. NextInv => NextRunFollowsCron
  BY DEF NextInv
<1> QED BY <1>1, NextInvAlways, PTL

(***************************************************************************)
(* No resume or hand-over leaves a next_run_at from before it, which would *)
(* fire at once, under the same provisos (reconcile_ownership_for).        *)
(***************************************************************************)
THEOREM CatchUpRunIsImpossible == Spec => []NoCatchUpRun
<1>1. NextInv => NoCatchUpRun
  BY DEF NextInv
<1> QED BY <1>1, NextInvAlways, PTL

-----------------------------------------------------------------------------
(* One firer per schedule.                                                 *)

(***************************************************************************)
(* Between saves the Beat flag, the row and the pipeline agree because a   *)
(* save that went well brought them there in three steps: Beat first, then *)
(* the row, then the owner. After each step its part agrees, in spite of   *)
(* the ticks and convergences in between: a convergence writes the flag    *)
(* and the owner together, and a tick disables only a row whose cron does  *)
(* not parse. A save resets torn only if all its steps went well.          *)
(***************************************************************************)
SaveIsLatest ==
    save.at # "idle" => (active <=> save.active) /\ (~save.ok => torn)

BeatFollowsSave ==
    save.at \in {"read", "upsert", "reconcile"} /\ ~lost /\ ~row.owned =>
        (beat <=> save.active)

RowFollowsSave ==
    save.at = "reconcile" /\ save.ok /\ ~lost =>
        row.cron = save.cron /\ (row.enabled <=> save.active)

SettledOwner ==
    save.at = "idle" /\ ~torn /\ ~lost /\ row.cron # Bad =>
        /\ row.enabled <=> active
        /\ beat <=> active /\ ~row.owned

OwnerInv == SaveIsLatest /\ BeatFollowsSave /\ RowFollowsSave /\ SettledOwner

\* The flags the invariant is about are Booleans.
LEMMA Flags ==
    ASSUME TypeOK
    PROVE  /\ active \in BOOLEAN /\ beat \in BOOLEAN /\ torn \in BOOLEAN
           /\ lost \in BOOLEAN /\ gate \in BOOLEAN
           /\ row.owned \in BOOLEAN /\ row.enabled \in BOOLEAN
           /\ save.active \in BOOLEAN /\ save.ok \in BOOLEAN
           /\ save.gate \in BOOLEAN
           /\ converge.active \in BOOLEAN
BY DEF TypeOK, Row, SaveState, ConvergeState

\* A tick leaves flags and owner alone, and the row enabled unless lost or of
\* a cron that does not parse.
LEMMA TickOwner ==
    ASSUME TypeOK, TypeOK', ConstantAssumption, OwnerInv, NEW r \in Reaper,
           Tick(r)
    PROVE  OwnerInv'
<1> USE DEF saveVars
<1>1. UNCHANGED <<beat, active, torn, save>>
  BY DEF Tick, Scan, Quiesce, Baseline, Fire, TickFails
<1>2. /\ row'.owned = row.owned /\ row'.cron = row.cron
      /\ lost => lost'
      /\ row'.enabled = row.enabled \/ lost' \/ row.cron = Bad
  <2>1. CASE Scan(r) \/ TickFails(r)
    BY <2>1 DEF Scan, TickFails
  <2>2. CASE Quiesce(r)
    <3>1. row' = [row EXCEPT !.enabled = FALSE]
      BY <2>2 DEF Quiesce, SetRow
    <3>2. (lost => lost') /\ (lost' \/ row.cron = Bad)
      BY <2>2 DEF Quiesce, Overtaken, Parses
    <3> QED BY <3>1, <3>2 DEF TypeOK, Row
  <2>3. CASE Baseline(r) \/ Fire(r)
    <3>1. row' = [row EXCEPT !.next = NextRun(seen[r].cron)]
      BY <2>3 DEF Baseline, Fire, Advance, SetRow
    <3>2. lost => lost'
      BY <2>3 DEF Baseline, Fire, Advance
    <3> QED BY <3>1, <3>2 DEF TypeOK, Row
  <2> QED BY <2>1, <2>2, <2>3 DEF Tick
<1>3. SaveIsLatest' /\ BeatFollowsSave'
  BY <1>1, <1>2 DEF OwnerInv, SaveIsLatest, BeatFollowsSave
<1>4. RowFollowsSave'
  <2> SUFFICES ASSUME save.at = "reconcile", save.ok, ~lost'
               PROVE  row'.cron = save.cron /\ (row'.enabled <=> save.active)
    BY <1>1 DEF RowFollowsSave
  <2>1. row.cron = save.cron /\ (row.enabled <=> save.active)
    BY <1>2 DEF OwnerInv, RowFollowsSave
  <2>2. row.cron # Bad
    BY <2>1, ConstantAssumption DEF TypeOK, ConstantAssumption
  <2> QED BY <1>2, <2>1, <2>2
<1>5. SettledOwner'
  BY <1>1, <1>2 DEF OwnerInv, SettledOwner
<1> QED BY <1>3, <1>4, <1>5 DEF OwnerInv

\* Steps of a save, in their order.
LEMMA SaveOwner ==
    ASSUME TypeOK, TypeOK', OwnerInv, Save
    PROVE  OwnerInv'
<1>1. CASE BeginSave
  <2>1. PICK a \in BOOLEAN, c \in Cron :
            /\ active' = a
            /\ save' = [at |-> "task", active |-> a, cron |-> c, gate |-> gate,
                        read |-> None, ok |-> TRUE]
    BY <1>1 DEF BeginSave
  <2>2. save'.at = "task" /\ save'.active = a /\ save'.ok = TRUE
    BY <2>1
  <2> QED BY <2>1, <2>2
          DEF OwnerInv, SaveIsLatest, BeatFollowsSave, RowFollowsSave,
              SettledOwner
<1>2. CASE WriteTask
  <2>1. save' = [save EXCEPT !.at = "read"] /\ beat' = save.active
        /\ save.at = "task" /\ UNCHANGED <<active, torn>>
    BY <1>2 DEF WriteTask, GoTo
  <2>2. /\ save'.at = "read" /\ save'.active = save.active
        /\ save'.ok = save.ok
    BY <2>1 DEF TypeOK, SaveState
  <2> QED BY <2>1, <2>2
          DEF OwnerInv, SaveIsLatest, BeatFollowsSave, RowFollowsSave,
              SettledOwner
<1>3. CASE ReadMirror \/ PlanFails
  <2>1. /\ save' \in {[save EXCEPT !.at = "upsert", !.read = row],
                      [save EXCEPT !.at = "upsert", !.read = None]}
        /\ save.at = "read" /\ UNCHANGED <<row, beat, active, torn, lost>>
    BY <1>3 DEF ReadMirror, PlanFails
  <2>2. /\ save'.at = "upsert" /\ save'.active = save.active
        /\ save'.ok = save.ok
    BY <2>1 DEF TypeOK, SaveState
  <2> QED BY <2>1, <2>2
          DEF OwnerInv, SaveIsLatest, BeatFollowsSave, RowFollowsSave,
              SettledOwner
<1>4. CASE Upsert
  <2>1. /\ save' = [save EXCEPT !.at = "reconcile"]
        /\ row' = [row EXCEPT !.cron = save.cron, !.enabled = save.active,
                              !.next = Plan]
        /\ save.at = "upsert" /\ UNCHANGED <<beat, active, torn>>
    BY <1>4 DEF Upsert, GoTo, SetRow
  <2>2. lost => lost'
    BY <1>4 DEF Upsert
  <2>3. /\ save'.at = "reconcile" /\ save'.active = save.active
        /\ save'.ok = save.ok /\ save'.cron = save.cron
        /\ row'.cron = save.cron /\ row'.enabled = save.active
        /\ row'.owned = row.owned
    BY <2>1 DEF TypeOK, SaveState, Row
  <2> QED BY <2>1, <2>2, <2>3
          DEF OwnerInv, SaveIsLatest, BeatFollowsSave, RowFollowsSave,
              SettledOwner
<1>5. CASE UpsertFails
  <2>1. /\ save' = [save EXCEPT !.at = "reconcile", !.ok = FALSE]
        /\ torn' = TRUE /\ save.at = "upsert"
        /\ UNCHANGED <<row, beat, active, lost>>
    BY <1>5 DEF UpsertFails, Fails
  <2>2. /\ save'.at = "reconcile" /\ save'.active = save.active /\ ~save'.ok
    BY <2>1 DEF TypeOK, SaveState
  <2> QED BY <2>1, <2>2
          DEF OwnerInv, SaveIsLatest, BeatFollowsSave, RowFollowsSave,
              SettledOwner
<1>6. CASE Reconcile
  <2>1. /\ save.at = "reconcile" /\ save' = NoSave
        /\ ReconcileOwnership(save.gate, save.active)
        /\ torn' = (torn /\ ~save.ok)
        /\ UNCHANGED <<active, lost>>
    BY <1>6 DEF Reconcile
  <2>2. save'.at = "idle"
    BY <2>1 DEF NoSave
  <2>3. SettledOwner'
    <3> SUFFICES ASSUME ~torn', ~lost, row'.cron # Bad
                 PROVE  (row'.enabled <=> active) /\
                        (beat' <=> active /\ ~row'.owned)
      BY <2>1 DEF SettledOwner
    <3>1. save.ok
      BY <2>1 DEF OwnerInv, SaveIsLatest
    <3>2. active <=> save.active
      BY <2>1 DEF OwnerInv, SaveIsLatest
    <3>3. row'.enabled = row.enabled /\ (row.enabled <=> save.active)
      BY <2>1, <3>1, Flags, ReconcileFields DEF OwnerInv, RowFollowsSave
    <3>4. beat' <=> save.active /\ ~row'.owned
      <4>1. ~row.owned => (beat <=> save.active)
        BY <2>1 DEF OwnerInv, BeatFollowsSave
      <4>2. \/ row'.owned = save.gate /\ beat' = (save.active /\ ~save.gate)
            \/ ~row.owned /\ UNCHANGED <<row, beat>>
        BY <2>1, Flags, ReconcileFields
      <4>3. CASE row'.owned = save.gate /\ beat' = (save.active /\ ~save.gate)
        BY <4>3, Zenon
      <4>4. CASE ~row.owned /\ UNCHANGED <<row, beat>>
        BY <4>1, <4>4
      <4> QED BY <4>2, <4>3, <4>4
    <3> QED BY <3>2, <3>3, <3>4
  <2> QED BY <2>2, <2>3
          DEF OwnerInv, SaveIsLatest, BeatFollowsSave, RowFollowsSave
<1>7. CASE ReconcileFails \/ SaveDies
  <2>1. save' = NoSave /\ torn' = TRUE
    BY <1>7 DEF ReconcileFails, SaveDies
  <2>2. save'.at = "idle"
    BY <2>1 DEF NoSave
  <2> QED BY <2>1, <2>2
          DEF OwnerInv, SaveIsLatest, BeatFollowsSave, RowFollowsSave,
              SettledOwner
<1> QED BY <1>1, <1>2, <1>3, <1>4, <1>5, <1>6, <1>7 DEF Save

\* A convergence that acts on what is still so gives the schedule to the side
\* of the gate, with the flag to match.
LEMMA ConvergenceOwner ==
    ASSUME TypeOK, TypeOK', OwnerInv, Convergence
    PROVE  OwnerInv'
<1> USE DEF saveVars
<1>1. UNCHANGED <<active, torn, save>>
  BY DEF Convergence, Deploy, ConvergeRead, ConvergeReconcile, ConvergeFails
<1>2. CASE ConvergeReconcile
  <2>1. ReconcileOwnership(gate, converge.active)
    BY <1>2 DEF ConvergeReconcile
  <2>2. /\ lost => lost'
        /\ ~lost' => (converge.active <=> row.enabled)
        /\ ~lost' /\ save.at # "idle" => (converge.active <=> save.active)
    BY <1>2, Flags DEF ConvergeReconcile
  <2>3. row'.enabled = row.enabled /\ row'.cron = row.cron
    BY <2>1, Flags, ReconcileFields
  <2>4. \/ row'.owned = gate /\ beat' = (converge.active /\ ~gate)
        \/ ~row.owned /\ UNCHANGED <<row, beat>>
    BY <2>1, Flags, ReconcileFields
  <2>5. SaveIsLatest' /\ RowFollowsSave'
    BY <1>1, <2>2, <2>3 DEF OwnerInv, SaveIsLatest, RowFollowsSave
  <2>6. BeatFollowsSave'
    BY <1>1, <2>2, <2>4 DEF OwnerInv, BeatFollowsSave
  <2>7. SettledOwner'
    BY <1>1, <2>2, <2>3, <2>4 DEF OwnerInv, SettledOwner
  <2> QED BY <2>5, <2>6, <2>7 DEF OwnerInv
<1>3. CASE ~ConvergeReconcile
  <2>1. UNCHANGED <<row, beat, lost>>
    BY <1>3 DEF Convergence, Deploy, ConvergeRead, ConvergeFails
  <2> QED BY <1>1, <2>1 DEF OwnerInv, SaveIsLatest, BeatFollowsSave,
                            RowFollowsSave, SettledOwner
<1> QED BY <1>2, <1>3

(***************************************************************************)
(* "A schedule is owned by exactly one firer" (scheduler/ownership.py:4),  *)
(* for any number of reapers, saves, deployments and faults: between saves *)
(* an active pipeline has one and a paused one none, unless the last save  *)
(* failed part-way or a write was based on a row that had changed.         *)
(***************************************************************************)
THEOREM OneFirerAtRest == Spec => []ExactlyOneFirer
<1>1. Init => OwnerInv
  <2> SUFFICES ASSUME Init
               PROVE  OwnerInv
    OBVIOUS
  <2>1. save.at = "idle"
    BY DEF Init, NoSave
  <2>2. row.owned = gate /\ row.enabled = active /\ beat = (active /\ ~gate)
    BY DEF Init
  <2> QED BY <2>1, <2>2 DEF OwnerInv, SaveIsLatest, BeatFollowsSave,
                            RowFollowsSave, SettledOwner
<1>2. TypeOK /\ TypeOK' /\ OwnerInv /\ [Next]_vars => OwnerInv'
  <2> SUFFICES ASSUME TypeOK, TypeOK', OwnerInv, [Next]_vars
               PROVE  OwnerInv'
    OBVIOUS
  <2>1. CASE TimePasses \/ UNCHANGED vars
    <3>1. UNCHANGED <<row, beat, active, torn, lost, save>>
      BY <2>1 DEF TimePasses, vars, saveVars
    <3> QED BY <3>1 DEF OwnerInv, SaveIsLatest, BeatFollowsSave,
                        RowFollowsSave, SettledOwner
  <2> QED BY <2>1, TickOwner, SaveOwner, ConvergenceOwner, ConstantAssumption
          DEF Next
<1>3. TypeOK /\ OwnerInv => ExactlyOneFirer
  <2> SUFFICES ASSUME TypeOK, OwnerInv, AtRest, ~torn, ~lost, row.cron # Bad
               PROVE  \E f \in {"pg", "beat"} :
                          Firers = IF active THEN {f} ELSE {}
    BY DEF ExactlyOneFirer
  <2>1. (row.enabled <=> active) /\ (beat <=> active /\ ~row.owned)
    BY DEF OwnerInv, SettledOwner, AtRest
  <2>2. active /\ row.owned => Firers = {"pg"}
    BY <2>1 DEF Firers, InForce
  <2>3. active /\ ~row.owned => Firers = {"beat"}
    BY <2>1 DEF Firers, InForce
  <2>4. ~active => Firers = {}
    BY <2>1 DEF Firers, InForce
  <2> QED BY <2>2, <2>3, <2>4
<1> QED BY <1>1, <1>2, <1>3, TypeCorrect, PTL DEF Spec
=============================================================================
