---------------------- MODULE ReaperLeadership_proofs ----------------------
(***************************************************************************)
(* Proofs that the safety properties of ReaperLeadership hold for every    *)
(* set of reapers, every lease and every number of faults.                 *)
(***************************************************************************)
EXTENDS ReaperLeadership, TLAPS

LEMMA OlderAge ==
    ASSUME NEW a \in Age
    PROVE  /\ Older(a) \in Age
           /\ Older(a) <= Lease => a <= Lease
BY ConstantAssumption DEF ConstantAssumption, Age, Older

LEMMA OlderOrder ==
    ASSUME NEW a \in Age, NEW b \in Age, a <= b
    PROVE  Older(a) <= Older(b)
BY ConstantAssumption DEF ConstantAssumption, Age, Older

(* Every variable keeps its type, and only a process that believes it      *)
(* leads acts.                                                             *)
THEOREM TypeCorrect == Spec => []TypeOK
<1> USE ConstantAssumption DEF ConstantAssumption, Age
<1>1. Init => TypeOK
  BY DEF Init, TypeOK, Places, Acting, Duties
<1>2. TypeOK /\ [Next]_vars => TypeOK'
  <2> SUFFICES ASSUME TypeOK, [Next]_vars
               PROVE  TypeOK'
    OBVIOUS
  <2> USE DEF TypeOK, Acting
  <2>1. CASE Clock
    <3>1. age' \in Age /\ confirmed' \in [Reaper -> Age]
      BY <2>1, OlderAge DEF Clock
    <3>2. QED
      BY <2>1, <3>1 DEF Clock
  <2>2. ASSUME NEW p \in Reaper, Tick(p) \/ Broken(p) \/ Start(p)
        PROVE  TypeOK'
    <3>1. CASE Wake(p)
      BY <3>1 DEF Wake, Places, Duties
    <3>2. CASE Renew(p)
      BY <3>2 DEF Renew, Take, Confirm, Places, Duties
    <3>3. CASE StepDown(p)
      BY <3>3 DEF StepDown, Places, Duties
    <3>4. CASE TryAcquire(p)
      BY <3>4 DEF TryAcquire, Take, Confirm, Places, Duties
    <3>5. CASE StayStandby(p)
      BY <3>5 DEF StayStandby, Places, Duties
    <3>6. CASE DutyDone(p)
      BY <3>6 DEF DutyDone, After, Places, Duties
    <3>7. CASE RenewRaises(p)
      BY <3>7 DEF RenewRaises, Take, Fault, Places, Duties
    <3>8. CASE AcquireRaises(p)
      BY <3>8 DEF AcquireRaises, Take, Fault, Places, Duties
    <3>9. CASE DutyFails(p)
      BY <3>9 DEF DutyFails, Fault, Places, Duties
    <3>10. CASE Stop(p)
      BY <3>10 DEF Stop, Leave, Abandoned, Fault, Places, Duties
    <3>11. CASE Crash(p)
      BY <3>11 DEF Crash, Leave, Abandoned, Fault, Places, Duties
    <3>12. CASE Start(p)
      BY <3>12 DEF Start, Places, Duties
    <3>13. QED
      BY <2>2, <3>1, <3>2, <3>3, <3>4, <3>5, <3>6, <3>7, <3>8, <3>9, <3>10,
         <3>11, <3>12 DEF Tick, Broken
  <2>3. CASE UNCHANGED vars
    BY <2>3 DEF vars
  <2>4. QED
    BY <2>1, <2>2, <2>3 DEF Next
<1>3. QED
  BY <1>1, <1>2, PTL DEF Spec

-----------------------------------------------------------------------------
(* At most one reaper acts on a lease it confirmed in time. *)

Fresh(p) == isLeader[p] /\ confirmed[p] <= Lease

(***************************************************************************)
(* A process that confirmed its lease no longer than one lease ago still   *)
(* holds it, and the row is no older than the confirmation. SoleActor is   *)
(* not inductive by itself: it says nothing of the row that the next       *)
(* try_acquire decides on.                                                 *)
(***************************************************************************)
FreshHolds == \A p \in Reaper : Fresh(p) => leader = p /\ age <= confirmed[p]

LEMMA FreshHoldsStep ==
    ASSUME TypeOK, TypeOK', FreshHolds, [Next]_vars
    PROVE  FreshHolds'
<1> USE ConstantAssumption DEF ConstantAssumption, TypeOK, Age
<1> SUFFICES ASSUME NEW q \in Reaper, Fresh(q)'
             PROVE  leader' = q /\ age' <= confirmed'[q]
  BY DEF FreshHolds
<1>1. CASE Clock
  <2>1. Fresh(q)
    BY <1>1, OlderAge DEF Clock, Fresh
  <2>2. QED
    BY <1>1, <2>1, OlderOrder DEF Clock, FreshHolds
<1>2. ASSUME NEW p \in Reaper, Tick(p) \/ Broken(p) \/ Start(p)
      PROVE  leader' = q /\ age' <= confirmed'[q]
  <2>1. CASE Wake(p) \/ StepDown(p) \/ StayStandby(p) \/ DutyDone(p)
             \/ DutyFails(p) \/ Start(p)
    <3>1. Fresh(q) /\ UNCHANGED <<leader, age, confirmed>>
      BY <2>1
      DEF Wake, StepDown, StayStandby, DutyDone, DutyFails, Start, Fresh
    <3>2. QED
      BY <3>1 DEF FreshHolds
  <2>2. CASE Renew(p)
    BY <2>2 DEF Renew, Take, Confirm, Fresh, FreshHolds
  <2>3. CASE TryAcquire(p)
    BY <2>3 DEF TryAcquire, Stale, Take, Confirm, Fresh, FreshHolds
  <2>4. CASE RenewRaises(p)
    BY <2>4 DEF RenewRaises, Take, Fresh, FreshHolds
  <2>5. CASE AcquireRaises(p)
    BY <2>5 DEF AcquireRaises, Stale, Take, Fresh, FreshHolds
  <2>6. CASE Stop(p)
    BY <2>6 DEF Stop, Leave, Abandoned, Fresh, FreshHolds
  <2>7. CASE Crash(p)
    BY <2>7 DEF Crash, Leave, Abandoned, Fresh, FreshHolds
  <2>8. QED
    BY <1>2, <2>1, <2>2, <2>3, <2>4, <2>5, <2>6, <2>7 DEF Tick, Broken
<1>3. CASE UNCHANGED vars
  BY <1>3 DEF vars, Fresh, FreshHolds
<1>4. QED
  BY <1>1, <1>2, <1>3 DEF Next

(* Two reapers act at once only when one of them has been in its tick for  *)
(* longer than the lease.                                                  *)
THEOREM LeaseKeepsActorSole == Spec => []SoleActor
<1>1. Spec => []TypeOK
  BY TypeCorrect
<1>2. Init => FreshHolds
  BY DEF Init, FreshHolds, Fresh
<1>3. TypeOK /\ TypeOK' /\ FreshHolds /\ [Next]_vars => FreshHolds'
  BY FreshHoldsStep
<1>4. TypeOK /\ FreshHolds => SoleActor
  BY ConstantAssumption
  DEF ConstantAssumption, TypeOK, Age, FreshHolds, Fresh, SoleActor
<1>5. QED
  BY <1>1, <1>2, <1>3, <1>4, PTL DEF Spec

-----------------------------------------------------------------------------
(* The only way a lease younger than its window changes hands is that its  *)
(* holder goes down.                                                       *)
THEOREM LeaseNotTakenEarly == Spec => NoEarlyTakeover
<1> DEFINE Kept == \A p \in Reaper :
             leader = p /\ age <= Lease /\ leader' # p => pc'[p] = "down"
<1>1. ASSUME TypeOK, [Next]_vars
      PROVE  Kept
  <2> SUFFICES ASSUME NEW p \in Reaper,
                      leader = p, age <= Lease, leader' # p
               PROVE  pc'[p] = "down"
    OBVIOUS
  <2> USE ConstantAssumption DEF ConstantAssumption, TypeOK, Age
  <2>1. PICK q \in Reaper : Tick(q) \/ Broken(q) \/ Start(q)
    BY <1>1 DEF Next, Clock, vars
  <2>2. ~Tick(q) /\ ~Start(q) /\ ~RenewRaises(q) /\ ~AcquireRaises(q)
        /\ ~DutyFails(q)
    BY <1>1 DEF Tick, Wake, Renew, StepDown, TryAcquire, StayStandby,
                DutyDone, RenewRaises, AcquireRaises, DutyFails, Start,
                Take, Stale
  <2>3. Stop(q) \/ Crash(q)
    BY <2>1, <2>2 DEF Broken
  <2>4. leader' = Abandoned(q) \/ leader = q
    BY <2>3 DEF Stop, Crash
  <2>5. p = q
    BY <2>4 DEF Abandoned
  <2>6. QED
    BY <1>1, <2>3, <2>5 DEF Stop, Crash, Leave
<1>2. Spec => []TypeOK
  BY TypeCorrect
<1>3. QED
  BY <1>1, <1>2, PTL DEF Spec, NoEarlyTakeover

=============================================================================
