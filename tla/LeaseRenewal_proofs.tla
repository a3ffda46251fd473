------------------------ MODULE LeaseRenewal_proofs ------------------------
(***************************************************************************)
(* Proofs that the properties of LeaseRenewal hold for every lease, every  *)
(* number of covered connection deaths and every sweep interval.           *)
(***************************************************************************)
EXTENDS LeaseRenewal, TLAPS

\* What one failed renewal can cost: the wait before it and the call itself.
Round == Interval + Stall

LEMMA ConstantTypes ==
    /\ Lease \in Nat \ {0}
    /\ Interval \in Nat \ {0}
    /\ Round \in Nat
BY ConstantAssumption DEF ConstantAssumption, Lease, Interval, Round

LEMMA RoundsAdd ==
    ASSUME NEW m \in Nat
    PROVE  /\ (m + 1) * Round \in Nat
           /\ ((m + 1) + 1) * Round = (m + 1) * Round + Round
BY ConstantTypes

LEMMA RoundsGrow ==
    ASSUME NEW m \in Nat, NEW n \in Nat, m <= n
    PROVE  (m + 1) * Round <= (n + 1) * Round
BY ConstantTypes

(* Every variable keeps its type, and no claim outlasts one lease.         *)
THEOREM TypeCorrect == Spec => []TypeOK
<1>1. Init => TypeOK
  BY ConstantAssumption, ConstantTypes
  DEF Init, TypeOK, ConstantAssumption, RowStates, WorkerStates, ThreadStates
<1>2. TypeOK /\ [Next]_vars => TypeOK'
  <2> SUFFICES ASSUME TypeOK, [Next]_vars
               PROVE  TypeOK'
    OBVIOUS
  <2> USE ConstantAssumption, ConstantTypes
      DEF TypeOK, ConstantAssumption, RowStates, WorkerStates, ThreadStates
  <2>1. CASE Tick
    BY <2>1 DEF Tick
  <2>2. CASE Begin
    BY <2>2 DEF Begin, Sleep
  <2>3. CASE Wake
    BY <2>3 DEF Wake
  <2>4. CASE SetVt
    BY <2>4 DEF SetVt
  <2>5. CASE Answered
    BY <2>5 DEF Answered, Sleep
  <2>6. CASE ConnectionDies
    BY <2>6 DEF ConnectionDies, Sleep
  <2>7. CASE RenewalEnds
    BY <2>7 DEF RenewalEnds
  <2>8. CASE TaskEnds
    BY <2>8 DEF TaskEnds
  <2>9. CASE Ack
    BY <2>9 DEF Ack
  <2>10. CASE Die
    BY <2>10 DEF Die
  <2>11. CASE RearmExpiredClaims
    BY <2>11 DEF RearmExpiredClaims
  <2>12. CASE UNCHANGED vars
    BY <2>12 DEF vars
  <2>13. QED
    BY <2>1, <2>2, <2>3, <2>4, <2>5, <2>6, <2>7, <2>8, <2>9, <2>10, <2>11,
       <2>12 DEF Next
<1>3. QED
  BY <1>1, <1>2, PTL DEF Spec

-----------------------------------------------------------------------------
(* The claim of a live consumer is held. *)

\* When the last renewal, or the claim itself, committed.
Committed == vt - Lease

(***************************************************************************)
(* The thread is never further from its last committed renewal than the    *)
(* rounds it has missed.                                                   *)
(***************************************************************************)
OnTime ==
    /\ thread # "stopped" => now <= deadline
    /\ thread \in {"calling", "replying"} => deadline <= now + Stall
    /\ worker = "running" /\ thread # "stopped" =>
        /\ row = "claimed"
        /\ thread \in {"starting", "replying"} =>
            missed = 0 /\ deadline <= Committed + Stall
        /\ thread = "waiting" =>
            deadline <= Committed + (missed + 1) * Round
        /\ thread = "calling" =>
            deadline <= Committed + (missed + 1) * Round + Stall

(* With slack, the bound on the thread's deadline keeps it below vt.       *)
LEMMA OnTimeHolds ==
    ASSUME Slack, TypeOK, OnTime
    PROVE  LiveClaimHeld
<1> SUFFICES ASSUME worker = "running", thread # "stopped"
             PROVE  row = "claimed" /\ now < vt
  BY DEF LiveClaimHeld
<1> USE ConstantAssumption, ConstantTypes DEF ConstantAssumption
<1>1. (missed + 1) * Round \in Nat /\ (MaxMissed + 1) * Round \in Nat
  BY RoundsAdd DEF TypeOK
<1>2. (missed + 1) * Round <= (MaxMissed + 1) * Round
  BY RoundsGrow DEF TypeOK
<1>3. (MaxMissed + 1) * Round + Stall < Lease
  BY DEF Slack, Round
<1>4. deadline <= Committed + (missed + 1) * Round + Stall
  BY <1>1 DEF OnTime, TypeOK, ThreadStates, Committed
<1>5. QED
  BY <1>1, <1>2, <1>3, <1>4 DEF OnTime, TypeOK, Committed

LEMMA OnTimeInit == Init => OnTime
BY ConstantAssumption, ConstantTypes
DEF Init, OnTime, Committed, ConstantAssumption

LEMMA OnTimeStep ==
    ASSUME Slack, TypeOK, TypeOK', OnTime, [Next]_vars
    PROVE  OnTime'
<1> USE ConstantAssumption, ConstantTypes DEF ConstantAssumption, Committed
<1>0. /\ missed \in Nat
      /\ (missed + 1) * Round \in Nat
      /\ ((missed + 1) + 1) * Round = (missed + 1) * Round + Round
      /\ (0 + 1) * Round = Round
  BY RoundsAdd DEF TypeOK
<1>1. CASE Tick
  BY <1>0, <1>1 DEF Tick, OnTime, TypeOK
<1>2. CASE Begin
  BY <1>0, <1>2 DEF Begin, Sleep, OnTime, TypeOK, Round
<1>3. CASE Wake
  BY <1>0, <1>3 DEF Wake, OnTime, TypeOK
<1>4. CASE SetVt
  BY <1>0, <1>4 DEF SetVt, OnTime, TypeOK
<1>5. CASE Answered
  BY <1>0, <1>5 DEF Answered, Sleep, OnTime, TypeOK, Round
<1>6. CASE ConnectionDies
  <2>1. missed' = missed + 1 /\ UNCHANGED <<now, row, vt, worker>>
    BY <1>6 DEF ConnectionDies
  <2>2. (missed' + 1) * Round = (missed + 1) * Round + Round
    BY <1>0, <2>1
  <2>3. CASE worker = "running"
    BY <1>0, <1>6, <2>1, <2>2, <2>3
    DEF ConnectionDies, Sleep, OnTime, TypeOK, Round
  <2>4. CASE worker # "running"
    BY <1>6, <2>1, <2>4 DEF ConnectionDies, Sleep, OnTime, TypeOK
  <2>5. QED
    BY <2>3, <2>4
<1>7. CASE RenewalEnds
  BY <1>7 DEF RenewalEnds, OnTime, TypeOK
<1>8. CASE TaskEnds
  BY <1>8 DEF TaskEnds, OnTime, TypeOK
<1>9. CASE Ack
  BY <1>9 DEF Ack, OnTime, TypeOK
<1>10. CASE Die
  BY <1>10 DEF Die, OnTime, TypeOK
<1>11. CASE RearmExpiredClaims
  <2>1. LiveClaimHeld
    BY OnTimeHolds
  <2>2. QED
    BY <1>0, <1>11, <2>1 DEF RearmExpiredClaims, LiveClaimHeld, OnTime, TypeOK
<1>12. CASE UNCHANGED vars
  BY <1>12 DEF vars, OnTime
<1>13. QED
  BY <1>1, <1>2, <1>3, <1>4, <1>5, <1>6, <1>7, <1>8, <1>9, <1>10, <1>11,
     <1>12 DEF Next

(* A live consumer keeps its claim through MaxMissed dead connections, for *)
(* every lease that leaves Slack.                                          *)
THEOREM LeaseHeldWhileRunning ==
    ASSUME Slack
    PROVE  Spec => []LiveClaimHeld
<1>1. Spec => []TypeOK
  BY TypeCorrect
<1>2. TypeOK /\ OnTime => LiveClaimHeld
  BY OnTimeHolds
<1>3. TypeOK /\ TypeOK' /\ OnTime /\ [Next]_vars => OnTime'
  BY OnTimeStep
<1>4. QED
  BY <1>1, <1>2, <1>3, OnTimeInit, PTL DEF Spec

-----------------------------------------------------------------------------
(* The claim of a dead consumer is freed. *)

(***************************************************************************)
(* Every claim is met by a sweep within one interval of its expiry, and a  *)
(* claim that nobody works on expires within a lease of its last call.     *)
(***************************************************************************)
Expiring ==
    /\ thread # "stopped" => now <= deadline
    /\ thread \in {"calling", "replying"} => deadline <= now + Stall
    /\ worker # "running" => thread # "waiting"
    /\ worker = "dead" => thread = "stopped"
    /\ worker \in {"left", "acking"} /\ thread = "calling" =>
        deadline <= leftAt + Stall
    /\ worker \in {"left", "dead"} => vt <= leftAt + Stall + Lease
    /\ row = "claimed" => nextSweep <= vt + SweepInterval

LEMMA ExpiringStep ==
    ASSUME TypeOK, TypeOK', Expiring, [Next]_vars
    PROVE  Expiring'
<1> USE ConstantAssumption, ConstantTypes
    DEF ConstantAssumption, Expiring, TypeOK
<1>1. CASE Tick
  BY <1>1 DEF Tick
<1>2. CASE Begin
  BY <1>2 DEF Begin, Sleep
<1>3. CASE Wake
  BY <1>3 DEF Wake, WorkerStates
<1>4. CASE SetVt
  BY <1>4 DEF SetVt
<1>5. CASE Answered
  BY <1>5 DEF Answered, Sleep
<1>6. CASE ConnectionDies
  BY <1>6 DEF ConnectionDies, Sleep
<1>7. CASE RenewalEnds
  BY <1>7 DEF RenewalEnds
<1>8. CASE TaskEnds
  BY <1>8 DEF TaskEnds
<1>9. CASE Ack
  BY <1>9 DEF Ack
<1>10. CASE Die
  <2>1. vt' = vt \/ vt' = now + Lease
    BY <1>10 DEF Die
  <2>2. /\ worker' = "dead" /\ thread' = "stopped" /\ leftAt' = now
        /\ UNCHANGED <<now, row, nextSweep>>
    BY <1>10 DEF Die
  <2>3. vt <= vt' /\ vt' <= now + Lease
    BY <2>1
  <2>4. vt' <= leftAt' + Stall + Lease
    BY <2>2, <2>3
  <2>5. row' = "claimed" => nextSweep' <= vt' + SweepInterval
    <3>1. ASSUME NEW v \in Nat, NEW w \in Nat, NEW s \in Nat,
                 s <= v + SweepInterval, v <= w
          PROVE  s <= w + SweepInterval
      BY <3>1
    <3>2. vt \in Nat /\ vt' \in Nat /\ nextSweep \in Nat
      OBVIOUS
    <3>3. row = "claimed" => nextSweep <= vt + SweepInterval
      OBVIOUS
    <3>4. QED
      BY <2>2, <2>3, <3>1, <3>2, <3>3
  <2>6. QED
    BY <2>2, <2>4, <2>5
<1>11. CASE RearmExpiredClaims
  BY <1>11 DEF RearmExpiredClaims
<1>12. CASE UNCHANGED vars
  BY <1>12 DEF vars
<1>13. QED
  BY <1>1, <1>2, <1>3, <1>4, <1>5, <1>6, <1>7, <1>8, <1>9, <1>10, <1>11,
     <1>12 DEF Next

(* A claim whose task ended without an acknowledgement, or whose consumer  *)
(* died, is re-armed within a lease, a call and a sweep interval.          *)
THEOREM DeadLeaseFreed == Spec => []DeadClaimFreed
<1>1. Spec => []TypeOK
  BY TypeCorrect
<1>2. Init => Expiring
  BY ConstantAssumption, ConstantTypes
  DEF Init, Expiring, ConstantAssumption
<1>3. TypeOK /\ TypeOK' /\ Expiring /\ [Next]_vars => Expiring'
  BY ExpiringStep
<1>4. TypeOK /\ Expiring => DeadClaimFreed
  BY ConstantAssumption, ConstantTypes
  DEF TypeOK, Expiring, DeadClaimFreed, ConstantAssumption
<1>5. QED
  BY <1>1, <1>2, <1>3, <1>4, PTL DEF Spec

=============================================================================
