----------------------------- MODULE MCBarrier -----------------------------
(***************************************************************************)
(* Small instances of BarrierRecovery: two batches, two consumers.         *)
(***************************************************************************)
EXTENDS BarrierRecovery, TLC

CONSTANTS w1, w2

BothWorkers == {w1, w2}

\* Workers differ in nothing but their name.
AnyWorker == Permutations({w1, w2})

\* Bound of a run: the sweeps of the reaper with one fault, or more faults
\* without them.
SweepsOrFaults ==
    \/ faults <= 1
    \/ sweep = "none" /\ ~stale /\ claim # "old"
=============================================================================
