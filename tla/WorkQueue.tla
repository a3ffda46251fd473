----------------------------- MODULE WorkQueue -----------------------------
(***************************************************************************)
(* What the queue promises a producer, with no consumer, lease or sweep in *)
(* sight: a submitted message is handed out some number of times, each     *)
(* delivery runs the body at most once and only the first MaxAttempts of   *)
(* them may, and the message is settled once, for a reason: its body       *)
(* returned, its attempts ran out, or it is a one-shot message, whose      *)
(* single attempt is answered whatever its outcome.                        *)
(***************************************************************************)
EXTENDS Integers, FiniteSets

CONSTANTS Message, MaxAttempts

VARIABLES
    status,      \* [Message -> {"absent", "open", "settled"}]
    oneShot,     \* messages answered after one attempt
    deliveries,  \* [Message -> Nat], times handed to some consumer
    runs,        \* [Message -> SUBSET Nat], deliveries that ran the body
    finished     \* messages whose body returned at least once

vars == <<status, oneShot, deliveries, runs, finished>>

Init ==
    /\ status = [m \in Message |-> "absent"]
    /\ oneShot = {}
    /\ deliveries = [m \in Message |-> 0]
    /\ runs = [m \in Message |-> {}]
    /\ finished = {}

Submit(m) ==
    /\ status[m] = "absent"
    /\ status' = [status EXCEPT ![m] = "open"]
    /\ oneShot' \in {oneShot, oneShot \cup {m}}
    /\ UNCHANGED <<deliveries, runs, finished>>

Deliver(M) ==
    /\ \A m \in M : status[m] = "open"
    /\ deliveries' = [m \in Message |->
                        IF m \in M THEN deliveries[m] + 1 ELSE deliveries[m]]
    /\ UNCHANGED <<status, oneShot, runs, finished>>

\* A delivery may run after the message was settled through another one.
Run(m, n) ==
    /\ n \in (1..deliveries[m]) \ runs[m]
    /\ n <= MaxAttempts
    /\ runs' = [runs EXCEPT ![m] = @ \cup {n}]
    /\ UNCHANGED <<status, oneShot, deliveries, finished>>

Finish(m) ==
    /\ runs[m] # {}
    /\ finished' = finished \cup {m}
    /\ UNCHANGED <<status, oneShot, deliveries, runs>>

Settle(m) ==
    /\ status[m] = "open"
    /\ \/ m \in finished
       \/ deliveries[m] > MaxAttempts
       \/ m \in oneShot /\ deliveries[m] > 0
    /\ status' = [status EXCEPT ![m] = "settled"]
    /\ UNCHANGED <<oneShot, deliveries, runs, finished>>

Next ==
    \/ \E m \in Message :
           \/ Submit(m)
           \/ Finish(m)
           \/ Settle(m)
           \/ \E n \in 1..deliveries[m] : Run(m, n)
    \/ \E M \in SUBSET Message : Deliver(M)

Spec == Init /\ [][Next]_vars
=============================================================================
