--------------------------- MODULE MCApiAdmission ---------------------------
(***************************************************************************)
(* A small instance of ApiAdmission: two requests of one or two            *)
(* organizations, the second of which has room for both.                   *)
(***************************************************************************)
EXTENDS ApiAdmission, TLC

CONSTANTS r1, r2, o1, o2

TwoRequests == {r1, r2}
TwoOrgs == {o1, o2}

Limits == [o \in TwoOrgs |-> IF o = o1 THEN 1 ELSE 2]

Symmetric == Permutations(TwoRequests)

\* Bound of the run: both requests with one delivery each, of which one is
\* run; or one request of the first organization, with all its deliveries,
\* while the other has not begun.
TwoRequestsOrDeliveries ==
    \/ /\ \E r \in Request : job[r][1] \in {"none", "queued"}
       /\ \A r \in Request : job[r][2] = "none"
    \/ /\ \E r \in Request : pc[r] = "lock"
       /\ \A r \in Request : orgOf[r] = o1
=============================================================================
