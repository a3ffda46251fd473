--------------------------- MODULE MCFileDelivery ---------------------------
(***************************************************************************)
(* Small instances of FileDelivery: two executions, two workers.           *)
(***************************************************************************)
EXTENDS FileDelivery, TLC

CONSTANTS e1, e2, w1, w2

TwoExecs == {e1, e2}
TwoWorkers == {w1, w2}

\* Executions and workers differ in nothing but their names.
AnyName == Permutations({e1, e2}) \cup Permutations({w1, w2})
=============================================================================
