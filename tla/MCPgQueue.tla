----------------------------- MODULE MCPgQueue -----------------------------
(***************************************************************************)
(* Small instances of PgQueue. A job is a record of what a payload is, so  *)
(* that Kind, Shape and Priority are read off it; id tells equals apart.   *)
(***************************************************************************)
EXTENDS PgQueue, TLC

CONSTANTS c1, c2

JobOf(id, kind, shape, priority) ==
    [id |-> id, kind |-> kind, shape |-> shape, priority |-> priority]

MCKind == [j \in Job |-> j.kind]
MCShape == [j \in Job |-> j.shape]
MCPriority == [j \in Job |-> j.priority]

Pipeline == JobOf(1, "pipeline", "ok", 5)
Leaf == JobOf(2, "leaf", "ok", 5)
Urgent == JobOf(3, "callback", "ok", 9)
Unknown == JobOf(4, "pipeline", "unknown", 5)

TwoRows == 1..2
BothConsumers == {c1, c2}

Workflow == {Leaf, Urgent}
Fragile == {Pipeline, Unknown}

\* Consumers differ in nothing but their name.
AnyConsumer == Permutations({c1, c2})
=============================================================================
