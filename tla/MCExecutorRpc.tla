--------------------------- MODULE MCExecutorRpc ---------------------------
(***************************************************************************)
(* A small instance of ExecutorRpc: one request-reply dispatch and room    *)
(* for two messages, since the retry of its send inserts a duplicate.      *)
(***************************************************************************)
EXTENDS ExecutorRpc

CONSTANTS c1, Rpc

TwoRows == 1..2
OneConsumer == {c1}
Request == {Rpc}

MCKind == [j \in Job |-> "rpc"]
MCShape == [j \in Job |-> "ok"]
MCPriority == [j \in Job |-> 5]
=============================================================================
