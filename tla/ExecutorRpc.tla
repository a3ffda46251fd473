---------------------------- MODULE ExecutorRpc ----------------------------
(***************************************************************************)
(* The request-reply dispatch of an executor task over the Postgres queue: *)
(* the callers that block on a reply key (workflow_execution/              *)
(* executor_rpc.py), the pg_task_result row they wait for                  *)
(* (pg_queue/result_backend.py) and the queue of module PgQueue, whose     *)
(* consumers store that row.                                               *)
(*                                                                         *)
(* One job is one reply key. result[j] of PgQueue is the outcome recorded  *)
(* first; stored[j] is what the table holds of it now. The clock of a      *)
(* caller is one bit, late[j]. The Redis token is not modelled: a BLPOP    *)
(* may end at any moment, by the token or by its own timeout.              *)
(***************************************************************************)
EXTENDS PgQueue

VARIABLES
    caller,    \* [RpcJob -> CallerPhases]
    signal,    \* [RpcJob -> {"poll","redis"}], how the wait goes on
    late,      \* [RpcJob -> BOOLEAN], the deadline of the wait has passed
    stored,    \* [RpcJob -> {"absent","payload","tombstone"}]
    reply,     \* [RpcJob -> Replies], what dispatch returned
    inTime,    \* jobs answered before the deadline, with a look still to come
    unscrubbed,\* jobs whose forget failed twice, or whose caller died
    swept      \* jobs whose row the retention sweep has deleted

callerVars == <<caller, signal, late, reply>>
rpcHistory == <<inTime, unscrubbed, swept>>
rpcVars == <<callerVars, stored, rpcHistory>>
allVars == <<vars, rpcVars>>

RpcJob == {j \in Job : Kind[j] = "rpc"}
Waiting == {"look", "test", "blocked", "lastLook"}
CallerPhases == Waiting \cup {"off", "forget", "done"}
Signals == {"poll", "redis"}
RowStates == {"absent", "payload", "tombstone"}
Replies == Outcomes \cup {"none", "timeout", "error"}

RpcInit ==
    /\ Init
    /\ caller = [j \in RpcJob |-> "off"]
    /\ signal = [j \in RpcJob |-> "poll"]
    /\ late = [j \in RpcJob |-> FALSE]
    /\ stored = [j \in RpcJob |-> "absent"]
    /\ reply = [j \in RpcJob |-> "none"]
    /\ inTime = {}
    /\ unscrubbed = {}
    /\ swept = {}

-----------------------------------------------------------------------------
(* PgExecutionDispatcher.dispatch and the wait for the row.                *)

Return(j, outcomeOfCall) ==
    /\ caller' = [caller EXCEPT ![j] = "done"]
    /\ reply' = [reply EXCEPT ![j] = outcomeOfCall]

\* enqueue, without a delay. When it raises the caller has its failure at
\* once, though the row may have been committed.
Dispatch(r, j) ==
    /\ j \in RpcJob
    /\ Send(r, j)
    /\ \/ /\ caller' = [caller EXCEPT ![j] = "look"]
          /\ \E s \in Signals : signal' = [signal EXCEPT ![j] = s]
          /\ UNCHANGED reply
       \/ /\ Return(j, "error")
          /\ UNCHANGED signal
    /\ UNCHANGED <<late, stored, rpcHistory>>

\* A row was found. The transport forgets its payload before dispatch reads
\* it; a COMPLETED row whose payload is missing or malformed is an error.
Found(j) ==
    /\ caller' = [caller EXCEPT ![j] = "forget"]
    /\ \/ /\ stored[j] = "payload" \/ result[j] = "failed"
          /\ reply' = [reply EXCEPT ![j] = result[j]]
       \/ /\ result[j] = "completed"
          /\ reply' = [reply EXCEPT ![j] = "error"]

\* One get_result of the wait.
Look(j) ==
    /\ caller[j] = "look"
    /\ \/ stored[j] # "absent" /\ Found(j)
       \/ /\ stored[j] = "absent"
          /\ caller' = [caller EXCEPT ![j] = "test"]
          /\ UNCHANGED reply
    /\ UNCHANGED <<vars, signal, late, stored, rpcHistory>>

\* Mutant: the wait on Redis ends at the deadline without a last look.
TestDeadlineOnly(j) ==
    /\ caller[j] = "test"
    /\ \/ /\ ~late[j]
          /\ caller' = [caller EXCEPT ![j] = "blocked"]
          /\ UNCHANGED reply
       \/ late[j] /\ Return(j, "timeout")
    /\ UNCHANGED <<vars, signal, late, stored, rpcHistory>>

\* Nothing found: poll_for_row gives up once its budget is spent, the Redis
\* wait looks a last time, and both block otherwise.
TestDeadline(j) ==
    /\ caller[j] = "test"
    /\ \/ /\ ~late[j]
          /\ caller' = [caller EXCEPT ![j] = "blocked"]
          /\ UNCHANGED reply
       \/ /\ late[j]
          /\ signal[j] = "redis"
          /\ caller' = [caller EXCEPT ![j] = "lastLook"]
          /\ UNCHANGED reply
       \/ /\ late[j]
          /\ signal[j] = "poll"
          /\ Return(j, "timeout")
    /\ UNCHANGED <<vars, signal, late, stored, rpcHistory>>

LastLook(j) ==
    /\ caller[j] = "lastLook"
    /\ \/ stored[j] # "absent" /\ Found(j)
       \/ stored[j] = "absent" /\ Return(j, "timeout")
    /\ UNCHANGED <<vars, signal, late, stored, rpcHistory>>

\* Mutant: the BLPOP has no timeout of its own.
WakeOnToken(j) ==
    /\ caller[j] = "blocked"
    /\ signal[j] = "redis" => stored[j] # "absent"
    /\ caller' = [caller EXCEPT ![j] = "look"]
    /\ UNCHANGED <<vars, signal, late, stored, reply, rpcHistory>>

\* The sleep ends, or the BLPOP does: at the ready token, the fallback tick
\* or the deadline.
Wake(j) ==
    /\ caller[j] = "blocked"
    /\ caller' = [caller EXCEPT ![j] = "look"]
    /\ UNCHANGED <<vars, signal, late, stored, reply, rpcHistory>>

\* No Redis client after the first look, or a RedisError from the BLPOP: the
\* rest of the budget is polled.
RedisFails(j) ==
    /\ caller[j] \in {"test", "blocked"}
    /\ signal[j] = "redis"
    /\ signal' = [signal EXCEPT ![j] = "poll"]
    /\ caller' = [caller EXCEPT ![j] = "look"]
    /\ UNCHANGED <<vars, late, stored, reply, rpcHistory>>

\* get_result raises, unretried: dispatch turns it into a failure.
LookFails(j) ==
    /\ caller[j] \in {"look", "lastLook"}
    /\ Return(j, "error")
    /\ UNCHANGED <<vars, signal, late, stored, rpcHistory>>

DeadlinePasses(j) ==
    /\ caller[j] \in Waiting
    /\ ~late[j]
    /\ late' = [late EXCEPT ![j] = TRUE]
    /\ UNCHANGED <<vars, caller, signal, reply, stored, rpcHistory>>

CallerDies(j) ==
    /\ caller[j] \in Waiting \cup {"forget"}
    /\ caller' = [caller EXCEPT ![j] = "done"]
    /\ unscrubbed' = unscrubbed \cup {j}
    /\ UNCHANGED <<vars, signal, late, stored, reply, inTime, swept>>

-----------------------------------------------------------------------------
(* The result row: stored, forgotten, swept.                               *)

\* Mutant: forget deletes the row.
ForgottenDeleted == "absent"

\* forget: both payload columns become NULL, the row stays.
Forgotten == "tombstone"

Forget(j) ==
    /\ caller[j] = "forget"
    /\ stored' = [stored EXCEPT ![j] = Forgotten]
    /\ caller' = [caller EXCEPT ![j] = "done"]
    /\ UNCHANGED <<vars, signal, late, reply, rpcHistory>>

ForgetFails(j) ==
    /\ caller[j] = "forget"
    /\ caller' = [caller EXCEPT ![j] = "done"]
    /\ unscrubbed' = unscrubbed \cup {j}
    /\ UNCHANGED <<vars, signal, late, reply, stored, inTime, swept>>

\* The caller will look again, whatever the clock does. A polling one will
\* not when its deadline falls between its look and its test of the clock.
Attentive(j) ==
    /\ caller[j] \in Waiting
    /\ ~late[j]
    /\ ~(caller[j] = "test" /\ signal[j] = "poll")

\* store_result of the consumer: INSERT ... ON CONFLICT DO NOTHING.
StoreReply(c) ==
    LET jobs == RpcJob \cap payload[InFlight(c)]
    IN  /\ StoreOutcome(c)
        /\ stored' = [j \in RpcJob |->
                     IF j \in jobs /\ stored[j] = "absent"
                     THEN "payload" ELSE stored[j]]
        /\ inTime' = inTime \cup {j \in jobs : Attentive(j)}
        /\ UNCHANGED <<callerVars, unscrubbed, swept>>

\* sweep_expired_results of the reaper. The retention is not shorter than
\* the timeout of a caller.
SweepExpiredResult(j) ==
    /\ caller[j] = "done"
    /\ stored[j] # "absent"
    /\ stored' = [stored EXCEPT ![j] = "absent"]
    /\ swept' = swept \cup {j}
    /\ UNCHANGED <<vars, callerVars, inTime, unscrubbed>>

-----------------------------------------------------------------------------
Wait(j) == Look(j) \/ TestDeadline(j) \/ LastLook(j) \/ Wake(j)
ConsumeReply(j) == Forget(j) \/ ForgetFails(j)

\* Every step of the queue that concerns no caller.
QueueStep ==
    /\ \/ \E r \in Row, j \in Job :
              \/ j \notin RpcJob /\ (Send(r, j) \/ SendDelayed(r, j))
              \/ SendRetriedAfterCommit(r, j)
       \/ \E c \in Consumer :
              \/ Poll(c) \/ Resolve(c) \/ TaskEnds(c)
              \/ StoreFails(c) \/ Chain(c) \/ ChainFails(c)
              \/ DropPoison(c) \/ Ack(c)
              \/ Fault(c) \/ RenewalRecovers(c) \/ Restart(c)
       \/ \E r \in Row : TimePasses(r)
       \/ RearmExpiredClaims
       \/ PromoteDueScheduled
    /\ UNCHANGED rpcVars

RpcNext ==
    \/ QueueStep
    \/ \E c \in Consumer : StoreReply(c)
    \/ \E r \in Row, j \in RpcJob : Dispatch(r, j)
    \/ \E j \in RpcJob :
           \/ Wait(j) \/ RedisFails(j) \/ LookFails(j) \/ DeadlinePasses(j)
           \/ CallerDies(j) \/ ConsumeReply(j) \/ SweepExpiredResult(j)

RpcSpec == RpcInit /\ [][RpcNext]_allVars

(***************************************************************************)
(* A blocked thread wakes, a running one goes on, and its clock advances.  *)
(* Nothing is asked of the consumers.                                      *)
(***************************************************************************)
RpcFairness ==
    \A j \in RpcJob :
        /\ WF_allVars(Wait(j))
        /\ WF_allVars(ConsumeReply(j))
        /\ WF_allVars(DeadlinePasses(j))

FairRpcSpec == RpcSpec /\ RpcFairness

-----------------------------------------------------------------------------
\* The types of the callers and of the result table; and a job is a caller's
\* once it is dispatched (dispatch: enqueue, then wait).
RpcTypeOK ==
    /\ caller \in [RpcJob -> CallerPhases]
    /\ signal \in [RpcJob -> Signals]
    /\ late \in [RpcJob -> BOOLEAN]
    /\ stored \in [RpcJob -> RowStates]
    /\ reply \in [RpcJob -> Replies]
    /\ inTime \in SUBSET RpcJob
    /\ unscrubbed \in SUBSET RpcJob
    /\ swept \in SUBSET RpcJob
    /\ \A j \in RpcJob : caller[j] = "off" <=> j \in unsent
    /\ \A j \in RpcJob : caller[j] \in Waiting => reply[j] = "none"

(***************************************************************************)
(* The caller of a dispatch that was answered holds the outcome recorded   *)
(* first, however many deliveries ran and however they ended, and however  *)
(* often it was forgotten, swept and stored again (_store_sql, forget).    *)
(***************************************************************************)
ReplyIsFirstOutcome ==
    \A j \in RpcJob : reply[j] \in Outcomes => reply[j] = result[j]

(***************************************************************************)
(* Once the caller has consumed its answer the table holds no payload for  *)
(* that reply key, though redeliveries and zombies store theirs later: the *)
(* tombstone absorbs them. The exceptions are a forget that failed, a      *)
(* caller that died, and a delivery later than the retention sweep         *)
(* (forget, sweep_expired_results).                                        *)
(***************************************************************************)
ConsumedPayloadStaysScrubbed ==
    \A j \in RpcJob \ (unscrubbed \cup swept) :
        reply[j] \in Outcomes /\ stored[j] = "payload" => caller[j] = "forget"

(***************************************************************************)
(* An answer stored before the deadline is never reported as a timeout,    *)
(* when Redis is down, its token lost or the wait degraded halfway, except *)
(* in the instant between the last look of a poll and its test of the      *)
(* clock (_wait_via_redis, poll_for_row).                                  *)
(***************************************************************************)
AnswerInTimeIsReturned == \A j \in inTime : reply[j] # "timeout"

(***************************************************************************)
(* dispatch returns: no lost message, unstored answer or dead Redis leaves *)
(* its caller blocked for ever (wait_for_result).                          *)
(***************************************************************************)
EveryCallerReturns ==
    \A j \in RpcJob : caller[j] # "off" ~> caller[j] = "done"
=============================================================================
