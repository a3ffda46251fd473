------------------------- MODULE ExecutorRpc_proofs -------------------------
(***************************************************************************)
(* Proofs about ExecutorRpc for every table, set of dispatches and set of  *)
(* consumers: the composition is a PgQueue, and its callers get the first  *)
(* outcome, in time, and leave no payload behind.                          *)
(***************************************************************************)
EXTENDS ExecutorRpc, PgQueue_proofs

-----------------------------------------------------------------------------
(* The composition takes only steps of the queue.                          *)

LEMMA RpcStepIsQueueStep ==
    ASSUME [RpcNext]_allVars
    PROVE  [Next]_vars
<1>1. CASE QueueStep
  BY <1>1 DEF QueueStep, Next, Produce, ConsumerStep, Deliver
<1>2. CASE \E c \in Consumer : StoreReply(c)
  BY <1>2 DEF StoreReply, Next, ConsumerStep, Deliver
<1>3. CASE \E r \in Row, j \in RpcJob : Dispatch(r, j)
  BY <1>3 DEF Dispatch, Next, Produce, RpcJob
<1>4. ASSUME NEW j \in RpcJob,
             \/ Wait(j) \/ RedisFails(j) \/ LookFails(j) \/ DeadlinePasses(j)
             \/ CallerDies(j) \/ ConsumeReply(j) \/ SweepExpiredResult(j)
      PROVE  UNCHANGED vars
  BY <1>4 DEF Wait, Look, TestDeadline, LastLook, Wake, RedisFails, LookFails,
       DeadlinePasses, CallerDies, ConsumeReply, Forget, ForgetFails,
       SweepExpiredResult
<1>5. CASE UNCHANGED allVars
  BY <1>5 DEF allVars
<1>6. QED
  BY <1>1, <1>2, <1>3, <1>4, <1>5 DEF RpcNext

(***************************************************************************)
(* The callers, the result rows and the retention sweep only observe the   *)
(* queue: every behaviour of the composition is one of PgQueue, whose      *)
(* theorems therefore hold of it.                                          *)
(***************************************************************************)
THEOREM RpcIsPgQueue == RpcSpec => Spec
<1>1. RpcInit => Init
  BY DEF RpcInit
<1>2. QED
  BY <1>1, RpcStepIsQueueStep, PTL DEF RpcSpec, Spec

-----------------------------------------------------------------------------
(* The inductive invariant.                                                *)

\* The row and the recorded outcome appear together, and the row becomes a
\* tombstone or goes away only when its caller is done.
RowFollowsCaller ==
    \A j \in RpcJob :
        /\ stored[j] # "absent" => result[j] # "none"
        /\ stored[j] = "tombstone" => caller[j] = "done"
        /\ caller[j] = "forget" => stored[j] = "payload"

\* A caller that was answered and is done has scrubbed the row, unless it
\* could not or the row was swept.
AnsweredIsScrubbed ==
    \A j \in RpcJob :
        /\ caller[j] = "done" /\ reply[j] \in Outcomes
             => j \in unscrubbed \cup swept \/ stored[j] = "tombstone"
        /\ caller[j] = "forget" => reply[j] \in Outcomes \cup {"error"}
        /\ caller[j] = "off" => reply[j] = "none" /\ stored[j] # "tombstone"

\* A caller answered in time finds the row before it tests its deadline.
InTimeIsFound ==
    \A j \in inTime :
        /\ caller[j] \in Waiting =>
               /\ stored[j] = "payload"
               /\ ~(caller[j] = "test" /\ signal[j] = "poll")
        /\ caller[j] # "off"
        /\ reply[j] # "timeout"

RpcInv ==
    /\ RpcTypeOK
    /\ RowFollowsCaller
    /\ AnsweredIsScrubbed
    /\ ReplyIsFirstOutcome
    /\ InTimeIsFound

\* The phases that tests compare are different.
LEMMA WaitingPhases ==
    /\ Waiting \subseteq CallerPhases
    /\ "off" \notin Waiting /\ "done" \notin Waiting /\ "forget" \notin Waiting
BY DEF Waiting, CallerPhases

LEMMA QueueStepKeepsResults ==
    ASSUME QueueStep
    PROVE  /\ UNCHANGED <<result, rpcVars>>
           /\ \A j \in RpcJob : j \in unsent' <=> j \in unsent
<1>1. UNCHANGED rpcVars
  BY DEF QueueStep
<1> USE DEF channelVars
<1>2. CASE \E r \in Row, j \in Job :
              \/ j \notin RpcJob /\ (Send(r, j) \/ SendDelayed(r, j))
              \/ SendRetriedAfterCommit(r, j)
  BY <1>1, <1>2 DEF Send, SendDelayed, SendRetriedAfterCommit, Insert
<1>3. ASSUME NEW c \in Consumer,
             \/ Poll(c) \/ Resolve(c) \/ TaskEnds(c)
             \/ StoreFails(c) \/ Chain(c) \/ ChainFails(c)
      PROVE  UNCHANGED <<result, unsent>>
  BY <1>3 DEF Poll, Claim, Resolve, DropUnrunnable, FindPoison, StartTask,
       TaskEnds, TaskReturns, TaskRaises, StoreFails, Chain, ChainFails
<1>4. ASSUME NEW c \in Consumer,
             \/ DropPoison(c) \/ Ack(c)
             \/ Fault(c) \/ RenewalRecovers(c) \/ Restart(c)
      PROVE  UNCHANGED <<result, unsent>>
  BY <1>4 DEF DropPoison, DropPoisonAnswering, DropPoisonUnmarkable,
       MarkPoisonError, DropPoisonUnconfirmed, RePark, Ack, Fault, AckFails,
       RenewalFails, Crash, RenewalRecovers, Restart
<1>5. CASE \/ \E r \in Row : TimePasses(r)
           \/ RearmExpiredClaims
           \/ PromoteDueScheduled
  BY <1>1, <1>5 DEF TimePasses, RearmExpiredClaims, PromoteDueScheduled
<1>6. QED
  BY <1>1, <1>2, <1>3, <1>4, <1>5 DEF QueueStep

LEMMA RpcInvInit == RpcInit => RpcInv
BY DEF RpcInit, Init, RpcInv, RpcTypeOK, RowFollowsCaller, AnsweredIsScrubbed,
   ReplyIsFirstOutcome, InTimeIsFound, RpcJob, CallerPhases, Signals,
   RowStates, Replies, Outcomes, Waiting

LEMMA RpcInvStutter ==
    ASSUME RpcInv, UNCHANGED <<result, rpcVars>>,
           \A j \in RpcJob : j \in unsent' <=> j \in unsent
    PROVE  RpcInv'
BY DEF RpcInv, RpcTypeOK, RowFollowsCaller, AnsweredIsScrubbed,
   ReplyIsFirstOutcome, InTimeIsFound, rpcVars, callerVars, rpcHistory

LEMMA DispatchKeepsInv ==
    ASSUME TypeOK, RpcInv, NEW r \in Row, NEW j \in RpcJob, Dispatch(r, j)
    PROVE  RpcInv'
<1> USE DEF RpcInv, RpcTypeOK, callerVars, rpcHistory, channelVars
<1>1. /\ j \in unsent /\ unsent' = unsent \ {j}
      /\ UNCHANGED <<result, late, stored, inTime, unscrubbed, swept>>
      /\ caller[j] = "off" /\ reply[j] = "none" /\ stored[j] # "tombstone"
      /\ j \notin inTime
  BY DEF Dispatch, Send, Insert, AnsweredIsScrubbed, InTimeIsFound
<1>2. CASE /\ caller' = [caller EXCEPT ![j] = "look"]
           /\ \E s \in Signals : signal' = [signal EXCEPT ![j] = s]
           /\ UNCHANGED reply
  <2>1. RpcTypeOK'
    BY <1>1, <1>2 DEF CallerPhases, Waiting
  <2>2. RowFollowsCaller' /\ AnsweredIsScrubbed' /\ ReplyIsFirstOutcome'
    BY <1>1, <1>2 DEF RowFollowsCaller, AnsweredIsScrubbed,
       ReplyIsFirstOutcome, Outcomes
  <2>3. InTimeIsFound'
    BY <1>1, <1>2 DEF InTimeIsFound
  <2>4. QED
    BY <2>1, <2>2, <2>3
<1>3. CASE Return(j, "error") /\ UNCHANGED signal
  <2>1. RpcTypeOK'
    BY <1>1, <1>3 DEF Return, CallerPhases, Waiting, Replies
  <2>2. RowFollowsCaller' /\ AnsweredIsScrubbed' /\ ReplyIsFirstOutcome'
    BY <1>1, <1>3 DEF Return, RowFollowsCaller, AnsweredIsScrubbed,
       ReplyIsFirstOutcome, Outcomes
  <2>3. InTimeIsFound'
    BY <1>1, <1>3 DEF Return, InTimeIsFound
  <2>4. QED
    BY <2>1, <2>2, <2>3
<1>4. QED
  BY <1>2, <1>3 DEF Dispatch

LEMMA StoreKeepsInv ==
    ASSUME TypeOK, RpcInv, NEW c \in Consumer, StoreReply(c)
    PROVE  RpcInv'
<1> DEFINE jobs == RpcJob \cap payload[InFlight(c)]
<1> USE DEF RpcInv, callerVars
<1>1. /\ UNCHANGED <<caller, signal, late, reply, unscrubbed, swept, unsent>>
      /\ stored' = [j \in RpcJob |->
                      IF j \in jobs /\ stored[j] = "absent"
                      THEN "payload" ELSE stored[j]]
      /\ inTime' = inTime \cup {j \in jobs : Attentive(j)}
      /\ result' = [j \in Job |->
                      IF j \in payload[InFlight(c)]
                      THEN FirstWriteWins(result[j], outcome[c])
                      ELSE result[j]]
  BY DEF StoreReply, StoreOutcome
<1>2. \A j \in RpcJob :
        /\ result[j] # "none" => result'[j] = result[j]
        /\ j \in jobs => result'[j] # "none"
  BY <1>1 DEF FirstWriteWins, TypeOK, Outcomes, RpcJob
<1>3. RpcTypeOK'
  BY <1>1 DEF RpcTypeOK, RowStates
<1>4. RowFollowsCaller' /\ AnsweredIsScrubbed'
  BY <1>1, <1>2 DEF RowFollowsCaller, AnsweredIsScrubbed, RpcTypeOK, RowStates
<1>5. ReplyIsFirstOutcome'
  BY <1>1, <1>2 DEF ReplyIsFirstOutcome, Outcomes
<1>6. InTimeIsFound'
  <2>1. \A j \in jobs : Attentive(j) =>
           /\ stored[j] # "tombstone" /\ reply[j] = "none"
           /\ caller[j] \in Waiting
           /\ ~(caller[j] = "test" /\ signal[j] = "poll")
    BY WaitingPhases DEF Attentive, RowFollowsCaller, RpcTypeOK
  <2>2. \A j \in inTime : stored[j] = "payload" => stored'[j] = "payload"
    BY <1>1 DEF RpcTypeOK
  <2>3. QED
    BY <1>1, <2>1, <2>2, WaitingPhases
       DEF InTimeIsFound, RpcTypeOK, RowStates
<1>7. QED
  BY <1>3, <1>4, <1>5, <1>6

LEMMA WaitKeepsInv ==
    ASSUME TypeOK, RpcInv, NEW j \in RpcJob,
           Wait(j) \/ RedisFails(j) \/ LookFails(j) \/ DeadlinePasses(j)
    PROVE  RpcInv'
<1> USE DEF RpcInv, rpcHistory, vars, tableVars, channelVars, workerVars,
        historyVars
<1>1. /\ UNCHANGED <<result, unsent, stored, inTime, unscrubbed, swept>>
      /\ caller[j] \in Waiting /\ reply[j] = "none"
      /\ stored[j] # "tombstone"
  BY DEF Wait, Look, TestDeadline, LastLook, Wake, RedisFails, LookFails,
     DeadlinePasses, Waiting, RpcTypeOK, RowFollowsCaller
<1>2. \A k \in RpcJob \ {j} :
        /\ caller'[k] = caller[k] /\ signal'[k] = signal[k]
        /\ reply'[k] = reply[k]
  BY DEF Wait, Look, TestDeadline, LastLook, Wake, RedisFails, LookFails,
     DeadlinePasses, Found, Return, RpcTypeOK
<1>3. /\ caller' \in [RpcJob -> CallerPhases]
      /\ signal' \in [RpcJob -> Signals]
      /\ late' \in [RpcJob -> BOOLEAN]
      /\ reply' \in [RpcJob -> Replies]
      /\ \/ /\ caller'[j] \in Waiting /\ reply'[j] = "none"
            /\ j \in inTime => ~(caller'[j] = "test" /\ signal'[j] = "poll")
         \/ /\ caller'[j] = "done" /\ reply'[j] \in {"timeout", "error"}
            /\ j \in inTime => reply'[j] # "timeout"
         \/ /\ caller'[j] = "forget" /\ stored[j] = "payload"
            /\ reply'[j] \in {result[j], "error"} /\ result[j] \in Outcomes
  <2> USE DEF RpcTypeOK, Waiting, CallerPhases, Signals, Replies, Outcomes
  <2>1. stored[j] = "payload" => result[j] \in Outcomes
    BY DEF TypeOK, RowFollowsCaller, RpcJob
  <2>2. CASE Look(j)
    BY <2>1, <2>2, <1>1 DEF Look, Found, RowStates, InTimeIsFound
  <2>3. CASE TestDeadline(j)
    BY <2>3, <1>1 DEF TestDeadline, Return, InTimeIsFound
  <2>4. CASE LastLook(j)
    BY <2>1, <2>4, <1>1 DEF LastLook, Found, Return, RowStates, InTimeIsFound
  <2>5. CASE Wake(j)
    BY <2>5, <1>1 DEF Wake
  <2>6. CASE DeadlinePasses(j)
    BY <2>6, <1>1 DEF DeadlinePasses, InTimeIsFound
  <2>7. CASE RedisFails(j)
    BY <2>7, <1>1 DEF RedisFails
  <2>8. CASE LookFails(j)
    BY <2>8, <1>1 DEF LookFails, Return
  <2>9. QED
    BY <2>2, <2>3, <2>4, <2>5, <2>6, <2>7, <2>8 DEF Wait
<1>4. RpcTypeOK'
  BY <1>1, <1>2, <1>3, WaitingPhases DEF RpcTypeOK, InTimeIsFound
<1>5. RowFollowsCaller' /\ AnsweredIsScrubbed'
  BY <1>1, <1>2, <1>3, WaitingPhases
     DEF RowFollowsCaller, AnsweredIsScrubbed, Outcomes
<1>6. ReplyIsFirstOutcome'
  BY <1>1, <1>2, <1>3 DEF ReplyIsFirstOutcome, Outcomes
<1>7. InTimeIsFound'
  BY <1>1, <1>2, <1>3, WaitingPhases DEF InTimeIsFound, Outcomes, RpcTypeOK
<1>8. QED
  BY <1>4, <1>5, <1>6, <1>7

LEMMA EndKeepsInv ==
    ASSUME RpcInv, NEW j \in RpcJob,
           CallerDies(j) \/ ConsumeReply(j) \/ SweepExpiredResult(j)
    PROVE  RpcInv'
<1> USE DEF RpcInv, callerVars, rpcHistory, vars, channelVars
<1>1. CASE CallerDies(j)
  <2>1. RpcTypeOK'
    BY <1>1, WaitingPhases DEF CallerDies, RpcTypeOK, CallerPhases
  <2>2. RowFollowsCaller' /\ AnsweredIsScrubbed'
    BY <1>1 DEF CallerDies, RowFollowsCaller, AnsweredIsScrubbed, RpcTypeOK
  <2>3. ReplyIsFirstOutcome' /\ InTimeIsFound'
    BY <1>1, WaitingPhases
       DEF CallerDies, ReplyIsFirstOutcome, InTimeIsFound, RpcTypeOK
  <2>4. QED
    BY <2>1, <2>2, <2>3
<1>2. CASE Forget(j)
  <2>1. RpcTypeOK'
    BY <1>2, WaitingPhases
       DEF Forget, Forgotten, RpcTypeOK, CallerPhases, RowStates
  <2>2. RowFollowsCaller' /\ AnsweredIsScrubbed'
    BY <1>2 DEF Forget, Forgotten, RowFollowsCaller, AnsweredIsScrubbed,
       RpcTypeOK
  <2>3. ReplyIsFirstOutcome' /\ InTimeIsFound'
    BY <1>2, WaitingPhases
       DEF Forget, ReplyIsFirstOutcome, InTimeIsFound, RpcTypeOK
  <2>4. QED
    BY <2>1, <2>2, <2>3
<1>3. CASE ForgetFails(j)
  <2>1. RpcTypeOK'
    BY <1>3, WaitingPhases DEF ForgetFails, RpcTypeOK, CallerPhases
  <2>2. RowFollowsCaller' /\ AnsweredIsScrubbed'
    BY <1>3 DEF ForgetFails, RowFollowsCaller, AnsweredIsScrubbed, RpcTypeOK
  <2>3. ReplyIsFirstOutcome' /\ InTimeIsFound'
    BY <1>3, WaitingPhases
       DEF ForgetFails, ReplyIsFirstOutcome, InTimeIsFound, RpcTypeOK
  <2>4. QED
    BY <2>1, <2>2, <2>3
<1>4. CASE SweepExpiredResult(j)
  <2>1. RpcTypeOK'
    BY <1>4 DEF SweepExpiredResult, RpcTypeOK, RowStates
  <2>2. RowFollowsCaller' /\ AnsweredIsScrubbed'
    BY <1>4 DEF SweepExpiredResult, RowFollowsCaller, AnsweredIsScrubbed,
       RpcTypeOK
  <2>3. ReplyIsFirstOutcome' /\ InTimeIsFound'
    BY <1>4, WaitingPhases
       DEF SweepExpiredResult, ReplyIsFirstOutcome, InTimeIsFound, RpcTypeOK
  <2>4. QED
    BY <2>1, <2>2, <2>3
<1>5. QED
  BY <1>1, <1>2, <1>3, <1>4 DEF ConsumeReply

LEMMA RpcInvStep ==
    ASSUME TypeOK, RpcInv, [RpcNext]_allVars
    PROVE  RpcInv'
<1>1. CASE QueueStep
  BY <1>1, QueueStepKeepsResults, RpcInvStutter
<1>2. CASE \E c \in Consumer : StoreReply(c)
  BY <1>2, StoreKeepsInv
<1>3. CASE \E r \in Row, j \in RpcJob : Dispatch(r, j)
  BY <1>3, DispatchKeepsInv
<1>4. ASSUME NEW j \in RpcJob,
             \/ Wait(j) \/ RedisFails(j) \/ LookFails(j) \/ DeadlinePasses(j)
             \/ CallerDies(j) \/ ConsumeReply(j) \/ SweepExpiredResult(j)
      PROVE  RpcInv'
  BY <1>4, WaitKeepsInv, EndKeepsInv
<1>5. CASE UNCHANGED allVars
  BY <1>5, RpcInvStutter DEF allVars, vars, channelVars
<1>6. QED
  BY <1>1, <1>2, <1>3, <1>4, <1>5 DEF RpcNext

THEOREM RpcInvariance == RpcSpec => []RpcInv
<1>1. RpcSpec => []TypeOK
  BY RpcIsPgQueue, TypeCorrect, PTL
<1>2. QED
  BY <1>1, RpcInvInit, RpcInvStep, PTL DEF RpcSpec

-----------------------------------------------------------------------------
(***************************************************************************)
(* The callers and the rows they wait for stay in their types.             *)
(***************************************************************************)
THEOREM RpcTypeCorrect == RpcSpec => []RpcTypeOK
<1>1. RpcInv => RpcTypeOK
  BY DEF RpcInv
<1>2. QED
  BY <1>1, RpcInvariance, PTL

(***************************************************************************)
(* A caller that returned an outcome returned the one recorded first.      *)
(***************************************************************************)
THEOREM FirstOutcomeReturned == RpcSpec => []ReplyIsFirstOutcome
<1>1. RpcInv => ReplyIsFirstOutcome
  BY DEF RpcInv
<1>2. QED
  BY <1>1, RpcInvariance, PTL

(***************************************************************************)
(* No redelivery puts a payload back that its caller has forgotten, before *)
(* the retention sweep has removed the tombstone.                          *)
(***************************************************************************)
THEOREM ConsumedStaysScrubbed == RpcSpec => []ConsumedPayloadStaysScrubbed
<1>1. RpcInv => ConsumedPayloadStaysScrubbed
  <2>1. ASSUME RpcInv, NEW j \in RpcJob \ (unscrubbed \cup swept),
               reply[j] \in Outcomes, stored[j] = "payload"
        PROVE  caller[j] = "forget"
    <3>1. caller[j] \notin Waiting /\ caller[j] # "off" /\ caller[j] # "done"
      BY <2>1 DEF RpcInv, RpcTypeOK, AnsweredIsScrubbed, Outcomes
    <3>2. QED
      BY <2>1, <3>1 DEF RpcInv, RpcTypeOK, CallerPhases
  <2>2. QED
    BY <2>1 DEF ConsumedPayloadStaysScrubbed
<1>2. QED
  BY <1>1, RpcInvariance, PTL

(***************************************************************************)
(* An answer stored in time is never reported as a timeout.                *)
(***************************************************************************)
THEOREM InTimeReturned == RpcSpec => []AnswerInTimeIsReturned
<1>1. RpcInv => AnswerInTimeIsReturned
  BY DEF RpcInv, InTimeIsFound, AnswerInTimeIsReturned
<1>2. QED
  BY <1>1, RpcInvariance, PTL

(***************************************************************************)
(* The composition keeps the promises of the queue: an rpc is acked with a *)
(* result, its body starts at most MaxAttempts times, and the table is     *)
(* what the contract of WorkQueue allows, callers and sweeps included.     *)
(***************************************************************************)
THEOREM RpcKeepsQueuePromises ==
    RpcSpec => []OutcomeSurfaced /\ []BoundedRuns /\ ImplementsContract
BY RpcIsPgQueue, OutcomesSurface, RunsAreBounded, QueueHonoursContract
=============================================================================
