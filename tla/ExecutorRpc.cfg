SPECIFICATION FairRpcSpec
CONSTANTS
    c1 = c1
    Rpc = Rpc
    Row <- TwoRows
    Job <- Request
    Consumer <- OneConsumer
    Kind <- MCKind
    Shape <- MCShape
    Priority <- MCPriority
    BatchSize = 1
    ShortLease = TRUE
    MaxAttempts = 2
    ReparkBudget = 0
    MaxFaults = 2
INVARIANTS
    ReplyIsFirstOutcome
    ConsumedPayloadStaysScrubbed
    AnswerInTimeIsReturned
    OutcomeSurfaced
PROPERTIES
    EveryCallerReturns
CHECK_DEADLOCK FALSE
