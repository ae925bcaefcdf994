\* The connection to the Hub and the reports: two status updates of a run, one fault, an outbox
\* with room for everything that can be in it.
SPECIFICATION FairOneTopicSpec
CONSTANTS
    op1 = op1
    op2 = op2
    op3 = op3
    Ops = {op1, op2, op3}
    OpType <- OneOfEach
    OutboxCap = 8
    BackoffCap = 1
    MaxBeats = 1
    MaxFaults = 1
    MaxUpdates = 2
    MaxDeliveries = 1
    MaxOutput = 1
    Logs <- NoLogs
    ChunkSize = 4
    MaxLine = 8
    MaxAttempts = 2
    MaxStarts = 0
INVARIANTS
    TypeOK
    ReportsAccounted
PROPERTIES
    KeepsServing
    EndLearnt
    OpsAnswered
    UpgradeHeard
CHECK_DEADLOCK FALSE
