\* Operations and logs: two commands, of an exec and an upgrade or twice of one of them; two
\* starts of a Job whose log is streamed; one fault.
SPECIFICATION OneTopicSpec
CONSTANTS
    op1 = op1
    op2 = op2
    op3 = op3
    Ops = {op1, op2}
    OpType <- ExecAndUpgrade
    OutboxCap = 8
    BackoffCap = 1
    MaxBeats = 0
    MaxFaults = 1
    MaxUpdates = 0
    MaxDeliveries = 2
    MaxOutput = 2
    Logs <- SomeLogs
    ChunkSize = 4
    MaxLine = 8
    MaxAttempts = 2
    MaxStarts = 2
INVARIANTS
    OutcomeEarned
    LedgerInOrder
    OutputComplete
    ChunksFit
    LogsInOrder
CHECK_DEADLOCK FALSE
