\* An outbox that fills up while there is no connection.
SPECIFICATION FairSpec
CONSTANTS
    op1 = op1
    op2 = op2
    op3 = op3
    Ops = {op1, op2, op3}
    OpType <- OneOfEach
    OutboxCap = 2
    BackoffCap = 1
    MaxBeats = 1
    MaxFaults = 1
    MaxUpdates = 2
    MaxDeliveries = 0
    MaxOutput = 0
    Logs <- NoLogs
    ChunkSize = 4
    MaxLine = 8
    MaxAttempts = 1
    MaxStarts = 0
PROPERTIES
    Reconnects
CHECK_DEADLOCK FALSE
