SPECIFICATION AloneSpec
CONSTANTS
    build = build
    gate = gate
    deploy = deploy
    a1 = a1
    a2 = a2
    Approvers = {a1, a2}
    Parallel = Parallel
    Tasks <- AloneTasks
    DependsOn <- AloneDependsOn
    Order <- AloneOrder
    Stage <- AloneStage
    Type <- AloneType
    Required <- AloneRequired
    Deciders <- AloneDeciders
    HubCommands = {"approve", "reject"}
    RerunTasks = {}
    MaxReruns = 0
    MaxRetries = 2
    MaxFaults = 2
    MaxLag = 1
INVARIANTS SuccessIsEarned RetriesExhausted
CHECK_DEADLOCK FALSE
