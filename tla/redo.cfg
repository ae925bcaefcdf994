SPECIFICATION Spec
CONSTANTS
    build = build
    gate = gate
    deploy = deploy
    a1 = a1
    a2 = a2
    Approvers = {a1}
    Parallel = Parallel
    Tasks <- ReleaseTasks
    DependsOn <- ReleaseDependsOn
    Order <- ReleaseOrder
    Stage <- ReleaseStage
    Type <- ReleaseType
    Required <- ReleaseRequired
    Deciders <- ReleaseDeciders
    HubCommands = {"approve", "rerun"}
    RerunTasks = {gate}
    MaxReruns = 1
    MaxRetries = 0
    MaxFaults = 0
    MaxLag = 1
INVARIANTS StartedOncePerRerun
CHECK_DEADLOCK FALSE
