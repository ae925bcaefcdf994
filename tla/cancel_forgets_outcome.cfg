SPECIFICATION Spec
CONSTANTS
    build = build
    gate = gate
    deploy = deploy
    a1 = a1
    a2 = a2
    Approvers = {a1, a2}
    Parallel = Parallel
    Tasks <- PairTasks
    DependsOn <- PairDependsOn
    Order <- PairOrder
    Stage <- PairStage
    Type <- PairType
    Required <- PairRequired
    Deciders <- PairDeciders
    HubCommands = {"cancel"}
    RerunTasks = {}
    MaxReruns = 0
    MaxRetries = 0
    MaxFaults = 1
    MaxLag = 1
PROPERTY CancelKeepsOutcomes
CHECK_DEADLOCK FALSE
