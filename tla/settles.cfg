SPECIFICATION FairSpec
CONSTANTS
    build = build
    gate = gate
    deploy = deploy
    a1 = a1
    a2 = a2
    Approvers = {a1, a2}
    Parallel = Parallel
    Tasks <- PairTasks
    DependsOn <- SerialDependsOn
    Order <- PairOrder
    Stage <- SerialStage
    Type <- PairType
    Required <- PairRequired
    Deciders <- PairDeciders
    HubCommands = {"reject", "cancel"}
    RerunTasks = {}
    MaxReruns = 0
    MaxRetries = 0
    MaxFaults = 0
    MaxLag = 1
INVARIANTS DagOrder OutcomeIsTrue
PROPERTIES RunSettles CancelHonoured
CHECK_DEADLOCK FALSE
