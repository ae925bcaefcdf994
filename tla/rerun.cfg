SPECIFICATION Spec
CONSTANTS
    build = build
    gate = gate
    deploy = deploy
    a1 = a1
    a2 = a2
    Approvers = {a1, a2}
    Parallel = Parallel
    Tasks <- SoloTasks
    DependsOn <- SoloDependsOn
    Order <- SoloOrder
    Stage <- SoloStage
    Type <- SoloType
    Required <- SoloRequired
    Deciders <- SoloDeciders
    HubCommands = {"reject", "cancel", "rerun"}
    RerunTasks = {build}
    MaxReruns = 1
    MaxRetries = 0
    MaxFaults = 1
    MaxLag = 1
INVARIANTS CopiesHold CancelSeen
PROPERTIES NothingAfterCancel ImplementsLifecycle OnlyRerunReopens
CHECK_DEADLOCK FALSE
