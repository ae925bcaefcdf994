SPECIFICATION Spec
CONSTANTS
    build = build
    gate = gate
    deploy = deploy
    a1 = a1
    a2 = a2
    Approvers = {a1, a2}
    Parallel = Parallel
    Tasks <- GatedTasks
    DependsOn <- GatedDependsOn
    Order <- GatedOrder
    Stage <- GatedStage
    Type <- GatedType
    Required <- GatedRequired
    Deciders <- GatedDeciders
    HubCommands = {"approve", "reject", "cancel"}
    RerunTasks = {}
    MaxReruns = 0
    MaxRetries = 0
    MaxFaults = 0
    MaxLag = 1
INVARIANTS TypeOK DagOrder GateHolds CancelledSummaryIsFinal
PROPERTIES SignatureKept CancelKept
SYMMETRY AnyApprover
CHECK_DEADLOCK FALSE
