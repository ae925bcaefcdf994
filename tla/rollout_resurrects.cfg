SPECIFICATION Spec
CONSTANTS
    RolloutSpecs <- Once
    LiveStable = {2}
    MaxCommands = 0
    MaxFaults = 0
    MaxLag = 1
PROPERTIES RolledBackStays
CHECK_DEADLOCK FALSE
