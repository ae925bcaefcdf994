SPECIFICATION FairSpec
CONSTANTS
    RolloutSpecs <- SafePlans
    LiveStable = {}
    MaxCommands = 1
    MaxFaults = 1
    MaxLag = 1
INVARIANTS TypeOK ExposureBounded ScalesSplit DecisionsHeed
PROPERTIES ImplementsWalk AbortSticks PauseHolds PacedFailures OnlyCommandsReopen AbortHonoured RolloutEnds
CHECK_DEADLOCK FALSE
