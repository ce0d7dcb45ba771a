SPECIFICATION FairSpec
CONSTANTS
    RawStep = 2
    Tiers <- MCTiers
    Limits <- MCLimits
    Policy <- MCPolicy
    Query <- MCQuery
    BatchLimit = 1
    OfResource = TRUE
    MaxDelay = 1
    MaxTime = 5
    MaxSamples = 2
    MaxTransitions = 1
    MaxFaults = 1
INVARIANTS
    HistoryInv
PROPERTIES
    ShrinksOnlyWhenCut
    LateSamplesRepair
CHECK_DEADLOCK FALSE
