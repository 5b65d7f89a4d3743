SPECIFICATION PartsSpec
CONSTANTS
    a = a
    b = b
    Slots <- TwoSlots
    MaxEpochs = 3
    EvalInterval = 1
    MinEpoch = 2
    SaveRetries = 2
    Scores = {1, 2}
    FollowOverlaps = FALSE
    MaxLaunches = 3
    MaxKills = 1
    MaxFaults = 1
    Parent = 4
    Target = 6
    ParentBest = 2
    ChainInterval = 2
    ChainMinEpoch = 2
    ScoresOf <- MCScoresOf
    Recent = 1
    FailFastEpoch = 2
    MaxStops = 1
    MaxForced = 1
SYMMETRY Symmetry
INVARIANTS   ReportsCurrent ContinuesParent
PROPERTIES TestsSpared
CHECK_DEADLOCK FALSE
