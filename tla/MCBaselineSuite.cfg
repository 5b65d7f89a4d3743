\* The suites: two arms of two steps, two workers, one fault, one kill.
\* The training: two cases of two-step episodes, one fault, one kill.
SPECIFICATION PartsSpec
CONSTANTS
    Concurrent = {mpc1, mpc2}
    Serial = {formal}
    NumArms = 2
    Steps = 2
    Workers = 2
    MaxFaults = 1
    MaxKills = 1
    NumCases = 2
    WorkerCounts <- MCWorkers
    Checkpoints <- MCCheckpoints
    Rewards <- MCRewards
    ModelLanes = 3
    Holdouts = 3
    EpisodeSteps = 2
    Patience = 1
    MinZero = 3
    MaxMpcFaults = 1
    MaxMpcKills = 1
SYMMETRY Symmetry
INVARIANTS
    SuiteRunsOnce
    CompletionOwned
    EvidenceTruthful
    EpisodesAlone
    RefitSourceWhole
