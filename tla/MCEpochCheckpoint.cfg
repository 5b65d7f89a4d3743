\* PPO in smoke mode: crashes, replays and failed attempts; _prune does not fail.
SPECIFICATION FairSpec
CONSTANTS
    Scores <- MCScores
    Tokens <- MCTokens
    EvalInterval = 1
    MaxEpochs = 4
    NParts = 2
    SaveRetries = 2
    NoFile = NoFile
    StrictJson = TRUE
    PruneRaises = FALSE
    BestUnreadable = FALSE
INVARIANTS
    LatestLoadable
    BestLoadable
PROPERTIES
    ImplementsLog
    SaveEnds
