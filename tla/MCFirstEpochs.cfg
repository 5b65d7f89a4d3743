\* PPO in full mode: the first epochs have no evaluation behind them.
SPECIFICATION Spec
CONSTANTS
    Scores <- MCScores
    Tokens <- MCTokens
    EvalInterval = 2
    MaxEpochs = 4
    NParts = 2
    SaveRetries = 2
    NoFile = NoFile
    StrictJson = TRUE
    PruneRaises = FALSE
    BestUnreadable = FALSE
INVARIANTS
    EveryEpochSavable
