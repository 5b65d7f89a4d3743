SPECIFICATION FairCommandSpec
CONSTANTS
    MaxEpochs = 6
    EvalInterval = 2
    EarliestStop = 3
    ConvergedBy = 10
    Attempts = 2
    LatestUnreadable = FALSE
INVARIANTS
    ManifestTruthful
    PromiseKept

    
