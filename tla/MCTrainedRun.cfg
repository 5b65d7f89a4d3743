\* The plateau rule: seven evaluations, of which the first two fall in the warm-up.
\* The evaluation: one finished run and one that is trained and evaluated.
SPECIFICATION PartsSpec
CONSTANTS
    Unit = 100
    DeltaPercent = 1
    MinEpoch = 5
    Patience = 3
    Returns <- MCReturns
    EvalInterval = 2
    MaxEpochs = 14
    c1 = c1
    v1 = v1
    RunCount = 2
    Finished = {2}
    Codes = {c1, c2}
    Versions = {v1, v2}
    Cap = 1
    LastEpoch = 2
    MaxRollouts = 2
    Forces = {TRUE, FALSE}
    Overlaps = FALSE
SYMMETRY Renaming
INVARIANTS
    PlateauExplained
    BestNearAnchor
    
    OneModelReported
CHECK_DEADLOCK FALSE
