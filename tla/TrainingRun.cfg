\* A cap of three epochs, two environments, four commands, three exceptions or kills.
SPECIFICATION Spec
CONSTANTS
    Forecasts = {"f", "g"}
    EvalInterval = 2
    Cap = 3
    Envs = {"e1", "e2"}
    MaxEpochs = 5
    MaxRuns = 4
    MaxTroubles = 3
INVARIANTS
    RowsExact
    
    
CHECK_DEADLOCK FALSE
