\* It ends when all TestIDs have leaked, a bound of the model.
SPECIFICATION PartsSpec
CONSTANTS
    t1 = t1
    t2 = t2
    t3 = t3
    e1 = e1
    Procs = {t1, t2, t3, e1}
    LeaseIds = {a, b, c, d}
    NoLease = NoLease
    Trainer = {t1, t2, t3}
    TrainSlots = 5
    EvaluateSlots = 1
    Host <- OneHost
    Clock <- SameClock
    Declared <- DeclaredTwelve
    StaleAfter = 0
    MaxBeatGap = 0
    BeatsFail = TRUE
    Unreadable = FALSE
    Ids = {a, b, c, d}
    NoId = NoId
    Workers = {w1, w2}
    Forecaster = forecaster
    Evaluator = evaluator
    Settings <- MCSettings
SYMMETRY Renaming
INVARIANTS
    HolderRecorded
    NoOvercommit
    TestIdsAccounted
PROPERTIES
    SweepSparesLiveRun
CHECK_DEADLOCK FALSE
