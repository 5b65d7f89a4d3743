SPECIFICATION RegistrySpec
CONSTANTS
    Trainings = {t1, t2}
    Refits = {r1}
    Validations = {v1, v2}
    Freezes = {f1, f2}
    NumCases = 2
    Steps = 1
    MaxFaults = 1
    MaxKills = 1
SYMMETRY MCSymmetry
CHECK_DEADLOCK FALSE
INVARIANTS
    RegistryWhole
    SuiteValidated
