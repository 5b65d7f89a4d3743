SPECIFICATION FairSuiteSpec
CONSTANTS
    Tasks = 6
    Case <- RegisteredCases
    Algorithm <- RegisteredAlgorithms
    InterruptsLaunch = FALSE
\* The command ends.
CHECK_DEADLOCK FALSE
INVARIANTS
    AllAccounted
    ChildrenStopped
PROPERTIES
    SuiteEnds
