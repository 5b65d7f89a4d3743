SPECIFICATION Spec
CONSTANTS
    north = north
    south = south
    ZoneSeq <- TheZones
    Hours = 3
    StepsPerHour = 2
    RetryLimit = 1
    Changing = {north}
    MaxVersion = 1
    MaxFresh = 1
    MaxRuns = 3
    MaxFaults = 2
INVARIANTS
    FinishedRunAccepted
    TransportFailureResumes
    HoursAskedOnce
PROPERTIES
    RunEnds
CHECK_DEADLOCK FALSE
