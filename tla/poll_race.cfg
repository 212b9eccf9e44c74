\* A poll that comes while the child it waits for is being read is the last.
SPECIFICATION FairSpec
CONSTANTS
    MaxTurns = 1
    ChildTurns = 1
    MaxRuns = 1
    MaxStops = 0
    MaxFails = 1
CHECK_DEADLOCK FALSE
PROPERTIES
    TurnsReleased
