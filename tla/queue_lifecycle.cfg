\* One message and one goal through close, archive and restart; what was begun ends.
SPECIFICATION FairSpec
CONSTANTS
    MaxMsgs = 1
    MaxGoals = 1
    MaxWakes = 1
    Commands = {"send", "followUp", "steer", "goal", "close", "archive", "restart"}
    CanSteer = TRUE
    Truthful = TRUE
CHECK_DEADLOCK FALSE
INVARIANTS
    HandedOnce
    UncertainPauses
    NoZombieTurn
    DraftRestoredUnheard
    ClosedQuiet
PROPERTIES
    OutcomeFinal
    StopsEnd
    OperationsEnd
    EventuallyDispatched
