\* Resuming can race the row that becomes uncertain.
SPECIFICATION Spec
CONSTANTS
    MaxMsgs = 2
    MaxGoals = 0
    MaxWakes = 2
    Commands = {"send", "followUp", "steer", "resume"}
    CanSteer = TRUE
    Truthful = TRUE
CHECK_DEADLOCK FALSE
INVARIANTS
    UncertainPauses
