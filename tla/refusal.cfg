\* An explicit refusal of a steering message is left as unknown.
SPECIFICATION Spec
CONSTANTS
    MaxMsgs = 2
    MaxGoals = 0
    MaxWakes = 2
    Commands = {"send", "steer"}
    CanSteer = TRUE
    Truthful = TRUE
CHECK_DEADLOCK FALSE
PROPERTIES
    RefusalIsDefinite
