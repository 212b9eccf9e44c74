\* A stop that races the end of its turn does not keep the next message waiting.
SPECIFICATION Spec
CONSTANTS
    MaxMsgs = 2
    MaxGoals = 0
    MaxWakes = 2
    Commands = {"send", "followUp", "stop"}
    CanSteer = TRUE
    Truthful = TRUE
CHECK_DEADLOCK FALSE
PROPERTIES
    AutoRespectsPause
