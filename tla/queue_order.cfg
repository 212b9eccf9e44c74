\* Three messages in a session that cannot steer, and a goal that competes with them.
SPECIFICATION Spec
CONSTANTS
    MaxMsgs = 3
    MaxGoals = 1
    MaxWakes = 2
    Commands = {"send", "followUp", "remove", "goal"}
    CanSteer = FALSE
    Truthful = TRUE
CHECK_DEADLOCK FALSE
PROPERTIES
    FifoDispatch
    AutoRespectsPause
