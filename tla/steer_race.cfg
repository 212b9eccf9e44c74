\* A steering message can reach a goal's turn and be recorded under the turn before.
SPECIFICATION Spec
CONSTANTS
    MaxMsgs = 2
    MaxGoals = 1
    MaxWakes = 2
    Commands = {"send", "steer", "goal"}
    CanSteer = TRUE
    Truthful = TRUE
CHECK_DEADLOCK FALSE
INVARIANTS
    SteerAttributed
