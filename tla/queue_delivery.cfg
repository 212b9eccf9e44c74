\* Every queue operation but removal on two messages, and stops, with a provider that may
\* answer without ending its turn.
SPECIFICATION Spec
CONSTANTS
    MaxMsgs = 2
    MaxGoals = 0
    MaxWakes = 1
    Commands = {"send", "followUp", "steer", "sendNow", "resume", "stop"}
    CanSteer = TRUE
    Truthful = FALSE
CHECK_DEADLOCK FALSE
INVARIANTS
    TypeOK
    AtMostOnce
    ClaimsOwned
    NoLostWake
PROPERTIES
    UncertainKept
    OnlyHeardLeaves
    KeepsPromise
