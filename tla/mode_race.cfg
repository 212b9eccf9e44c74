\* A switch of mode that the agent reports after the user has cancelled the turn.
SPECIFICATION Spec
CONSTANTS
    MaxTurns = 1
    Requests = {1}
    Modes = {"edit", "plan"}
    Writable = {"edit"}
    NoMode = "none"
    PendingLimit = 1
    LimitInGrace = FALSE
CHECK_DEADLOCK FALSE
INVARIANTS
    UncommittedSwitchFails
