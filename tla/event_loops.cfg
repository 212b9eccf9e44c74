\* The ACP worker, the Codex worker, the window and the writes, one of them at a time.
SPECIFICATION Programs
CONSTANTS
    MaxTurns = 2
    Requests = {1, 2}
    Modes = {"edit", "plan"}
    Writable = {"edit"}
    NoMode = "none"
    PendingLimit = 1
    LimitInGrace = FALSE
    ChildTurns = 1
    MaxRuns = 2
    MaxStops = 1
    MaxFails = 1
    MaxSends = 2
    MaxGens = 2
    MaxExtras = 1
    MaxOps = 1
    MaxLag = 1
    MaxPast = 2
    Outcomes = {"completed", "interrupted"}
    MaxCalls = 3
    MaxErrors = 0
    MaxRestarts = 1
    WriteKinds = {"write", "child"}
    WriteRequests = {1}
    Inputs = {1}
CHECK_DEADLOCK FALSE
INVARIANTS
    Types
    EveryTurnReported
    OnePromptAtAgent
    RequestsSettled
    ModeAuthority
    TurnAnswered
    RunsTracked
    Converged
    CardsMatch
PROPERTIES
    StatusHonest
    EndStays
    WaitsEnd
    CallsEnd
