\* Two windows retry a request; nested writes, tasks, cancellations, one failed
\* statement and one crash.
SPECIFICATION Spec
CONSTANTS
    i1 = i1
    i2 = i2
    MaxCalls = 3
    MaxErrors = 1
    MaxRestarts = 1
    Kinds = {"write", "task", "child"}
    Requests = {1}
    Inputs = {i1, i2}
CHECK_DEADLOCK FALSE
INVARIANTS
    TypeOK
    OneWriter
    PerformedOnce
    CancelledNotPerformed
    SameOutcome
    UnknownNotHidden
    NothingStranded
    PerformedKnown
PROPERTIES
    KeepsWritePromise
SYMMETRY InputSymmetry
