\* A rename that is answered after the turn it overlapped has ended.
SPECIFICATION Spec
CONSTANTS
    MaxSends = 1
    MaxGens = 1
    MaxExtras = 0
    MaxOps = 1
    MaxLag = 1
    MaxPast = 1
    Outcomes = {"completed"}
CHECK_DEADLOCK FALSE
PROPERTIES
    NoRevival
