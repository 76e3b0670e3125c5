SPECIFICATION Spec
CHECK_DEADLOCK FALSE
CONSTANTS
    Page = 4
    InitialEnd = 8
    MaxAddress = 16
    Requests = {1, 2}
    Aligned = {TRUE, FALSE}
INVARIANT NoOverlap
