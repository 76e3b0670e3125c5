SPECIFICATION Spec
CHECK_DEADLOCK FALSE
CONSTANTS
    Page = 4
    InitialEnd = 12
    MaxAddress = 24
    Requests = {2, 10}
    Aligned = {TRUE, FALSE}
INVARIANTS NoOverlap AllAccounted IndexOrdered Coalesced
