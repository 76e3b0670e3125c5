SPECIFICATION Spec
CONSTANTS
    p = p
    c = c
    Task = {p, c, q}
    NULL = null
    Bsp = bsp
    Ap = {ap}
    Parent <- NoParents
    MaxTick = 3
    MaxSleep = 2
INVARIANTS SleepqSorted
PROPERTIES WokenUnlessMissed NeverEarly
