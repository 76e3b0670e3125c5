SPECIFICATION FairSpec
CONSTANTS
    Ap = {a, b}
    Bsp = bsp
    Kernel = {k}
    Identity = {i}
    User = {u}
    Space = {boot, other}
    Boot = boot
    NULL = NULL
INVARIANTS FieldsStable Coherent
PROPERTIES Completes Acknowledged
