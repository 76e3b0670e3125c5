SPECIFICATION Spec
CONSTANTS
    Top = 6
    Spc = 2
    Path <- MCPath
    Dirs <- MCDirs
    Handle = {h1, h2}
    Counts = {1, 3}
    MaxOps = 5
    MaxFaults = 1
    NULL = NULL
    EOC = EOC
    Unknown = Unknown
INVARIANTS ChainsSound FilesOwn EntriesFound 
SYMMETRY Handles
CONSTRAINT Undamaged
\* The operations are used up.
CHECK_DEADLOCK FALSE
