SPECIFICATION FairSpec
CONSTANTS
    Task = {idle, a, b}
    Idle = idle
    Mixes <- AllMixes
    MaxExec = 1
INVARIANTS GuardMeansHandler
PROPERTIES SavedKept TermDispatched
