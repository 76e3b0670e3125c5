SPECIFICATION FairSpec
CHECK_DEADLOCK FALSE
CONSTANTS
    Task = {root, a, b}
    Root = root
    NULL = NULL
    Readers = {a}
    Optional = {"dup", "dup2"}
    MaxFd = 2
    FirstUserFd = 0
    Size = 1
    Byte = {0}
    MaxIO = 1
    MaxPipes = 1
INVARIANTS CountsExact BlockedIsRegistered
PROPERTIES EofReached
