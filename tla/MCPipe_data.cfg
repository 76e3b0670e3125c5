SPECIFICATION Spec
CHECK_DEADLOCK FALSE
CONSTANTS
    Task = {root, a}
    Root = root
    NULL = NULL
    Readers = {a}
    Optional = {"open", "dup2"}
    MaxFd = 2
    FirstUserFd = 0
    Size = 3
    Byte = {0, 1}
    MaxIO = 2
    MaxPipes = 1
PROPERTIES ImplementsChannel
