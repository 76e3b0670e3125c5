SPECIFICATION FairSpec
CONSTANTS
    Task = {boot, idle, a, b}
    Boot = boot
    Idle = idle
    NULL = null
    MAX_TASKS = 4
    Calls = {"fork", "spawn", "sigaction", "exit", "fault", "signal", "selfsignal", "ctrlc", "sleep", "wait", "getc", "getline", "legacy"}
    Catchers = {a}
\* A task that dies with rq_lock held stops the machine.
CHECK_DEADLOCK FALSE
INVARIANTS QueueSound SwitchSound DepthBalanced WaiterHasChild
PROPERTIES OnlyRaceRevives ZombieReaped ReadyRuns WaitReturns
