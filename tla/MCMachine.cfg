CONSTANTS
    MaxId = 4
    MaxTables = 2
    SchedUses <- MCSchedUses
    Procs = {p1, p2}
    first = p1
    NumFrames = 6
    Slots = 2
    UserRoots = 2
    Image = {0}
    Big = {1, 2, 3}
    MaxPages = 2
    MAX_HEAP = 2
    AsUses <- MCAsUses
    Threads = {t1, t2, t3}
    Creator = t1
    Writer = 4
    MAX_TLS_KEYS = 2
    PtUses = {"mutex", "spin", "rw", "once", "cond", "barrier", "keys", "create"}
    Null = null
    EntryTasks = {e1, e2}
    NoContext = nocontext
    Cpus = {1, 2}
    Locks = {"k", "l"}
    Aps = {1, 2, 3}
    MAX_CPUS = 2
    MadtTables <- MCTables
    ReadyTimeout = 1
    SmpUses = {"mutex", "acpi", "boot"}
    Keys = {"a", "up", "backspace", "shift"}
    INPUT_BUFFER_SIZE = 4
    REPEAT_DELAY_TICKS = 2
    REPEAT_INTERVAL_TICKS = 1
    MaxPresses = 4
    MaxTicks = 2
    NoKey = nokey
    SigTasks = {1, 2}
    Signums = {9, 10}
    BadSignum = 0
    SIGKILL = 9
    ParentOf <- MCParentOf
    NoTask = notask
    Timeouts = {0, 1, 99}
    Forever = 99
    MaxNow = 2
SPECIFICATION Spec
INVARIANTS SchedulerSound MemorySound PthreadsSound   
PROPERTIES StaysHome  CallsKeepRegisters
CHECK_DEADLOCK FALSE
