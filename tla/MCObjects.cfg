CONSTANTS
    SlotSpan = 5
    GenSpan = 2
    MaxInserts = 5
    AllRights = {"DUPLICATE", "READ"}
    MAX_PENDING_HANDLES = 1
    Names = {"svc"}
    FD_LIMIT = 5
    Capacity = 2
    MaxPipes = 2
    MaxBytes = 3
    MaxLen = 2
    ShmTasks = {t1, t2}
    ShmNumFrames = 4
    NumPages = 3
    ShmKeys = {0, 1}
    MaxSize = 2
    MaxId = 2
SPECIFICATION ObjectsSpec
INVARIANTS OpenHandlesResolve StaleHandlesDie PipesSound ShmSound
 
SYMMETRY Symmetry
CHECK_DEADLOCK FALSE
