SPECIFICATION SuiteSpec
CONSTANTS
    Components = {"runqueue", "ring", "pipes"}
    RUNQUEUE_PRIO_CAP = 2
    IndexModulus = 4
    Tids = {1, 2, 3}
    Prios = {0, 3}
    NoTid = 0
    Bytes = {0, 1}
    MaxIo = 3
    PIPE_BUF_SIZE = 4
    t1 = t1
    t2 = t2
    t3 = t3
    p1 = p1
    p2 = p2
    MAX_PIPES = 2
    Capacity = 2
    FreeSlots = 1
    MaxHandles = 6
    MaxObjects = 6
    PipeLoads = {{"create", "read", "write", "wait", "close"},
                 {"create", "read", "write", "wait", "dup2"},
                 {"create", "close", "dup2"},
                 {"create", "read", "write", "close", "exit"},
                 {"create", "write", "wait", "spawn", "exit"}}
INVARIANTS BookkeepingAgrees 
PROPERTIES ImplementsAbsRunQueue ImplementsStream OpenEntriesKept
SYMMETRY Twins
CHECK_DEADLOCK FALSE
