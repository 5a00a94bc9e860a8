SPECIFICATION SuiteSpec
CONSTANTS
    Components = {"pipes"}
    RUNQUEUE_PRIO_CAP = 2
    IndexModulus = 4
    Tids = {1, 2, 3}
    Prios = {0, 3}
    NoTid = 0
    Bytes = {0, 1}
    MaxIo = 3
    PIPE_BUF_SIZE = 4
    t1 = t1
    t2 = t2
    t3 = t3
    p1 = p1
    p2 = p2
    MAX_PIPES = 1
    Capacity = 1
    FreeSlots = 2
    MaxHandles = 6
    MaxObjects = 4
    PipeLoads = {{"create", "close", "dup2"}}
INVARIANT HandlesAreLive
CHECK_DEADLOCK FALSE
