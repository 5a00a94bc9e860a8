SPECIFICATION Spec
CONSTANTS
    RUNQUEUE_PRIO_CAP = 4
    Cpus = {0, 1}
    UserTids = {4, 5, 6}
    KernelTids = {}
    IdleTid <- MCIdleTid
    PidOf <- MCPidOf
    NextTid = 7
    INIT_PID = 2
    Events = {}
    MAX_STARVATION = 2
    AgingTicks = {FALSE, TRUE}
    Loads = {{"spawn", "activate", "yield"}}
    SetPrios = {1, 3}
    CountModulus = 4
INVARIANTS StackExclusive
