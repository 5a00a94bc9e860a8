SPECIFICATION Spec
CONSTANTS
    Components = {"tcp", "dhcp", "time", "stack"}
    MaxNics = 2
    MAX_RETRIES = 1
    LEASE = 3
    T1 = 1
    T2 = 2
    MaxTime = 3
    MaxQueued = 2
    DhcpLoads = {{"dup"}, {"apply"}, {"nak"}, {"nics"}}
INVARIANT StreamIntact   CivilIsCalendar FramesAccountedFor
PROPERTY AnswersAreOwn
CHECK_DEADLOCK FALSE
