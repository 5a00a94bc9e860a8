SPECIFICATION Spec
CONSTANTS
    Components = {"drivers", "services", "registry", "memory", "locale"}
    DriverNames = {"rtc", "disk"}
    Unloaders = {"u1", "u2"}
    MAX_DRIVERS = 3
    MAX_ISOLATED_DRIVERS = 2
    MAX_V3_HANDLERS = 2
    MaxLoads = 4
    ServiceNames = {"net", "app"}
    Chain <- ServiceChain
    Policy <- ServicePolicy
    MAX_FAILURES = 1
    PENDING_EXIT_CAP = 1
    PENDING_SHUTDOWN_CAP = 3
    Drainers = {"c0"}
    MaxSpawns = 3
    SvcLoads = {{"stop", "crash"}, {"restart", "crash"}, {"stop", "start"}, {"stop", "contended"}}
INVARIANTS RegistriesAgree StopHolds ProcessesAccountedFor   TranslationsRight
CHECK_DEADLOCK FALSE
