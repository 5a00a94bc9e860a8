SPECIFICATION Spec
CONSTANTS
    Components = {"waits", "locks", "deferred", "disks"}
    CAPACITY = 3
    DPC_QUEUE_SIZE = 2
    MAX_USER_APC = 2
    IRP_POOL_SIZE = 2
    MaxItems = 4
    MaxIrps = 3
    DeferLoads = {{"rings"}, {"rings", "ap"}, {"irp"}}
INVARIANTS   IrqLockSafety NoDeadlock  CallbackOnce TransfersRight
CHECK_DEADLOCK FALSE
