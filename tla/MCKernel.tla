------------------------------ MODULE MCKernel ------------------------------
(***************************************************************************)
(* Kernel mechanisms on small instances: waitable objects, spin locks and  *)
(* interrupts, deferred work, block drivers.  A behaviour exercises the    *)
(* component named by focus; the others stay in their initial states.      *)
(***************************************************************************)
EXTENDS Deferred

CONSTANT Components

VARIABLES focus,
          sem, timer, obj, next_id, deadlines, expired, waits, call, load,
          code, saved, owner, IF_flag, irql, on, lockLoad,
          disk, buf, port, drv, req, hist, diskLoad

W == INSTANCE Waitables WITH
       Threads <- {"t1", "t2"}, NSems <- 2, NTimers <- 3, Events <- {0}, MaxObjects <- 3, MaxHandles <- 2,
       Counts <- {<<0, 1>>, <<1, 2>>}, Amounts <- {1, 2}, MaxPeriod <- 1, IntMax <- 16, Field <- 4,
       MaxWaits <- 2,
       \* One kind of object at a time on one CPU, closes under waiters, creations
       \* and closes that race on two CPUs, and timed waits.
       Loads <- { [calls |-> {"semaphore", "release", "wait"}, cpus |-> 1],
                  [calls |-> {"timer", "start", "cancel", "wait"}, cpus |-> 1],
                  [calls |-> {"semaphore", "timer", "wait", "release", "close"}, cpus |-> 1],
                  [calls |-> {"semaphore", "timer", "close"}, cpus |-> 2],
                  [calls |-> {"semaphore", "release", "event", "signal", "timed"}, cpus |-> 1] }

L == INSTANCE KernelLocks WITH
       load <- lockLoad, NCpus <- 2,
       Loads <- { {"wait", "start timer", "write", "mount", "flush", "exit", "netpump"},
                  {"exit with file", "exit with semaphore", "start timer", "mount", "flush", "netpump"},
                  {"release", "start timer", "wait", "exit"} }

D == INSTANCE DiskDrivers WITH
       load <- diskLoad, Vals <- {"x", "y"}, Sectors <- 3, PartBase <- 1, Tags <- 2, QSize <- 2,
       UsedMod <- 3, MaxReqs <- 3,
       Workloads <- {"ahci", "ncq", "nem", "both", "ata", "pio", "nvme", "virtio"}

ASSUME W!WaitablesAssumption /\ L!LocksAssumption /\ DeferAssumption

waitVars == <<sem, timer, obj, next_id, deadlines, expired, waits, call, load>>
lockVars == <<code, saved, owner, IF_flag, irql, on, lockLoad>>
diskVars == <<disk, buf, port, drv, req, hist, diskLoad>>
vars == <<focus, waitVars, lockVars, deferVars, diskVars>>

Init ==
    /\ focus \in Components
    /\ W!Init /\ (focus # "waits" => load.cpus = 2)
    /\ L!Init /\ (focus # "locks" => "release" \in lockLoad)
    /\ DeferInit /\ (focus # "deferred" => deferLoad = {"irp"})
    /\ D!Init /\ (focus # "disks" => diskLoad = "pio")

Next ==
    /\ UNCHANGED focus
    /\ \/ focus = "waits" /\ W!Next /\ UNCHANGED <<lockVars, deferVars, diskVars>>
       \/ focus = "locks" /\ L!Next /\ UNCHANGED <<waitVars, deferVars, diskVars>>
       \/ focus = "deferred" /\ DeferNext /\ UNCHANGED <<waitVars, lockVars, diskVars>>
       \/ focus = "disks" /\ D!Next /\ UNCHANGED <<waitVars, lockVars, deferVars>>

Spec == Init /\ [][Next]_vars
-----------------------------------------------------------------------------
\* Semaphore counts stay within their bounds, each live object has a slot of its
\* own, and a slot is given back with its object, whatever creations and closes
\* race on two CPUs.
ObjectsHaveSlots == focus = "waits" => W!CountInRange /\ W!SlotsBackObjects /\ W!SlotsReclaimed

\* A thread blocked on an open semaphore waits for a unit that is not there:
\* release and close wake every waiter they can satisfy.
NoWaiterForgotten == focus = "waits" => W!NoWaiterForgotten

\* An interrupt handler never spins on a lock that the code it interrupted holds,
\* and the scheduler's lock is only taken with interrupts off.
IrqLockSafety == focus = "locks" => L!SchedulerIrqSafe /\ L!IrqLockSafety

\* CPUs never wait for each other's locks in a circle.
NoDeadlock == focus = "locks" => L!NoDeadlock

\* A transfer a block driver reports as done was done, on the block asked for,
\* whatever the controller delays or fails, unless it did something the driver
\* does not look at.
TransfersRight == focus = "disks" => D!TransfersRight
=============================================================================
