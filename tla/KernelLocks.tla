--------------------------- MODULE KernelLocks ---------------------------
(***************************************************************************)
(* The spin locks of the kernel against the timer interrupt.  A system     *)
(* call is the sequence of the lock, interrupt-flag and IRQL operations    *)
(* its handler performs; the timer interrupt runs its own sequence on top  *)
(* of whatever it interrupts.  The int 0x80 gate enters with IF=0, but     *)
(* lower_irql executes STI, so a handler runs with IF=1 after its first    *)
(* copy_from_user.                                                         *)
(***************************************************************************)
EXTENDS Integers, Sequences

CONSTANTS NCpus,   \* CPUs; CPU 1 is the boot processor
          Loads    \* what the system may be doing, a set of sets of Activities

\* The system calls of user threads, whether the netpump kernel thread runs and
\* whether timer objects expire.
Activities == {"wait", "timed wait", "start timer", "create timer", "release", "write",
               "mount", "flush", "exit", "exit with file", "exit with semaphore",
               "netpump", "expiry"}

LocksAssumption == NCpus \in Nat \ {0} /\ \A l \in Loads : l \subseteq Activities

VARIABLES code,    \* context -> the operations it still has to perform
          saved,   \* context -> what raise_irql and without_interrupts return
          owner,   \* lock -> the context holding it
          IF_flag, \* CPU -> the interrupt flag
          irql,    \* CPU -> KPRCB.current_irql
          on,      \* CPU -> the thread running there, "user" or "netpump"
          load     \* the member of Loads this behaviour has

vars == <<code, saved, owner, IF_flag, irql, on, load>>

Cpus == 1 .. NCpus
BSP == 1
User(c) == <<"user", c>>
Irq(c) == <<"timer", c>>
Pump == <<"netpump", 0>>
Contexts == {User(c) : c \in Cpus} \cup {Irq(c) : c \in Cpus} \cup {Pump}
None == <<"none", 0>>

Locks == {"SCHEDULER", "USER_MEMORY_LOCK", "OB_TABLE", "VFS", "MOUNT_MANAGER",
          "PAGE_CACHE", "BLOCK_DEVICES", "WAIT_DEADLINES", "TIMER_MANAGER",
          "SEMAPHORE_MANAGER"}

DISPATCH_LEVEL == 2
PASSIVE_LEVEL == 0

---------------------------------------------------------------------------
\* The helpers that take locks, as the operations they perform around a body.

Op(o) == <<o, "">>
Holding(l, body) == <<<<"lock", l>>>> \o body \o <<<<"unlock", l>>>>
without_interrupts(body) == <<Op("cli")>> \o body \o <<Op("restore")>>
at_dispatch(body) == <<Op("raise")>> \o body \o <<Op("lower")>>

with_vfs(body) == Holding("VFS", body)
with_mount_manager(body) == Holding("MOUNT_MANAGER", body)
with_page_cache(body) == Holding("PAGE_CACHE", body)
with_block_devices(body) == Holding("BLOCK_DEVICES", body)

\* SCHEDULER and USER_MEMORY_LOCK are tried a bounded number of times, so this
\* never waits: it either copies or makes the caller return an error.
copy_from_user == <<Op("copy")>>

current_handle_entry == without_interrupts(Holding("SCHEDULER", <<>>))
ob_lookup == Holding("OB_TABLE", <<>>)

kwait_block == at_dispatch(Holding("SCHEDULER", <<>>))
cancel_deadline == Holding("WAIT_DEADLINES", <<>>)
kwait_wake == cancel_deadline \o at_dispatch(Holding("SCHEDULER", <<>>))

---------------------------------------------------------------------------
\* Handlers.

\* A wait on an event or a timer, without and with a timeout.
handler_ob_wait == copy_from_user \o current_handle_entry \o ob_lookup \o kwait_block
TimedWait == copy_from_user \o current_handle_entry \o ob_lookup
               \o Holding("WAIT_DEADLINES", <<>>) \o kwait_block
\* Mutant: an argument is copied before the timer is started.
StartTimerWithPayload == copy_from_user \o current_handle_entry \o ob_lookup
                           \o Holding("TIMER_MANAGER", <<>>)
start_timer == current_handle_entry \o ob_lookup \o Holding("TIMER_MANAGER", <<>>)
create_timer == copy_from_user \o ob_lookup \o Holding("TIMER_MANAGER", <<>>)
release_semaphore == current_handle_entry \o ob_lookup \o copy_from_user
                       \o Holding("SEMAPHORE_MANAGER", kwait_wake)
handler_write == copy_from_user \o current_handle_entry \o ob_lookup
                   \o with_vfs(with_page_cache(with_block_devices(<<>>)))
                   \o without_interrupts(Holding("SCHEDULER", <<>>))
vfs_mount_filesystem == copy_from_user \o with_vfs(with_mount_manager(<<>>))
\* Mutant: the two locks in the opposite order.
FlushDevicesFirst == with_block_devices(with_page_cache(<<>>))
flush_cache_if_needed == with_page_cache(with_block_devices(<<>>))

\* terminate_current closes the handles of the process under SCHEDULER; the
\* body is the closes it makes.
terminate_current(closes) ==
  without_interrupts(Holding("SCHEDULER", Holding("USER_MEMORY_LOCK", closes)))

Handler(k) ==
  CASE k = "wait" -> handler_ob_wait
    [] k = "timed wait" -> TimedWait
    [] k = "start timer" -> start_timer
    [] k = "create timer" -> create_timer
    [] k = "release" -> release_semaphore
    [] k = "write" -> handler_write
    [] k = "mount" -> vfs_mount_filesystem
    [] k = "flush" -> flush_cache_if_needed
    [] k = "exit" -> terminate_current(<<>>)
    [] k = "exit with file" -> terminate_current(ob_lookup)
    [] k = "exit with semaphore" -> terminate_current(ob_lookup \o Holding("SEMAPHORE_MANAGER", <<>>))

deadline_tick(expired) == Holding("WAIT_DEADLINES", <<>>) \o (IF expired THEN kwait_wake ELSE <<>>)

\* timer_handler_inner: timer objects tick on the boot processor only.
timer_handler_inner(c, fires) ==
  (IF c = BSP THEN Holding("TIMER_MANAGER", IF fires THEN kwait_wake ELSE <<>>) ELSE <<>>)
    \o Holding("SCHEDULER", <<>>) \o <<Op("iret")>>

---------------------------------------------------------------------------

Init == /\ code = [x \in Contexts |-> <<>>]
        /\ saved = [x \in Contexts |-> <<>>]
        /\ owner = [l \in Locks |-> None]
        /\ IF_flag = [c \in Cpus |-> TRUE]
        /\ irql = [c \in Cpus |-> PASSIVE_LEVEL]
        /\ on = [c \in Cpus |-> "user"]
        /\ load \in Loads

InIrq(c) == code[Irq(c)] # <<>>
Thread(c) == IF on[c] = "user" THEN User(c) ELSE Pump
Top(c) == IF InIrq(c) THEN Irq(c) ELSE Thread(c)

\* int 0x80 through an interrupt gate.
syscall_entry(c) ==
  /\ on[c] = "user" /\ code[User(c)] = <<>> /\ ~InIrq(c)
  /\ \E k \in load \ {"netpump", "expiry"} : code' = [code EXCEPT ![User(c)] = Handler(k) \o <<Op("iret")>>]
  /\ IF_flag' = [IF_flag EXCEPT ![c] = FALSE]
  /\ UNCHANGED <<saved, owner, irql, on>>

\* One round of the netpump loop.
net_tick(c) ==
  /\ on[c] = "netpump" /\ code[Pump] = <<>> /\ ~InIrq(c)
  /\ \E expired \in BOOLEAN : code' = [code EXCEPT ![Pump] = deadline_tick(expired)]
  /\ UNCHANGED <<saved, owner, IF_flag, irql, on>>

timer_irq(c) ==
  /\ IF_flag[c] /\ ~InIrq(c)
  /\ \E fires \in {FALSE} \cup {"expiry" \in load} : code' = [code EXCEPT ![Irq(c)] = timer_handler_inner(c, fires)]
  /\ IF_flag' = [IF_flag EXCEPT ![c] = FALSE]
  /\ UNCHANGED <<saved, owner, irql, on>>

Head1(x) == Head(code[x])
Advance(x) == code' = [code EXCEPT ![x] = Tail(@)]
Push(x, v) == saved' = [saved EXCEPT ![x] = <<v>> \o @]
Pop(x) == saved' = [saved EXCEPT ![x] = Tail(@)]

\* Threads that can own the CPU when an interrupt or a system call returns.  A
\* user thread inside a system call is not descheduled; a kernel thread is.
NextOn(c) ==
  {on[c]} \cup
    (IF on[c] = "netpump" THEN {"user"}
     ELSE IF "netpump" \in load /\ (\A d \in Cpus : on[d] = "user") /\ (InIrq(c) => code[User(c)] = <<>>)
          THEN {"netpump"} ELSE {})

lock(c, x) ==
  /\ Head1(x)[1] = "lock" /\ owner[Head1(x)[2]] = None
  /\ owner' = [owner EXCEPT ![Head1(x)[2]] = x]
  /\ Advance(x)
  /\ UNCHANGED <<saved, IF_flag, irql, on>>

unlock(c, x) ==
  /\ Head1(x)[1] = "unlock"
  /\ owner' = [owner EXCEPT ![Head1(x)[2]] = None]
  /\ Advance(x)
  /\ UNCHANGED <<saved, IF_flag, irql, on>>

raise_irql(c, x) ==
  /\ Head1(x)[1] = "raise"
  /\ Push(x, irql[c])
  /\ irql' = [irql EXCEPT ![c] = DISPATCH_LEVEL]
  /\ IF_flag' = [IF_flag EXCEPT ![c] = @ /\ irql[c] = DISPATCH_LEVEL]
  /\ Advance(x)
  /\ UNCHANGED <<owner, on>>

lower_irql(c, x) ==
  /\ Head1(x)[1] = "lower"
  /\ irql' = [irql EXCEPT ![c] = Head(saved[x])]
  /\ IF_flag' = [IF_flag EXCEPT ![c] = @ \/ Head(saved[x]) < DISPATCH_LEVEL]
  /\ Pop(x) /\ Advance(x)
  /\ UNCHANGED <<owner, on>>

cli(c, x) ==
  /\ Head1(x)[1] = "cli"
  /\ Push(x, IF_flag[c])
  /\ IF_flag' = [IF_flag EXCEPT ![c] = FALSE]
  /\ Advance(x)
  /\ UNCHANGED <<owner, irql, on>>

restore(c, x) ==
  /\ Head1(x)[1] = "restore"
  /\ IF_flag' = [IF_flag EXCEPT ![c] = @ \/ Head(saved[x])]
  /\ Pop(x) /\ Advance(x)
  /\ UNCHANGED <<owner, irql, on>>

\* with_user_memory_locked: raises, tries both locks, lowers.  When a try runs
\* out of spins the handler returns with an error.
with_user_memory_locked(c, x) ==
  /\ Head1(x)[1] = "copy"
  /\ IF_flag' = [IF_flag EXCEPT ![c] = @ \/ irql[c] < DISPATCH_LEVEL]
  /\ \/ Advance(x)
     \/ code' = [code EXCEPT ![x] = <<Op("iret")>>]
  /\ UNCHANGED <<saved, owner, irql, on>>

iretq(c, x) ==
  /\ Head1(x)[1] = "iret"
  /\ Advance(x)
  /\ IF_flag' = [IF_flag EXCEPT ![c] = TRUE]
  /\ \E n \in NextOn(c) : on' = [on EXCEPT ![c] = n]
  /\ UNCHANGED <<saved, owner, irql>>

Execute(c) ==
  LET x == Top(c) IN
  /\ code[x] # <<>>
  /\ \/ lock(c, x) \/ unlock(c, x)
     \/ raise_irql(c, x) \/ lower_irql(c, x)
     \/ cli(c, x) \/ restore(c, x)
     \/ with_user_memory_locked(c, x)
     \/ iretq(c, x)

Next ==
  /\ \E c \in Cpus : syscall_entry(c) \/ net_tick(c) \/ timer_irq(c) \/ Execute(c)
  /\ UNCHANGED load

Spec == Init /\ [][Next]_vars

---------------------------------------------------------------------------

\* Types, and no context nests raise_irql or without_interrupts.
TypeOK ==
  /\ \A x \in Contexts : Len(saved[x]) <= 1
  /\ owner \in [Locks -> Contexts \cup {None}]
  /\ IF_flag \in [Cpus -> BOOLEAN]
  /\ irql \in [Cpus -> {PASSIVE_LEVEL, DISPATCH_LEVEL}]
  /\ on \in [Cpus -> {"user", "netpump"}]

WaitsFor(x, l) == code[x] # <<>> /\ Head1(x) = <<"lock", l>> /\ owner[l] # None

\* Rule 3.5.1: the timer interrupt never spins on a lock that the code it
\* interrupted holds on the same CPU.
IrqLockSafety ==
  \A c \in Cpus, l \in Locks :
    InIrq(c) /\ WaitsFor(Irq(c), l) => owner[l] \notin {Irq(c), Thread(c)}

\* Where the owner of a lock is: on the CPUs given, or descheduled while every
\* CPU is among them.
OwnerWithin(l, H) ==
  \/ \E c \in H : owner[l] \in {Irq(c), Thread(c)}
  \/ owner[l] = Pump /\ (\A c \in Cpus : on[c] = "user") /\ H = Cpus

\* A kernel thread spinning with interrupts on can be preempted.
StuckWithin(c, H) ==
  /\ \E l \in Locks : WaitsFor(Top(c), l) /\ OwnerWithin(l, H)
  /\ ~(Top(c) = Pump /\ IF_flag[c])

\* The lock order the handlers share leaves no set of CPUs spinning on locks
\* whose owners are stuck on the same CPUs.
NoDeadlock == \A H \in (SUBSET Cpus) \ {{}} : \E c \in H : ~StuckWithin(c, H)

\* SCHEDULER is taken with interrupts off, so the timer can take it blindly:
\* a thread that owns it never has IF=1 on its CPU.
SchedulerIrqSafe ==
  \A c \in Cpus : owner["SCHEDULER"] = Thread(c) => ~IF_flag[c]
==========================================================================
