----------------------------- MODULE Waitables -----------------------------
(***************************************************************************)
(* Semaphores, timers and events of the NeoDOS kernel, ObWait with and     *)
(* without a timeout, and the deadlines that the network pump services.    *)
(*                                                                         *)
(* As in Pipes, a system call is a sequence of steps, one per locked       *)
(* section, and at most load.cpus threads are inside one.  The pump is a       *)
(* kernel thread: it can be preempted between two of its own steps, but    *)
(* not in the middle of a system call of the same CPU.  The timer tick is  *)
(* an interrupt.  Each object has one reference, the handle that every     *)
(* thread of the process can use.  Time is abstract: a deadline may pass   *)
(* at any moment after it was armed.  The two locked sections of           *)
(* kwait_wake, cancel_deadline and the wake itself, are one step.          *)
(***************************************************************************)
EXTENDS Integers, FiniteSets

CONSTANTS
    Threads,
    NSems,        \* MAX_SEMAPHORES
    NTimers,      \* MAX_TIMERS
    Events,       \* event types
    MaxObjects,   \* bound on the object ids handed out
    MaxHandles,   \* entries of the handle table left for these objects
    Counts,       \* <<initial count, maximum>> of the semaphores that threads create
    Amounts,      \* release counts that threads ask for
    MaxPeriod,    \* longest period of a timer, in ticks
    IntMax,       \* i32::MAX
    Field,        \* 2^16: attrs holds the initial count and the maximum in two such fields
    MaxWaits,     \* bound on the number of timed waits
    Loads         \* [calls, cpus]: the operations the threads issue, and on how many CPUs

Sems == 0..NSems - 1
Timers == 0..NTimers - 1
ObIds == 1..MaxObjects
AllCalls == {"semaphore", "release", "timer", "start", "cancel", "event", "signal",
             "wait", "timed", "close"}

WaitablesAssumption ==
    /\ {NSems, NTimers, MaxPeriod, IntMax} \subseteq Nat \ {0}
    /\ {MaxObjects, MaxHandles, MaxWaits} \subseteq Nat
    /\ Field \in 1..IntMax /\ Counts \subseteq (0..Field - 1) \X (0..Field - 1)
    /\ Amounts \subseteq 0..IntMax /\ Events \subseteq Nat
    /\ Loads \subseteq [calls : SUBSET AllCalls, cpus : Nat \ {0}]

VARIABLES
    sem,        \* SEMAPHORE_MANAGER
    timer,      \* TIMER_MANAGER
    obj,        \* the objects: [live, open, kind, native]; open is the handle
    next_id,
    deadlines,  \* WAIT_DEADLINES: the wait that armed each magic, 0 if none did
    expired,    \* deadlines that deadline_tick took out and has still to wake: <<magic, wait>>
    waits,      \* number of timed waits so far
    call,       \* what each thread does
    load        \* the member of Loads this behaviour has

objects == <<obj, next_id>>
timeouts == <<deadlines, expired, waits>>
state == <<sem, timer, objects, timeouts, call>>
vars == <<state, load>>

Magics == ({"semaphore"} \X Sems) \cup ({"timer"} \X Timers) \cup ({"event"} \X Events)

UnusedSem == [used |-> FALSE, count |-> 0, max_count |-> 0]
UnusedTimer == [used |-> FALSE, state |-> "Idle", periodic |-> FALSE,
                period |-> 0, remaining |-> 0]
NoObject == [live |-> FALSE, open |-> FALSE, kind |-> "none", native |-> 0]

\* o: the object; native: its native id when it was looked up; amount: the
\* counts or period asked for; wait: number of the timed wait, 0 if untimed.
InUser == [pc |-> "user", o |-> 0, kind |-> "none", native |-> 0, amount |-> <<>>, wait |-> 0]

InKernel == {t \in Threads : call[t].pc \notin {"user", "blocked"}}
CpuFree == Cardinality(InKernel) < load.cpus

Enters(t, k) == k \in load.calls /\ call[t].pc = "user" /\ CpuFree

Returns(t) == call' = [call EXCEPT ![t] = InUser]
Goto(t, pc) == call' = [call EXCEPT ![t].pc = pc]

\* kwait_wake: the deadline of the reason is dropped and all its waiters return.
Magic(u) == <<call[u].kind, call[u].native>>
Waiters(m) == {u \in Threads : call[u].pc = "blocked" /\ Magic(u) = m}
\* Mutant: the waiters stay where they are.
WokenNobody(M, C) == C

Woken(M, C) == [u \in Threads |-> IF \E m \in M : u \in Waiters(m) THEN InUser ELSE C[u]]
Cancelled(M) == [m \in Magics |-> IF m \in M THEN 0 ELSE deadlines[m]]

kwait_wake(M, C) ==
    /\ deadlines' = Cancelled(M)
    /\ call' = Woken(M, C)

-----------------------------------------------------------------------------
\* ObCreate

\* The object exists, with the given native id, before its slot is allocated.
ob_create_object_path(t, k, native, amount) ==
    /\ Enters(t, k)
    /\ next_id \in ObIds
    /\ next_id' = next_id + 1
    /\ obj' = [obj EXCEPT ![next_id] =
                [live |-> TRUE, open |-> FALSE, kind |-> k, native |-> native]]
    /\ call' = [call EXCEPT ![t] =
         [InUser EXCEPT !.pc = IF k = "event" THEN "handle" ELSE "alloc",
                        !.o = next_id, !.kind = k, !.native = native, !.amount = amount]]
    /\ UNCHANGED <<sem, timer, timeouts>>

create_semaphore(t) ==
    \E c \in Counts : ob_create_object_path(t, "semaphore", c[1] + c[2] * Field, c)

create_timer(t) ==
    \E period \in 1..MaxPeriod, periodic \in BOOLEAN :
        ob_create_object_path(t, "timer", 0, <<period, periodic>>)

\* An event has no state of its own; its native id is the event type.
create_event(t) == \E e \in Events : ob_create_object_path(t, "event", e, <<>>)

\* Mutant: the last slot is taken whether it is unused or not.
LastOfTable(S) == NSems - 1

First(S) == CHOOSE i \in S : \A j \in S : i <= j

alloc_semaphore(t) ==
    LET initial == call[t].amount[1]
        max == call[t].amount[2]
        unused == {i \in Sems : ~sem[i].used}
        id == First(unused)
    IN  /\ call[t].pc = "alloc" /\ call[t].kind = "semaphore"
        /\ \/ /\ max > 0 /\ initial <= max /\ unused # {}
              /\ sem' = [sem EXCEPT ![id] =
                          [used |-> TRUE, count |-> initial, max_count |-> max]]
              /\ call' = [call EXCEPT ![t].pc = "bind", ![t].native = id]
           \/ /\ max = 0 \/ initial > max \/ unused = {}
              /\ Goto(t, "close")
              /\ UNCHANGED sem
        /\ UNCHANGED <<timer, objects, timeouts>>

alloc_timer(t) ==
    LET unused == {i \in Timers : ~timer[i].used}
        id == First(unused)
    IN  /\ call[t].pc = "alloc" /\ call[t].kind = "timer"
        /\ \/ /\ unused # {}
              /\ timer' = [timer EXCEPT ![id] =
                            [used |-> TRUE, state |-> "Idle", periodic |-> call[t].amount[2],
                             period |-> call[t].amount[1], remaining |-> 0]]
              /\ call' = [call EXCEPT ![t].pc = "bind", ![t].native = id]
           \/ /\ unused = {}
              /\ Goto(t, "close")
              /\ UNCHANGED timer
        /\ UNCHANGED <<sem, objects, timeouts>>

\* The object's native id becomes the slot.
bind(t) ==
    /\ call[t].pc = "bind"
    /\ obj' = [obj EXCEPT ![call[t].o].native = call[t].native]
    /\ Goto(t, "handle")
    /\ UNCHANGED <<sem, timer, next_id, timeouts>>

\* The handle table may be full; the object is closed again.
alloc_handle(t) ==
    /\ call[t].pc = "handle"
    /\ \/ /\ Cardinality({o \in ObIds : obj[o].open}) < MaxHandles
          /\ obj' = [obj EXCEPT ![call[t].o].open = TRUE]
          /\ Returns(t)
       \/ /\ Cardinality({o \in ObIds : obj[o].open}) >= MaxHandles
          /\ Goto(t, "close")
          /\ UNCHANGED obj
    /\ UNCHANGED <<sem, timer, next_id, timeouts>>

-----------------------------------------------------------------------------
\* ObClose

handler_close(t) ==
    \E o \in ObIds :
        /\ Enters(t, "close")
        /\ obj[o].open
        /\ obj' = [obj EXCEPT ![o].open = FALSE]
        /\ call' = [call EXCEPT ![t] = [InUser EXCEPT !.pc = "close", !.o = o]]
        /\ UNCHANGED <<sem, timer, next_id, timeouts>>

\* The last reference: the object leaves the table with its native id.
ob_close_object(t) ==
    LET o == call[t].o
    IN  /\ call[t].pc = "close"
        /\ obj' = [obj EXCEPT ![o] = NoObject]
        /\ call' = [call EXCEPT ![t].pc = "destroy", ![t].kind = obj[o].kind,
                                ![t].native = obj[o].native]
        /\ UNCHANGED <<sem, timer, next_id, timeouts>>

\* SemaphoreManager::free, TimerManager::free
on_destroy(t) ==
    LET c == call[t]
    IN  /\ c.pc = "destroy"
        /\ sem' = [i \in Sems |->
                     IF c.kind = "semaphore" /\ i = c.native THEN UnusedSem ELSE sem[i]]
        /\ timer' = [i \in Timers |->
                       IF c.kind = "timer" /\ i = c.native THEN UnusedTimer ELSE timer[i]]
        /\ Returns(t)
        /\ UNCHANGED <<objects, timeouts>>

-----------------------------------------------------------------------------
\* ObSet: SemaphoreRelease, TimerStart, TimerCancel

\* The object is looked up, and its native id used after the table is unlocked.
Looks(t, k, kind, pc, amount) ==
    \E o \in ObIds :
        /\ Enters(t, k)
        /\ obj[o].open /\ obj[o].kind = kind
        /\ call' = [call EXCEPT ![t] =
             [InUser EXCEPT !.pc = pc, !.o = o, !.kind = kind, !.native = obj[o].native,
                            !.amount = amount]]
        /\ UNCHANGED <<sem, timer, objects, timeouts>>

set_release(t) ==
    \E n \in Amounts : Looks(t, "release", "semaphore", "release", <<n>>)

set_start(t) == Looks(t, "start", "timer", "start", <<>>)
set_cancel(t) == Looks(t, "cancel", "timer", "cancel", <<>>)

\* i32 addition in a release build.
Wrapped(n) == IF n > IntMax THEN n - 2 * (IntMax + 1) ELSE n

Capped(sum, max) == IF sum > max THEN max ELSE sum

\* The count goes up to the maximum; all waiters are woken when it leaves zero.
release_semaphore(t) ==
    LET s == call[t].native
        n == call[t].amount[1]
        e == sem[s]
        sum == Wrapped(e.count + n)
        count == Capped(sum, e.max_count)
        m == <<"semaphore", s>>
        C == [call EXCEPT ![t] = InUser]
    IN  /\ call[t].pc = "release"
        /\ \/ /\ n = 0 \/ ~e.used
              /\ Returns(t)
              /\ UNCHANGED <<sem, deadlines>>
           \/ /\ n > 0 /\ e.used
              /\ sem' = [sem EXCEPT ![s].count = count]
              /\ \/ /\ e.count = 0 /\ count > 0
                    /\ kwait_wake({m}, C)
                 \/ /\ ~(e.count = 0 /\ count > 0)
                    /\ call' = C
                    /\ UNCHANGED deadlines
        /\ UNCHANGED <<timer, objects, expired, waits>>

start_timer(t) ==
    LET i == call[t].native
    IN  /\ call[t].pc = "start"
        /\ timer' = [timer EXCEPT ![i] =
                       IF @.used THEN [@ EXCEPT !.state = "Running", !.remaining = timer[i].period]
                       ELSE @]
        /\ Returns(t)
        /\ UNCHANGED <<sem, objects, timeouts>>

cancel_timer(t) ==
    LET i == call[t].native
    IN  /\ call[t].pc = "cancel"
        /\ timer' = [timer EXCEPT ![i] =
                       IF @.used /\ @.state = "Running"
                       THEN [@ EXCEPT !.state = "Idle", !.remaining = 0]
                       ELSE @]
        /\ Returns(t)
        /\ UNCHANGED <<sem, objects, timeouts>>

\* A configuration change of the network is the only signal of an event.
notify_config_changed(t) ==
    \E e \in Events :
        /\ Enters(t, "signal")
        /\ kwait_wake({<<"event", e>>}, call)
        /\ UNCHANGED <<sem, timer, objects, expired, waits>>

-----------------------------------------------------------------------------
\* ObWait

\* A semaphore is tried first; timers and events go straight to the wait.
handler_ob_wait(t) ==
    \E o \in ObIds, timed \in BOOLEAN :
        /\ Enters(t, IF timed THEN "timed" ELSE "wait")
        /\ obj[o].open
        /\ timed => waits < MaxWaits
        /\ waits' = IF timed THEN waits + 1 ELSE waits
        /\ call' = [call EXCEPT ![t] =
             [InUser EXCEPT !.pc = CASE obj[o].kind = "semaphore" -> "try"
                                     [] timed -> "register"
                                     [] OTHER -> "block",
                            !.o = o, !.kind = obj[o].kind, !.native = obj[o].native,
                            !.wait = IF timed THEN waits + 1 ELSE 0]]
        /\ UNCHANGED <<sem, timer, objects, deadlines, expired>>

try_wait_semaphore(t) ==
    LET s == call[t].native
    IN  /\ call[t].pc = "try"
        /\ \/ /\ sem[s].used /\ sem[s].count > 0
              /\ sem' = [sem EXCEPT ![s].count = @ - 1]
              /\ Returns(t)
           \/ /\ ~(sem[s].used /\ sem[s].count > 0)
              /\ Goto(t, IF call[t].wait > 0 THEN "register" ELSE "block")
              /\ UNCHANGED sem
        /\ UNCHANGED <<timer, objects, timeouts>>

\* Mutant: a deadline is kept only if none is armed and the wait is the first.
ArmedOnce(t) == IF waits > 1 THEN deadlines ELSE [deadlines EXCEPT ![Magic(t)] = call[t].wait]

\* A deadline per reason: a later one replaces it.
ArmedBy(t) == [deadlines EXCEPT ![Magic(t)] = call[t].wait]

register_deadline(t) ==
    /\ call[t].pc = "register"
    /\ deadlines' = ArmedBy(t)
    /\ Goto(t, "block")
    /\ UNCHANGED <<sem, timer, objects, expired, waits>>

kwait_block(t) ==
    /\ call[t].pc = "block"
    /\ Goto(t, "blocked")
    /\ UNCHANGED <<sem, timer, objects, timeouts>>

-----------------------------------------------------------------------------
\* Interrupt and pump

\* TimerManager::tick, from the timer interrupt of the boot CPU.
Fires(i) == timer[i].used /\ timer[i].state = "Running" /\ timer[i].remaining <= 1

Ticked(r) ==
    IF ~r.used \/ r.state # "Running" THEN r
    ELSE IF r.remaining > 1 THEN [r EXCEPT !.remaining = @ - 1]
    ELSE IF r.periodic THEN [r EXCEPT !.remaining = r.period]
    ELSE [r EXCEPT !.remaining = 0, !.state = "Expired"]

\* The timer interrupt of the boot processor. It may come inside a system call:
\* copying the arguments has left interrupts enabled.
tick ==
    /\ timer' = [i \in Timers |-> Ticked(timer[i])]
    /\ kwait_wake({<<"timer", i>> : i \in {j \in Timers : Fires(j)}}, call)
    /\ UNCHANGED <<sem, objects, expired, waits>>

\* deadline_tick takes the deadlines that have passed out of the list ...
Armed == {m \in Magics : deadlines[m] # 0}

collect_expired ==
    /\ CpuFree
    /\ expired = {}
    /\ \E M \in SUBSET Armed \ {{}} :
          /\ expired' = {<<m, deadlines[m]>> : m \in M}
          /\ deadlines' = Cancelled(M)
    /\ UNCHANGED <<sem, timer, objects, waits, call>>

\* ... and wakes their waiters one reason after the other.
wake_expired ==
    /\ CpuFree
    /\ \E x \in expired :
          /\ expired' = expired \ {x}
          /\ kwait_wake({x[1]}, call)
    /\ UNCHANGED <<sem, timer, objects, waits>>

-----------------------------------------------------------------------------
Init ==
    /\ sem = [i \in Sems |-> UnusedSem]
    /\ timer = [i \in Timers |-> UnusedTimer]
    /\ obj = [o \in ObIds |-> NoObject]
    /\ next_id = 1
    /\ deadlines = [m \in Magics |-> 0]
    /\ expired = {}
    /\ waits = 0
    /\ call = [t \in Threads |-> InUser]
    /\ load \in Loads

Begin(t) ==
    \/ create_semaphore(t) \/ create_timer(t) \/ create_event(t)
    \/ set_release(t) \/ set_start(t) \/ set_cancel(t) \/ notify_config_changed(t)
    \/ handler_ob_wait(t) \/ handler_close(t)

Continue(t) ==
    \/ alloc_semaphore(t) \/ alloc_timer(t) \/ bind(t) \/ alloc_handle(t)
    \/ release_semaphore(t) \/ start_timer(t) \/ cancel_timer(t)
    \/ try_wait_semaphore(t) \/ register_deadline(t) \/ kwait_block(t)
    \/ ob_close_object(t) \/ on_destroy(t)

Next ==
    /\ \/ \E t \in Threads : Begin(t) \/ Continue(t)
       \/ tick
       \/ collect_expired
       \/ wake_expired
    /\ UNCHANGED load

Spec == Init /\ [][Next]_vars

-----------------------------------------------------------------------------
\* Fairness

Collects(m) ==
    \E M \in SUBSET Armed :
        /\ m \in M
        /\ collect_expired
        /\ deadlines' = Cancelled(M)

\* A system call in the kernel goes on.  The pump never blocks, so the
\* scheduler dispatches it again and again, and time passes: a deadline that
\* stays armed is taken out.
Fairness ==
    /\ \A t \in Threads : WF_state(Continue(t))
    /\ \A m \in Magics : SF_state(Collects(m))
    /\ SF_state(wake_expired)

LiveSpec == Spec /\ Fairness

-----------------------------------------------------------------------------
\* Properties

\* The types of the two managers, of the objects, of the deadlines and of the
\* system calls in progress.
TypeOK ==
    /\ sem \in [Sems -> [used : BOOLEAN, count : -IntMax - 1..IntMax, max_count : 0..IntMax]]
    /\ timer \in [Timers -> [used : BOOLEAN, state : {"Idle", "Running", "Expired"},
                             periodic : BOOLEAN, period : 0..MaxPeriod,
                             remaining : 0..MaxPeriod]]
    /\ \A o \in ObIds : obj[o].open => obj[o].live
    /\ next_id \in 1..MaxObjects + 1
    /\ deadlines \in [Magics -> 0..MaxWaits]
    /\ \A x \in expired : x[1] \in Magics /\ x[2] \in 1..waits
    /\ \A t \in Threads : call[t].pc \in {"register", "block", "blocked"} => Magic(t) \in Magics

\* SemaphoreManager::release caps the count: it is never negative and never
\* above the maximum.
CountInRange == \A s \in Sems : sem[s].count \in 0..sem[s].max_count

\* The allocated slots of a kind.
Slots(k) == IF k = "semaphore" THEN {s \in Sems : sem[s].used}
            ELSE {i \in Timers : timer[i].used}

\* The slot an open semaphore or timer names is allocated, and no other object
\* names it (alloc, the assignment of native_id and on_destroy agree).
SlotsBackObjects ==
    \A o \in ObIds : obj[o].open /\ obj[o].kind # "event" =>
        /\ obj[o].native \in Slots(obj[o].kind)
        /\ \A p \in ObIds \ {o} : obj[p].open /\ obj[p].kind = obj[o].kind
                                => obj[p].native # obj[o].native

\* While no call is in progress every allocated slot belongs to an object, so
\* creations that fail half-way and closes lose none of them.
SlotsReclaimed ==
    InKernel = {} =>
        \A k \in {"semaphore", "timer"} : \A i \in Slots(k) :
            \E o \in ObIds : obj[o].live /\ obj[o].kind = k /\ obj[o].native = i

\* No thread sleeps on an open semaphore that has units: release wakes all
\* waiters when the count leaves zero, and on one CPU no other thread runs
\* between the try and the block of handler_ob_wait.  On two CPUs one can.
NoWaiterForgotten ==
    load.cpus = 1 =>
        \A t \in Threads :
            call[t].pc = "blocked" /\ call[t].kind = "semaphore" /\ obj[call[t].o].open =>
                sem[call[t].native].count <= 0

\* A wait with a timeout ends, whether or not its object is ever signalled.  A
\* timer that expires between register_deadline and kwait_block cancels the
\* deadline of the wait on it, so loads with timers are left out.
TimedWaitsEnd ==
    "timer" \notin load.calls => \A t \in Threads : call[t].wait > 0 ~> call[t].wait = 0

=============================================================================
