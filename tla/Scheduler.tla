----------------------------- MODULE Scheduler -----------------------------
(***************************************************************************)
(* The SMP scheduler of the NeoDOS kernel: thread life cycle, dispatch,    *)
(* preemption, wait and wake, kill and deferred reclamation of kernel      *)
(* stacks.                                                                 *)
(*                                                                         *)
(* The variable `sched' is everything the code touches only under the      *)
(* global SCHEDULER mutex with interrupts off, so one locked section is    *)
(* one step and the operators below are functions from one value of        *)
(* `sched' to the next.  What a CPU does outside the lock is in the other  *)
(* variables; in particular a CPU leaves the lock with its KPRCB naming    *)
(* the next thread while it still executes on the previous thread's kernel *)
(* stack, until the assembly stub runs `mov rsp' (mode "switch").          *)
(*                                                                         *)
(* The model starts after boot.  BOOT_TID stays Blocked for good, so       *)
(* has_non_idle_threads() is always true and that test is not modelled.    *)
(* Time slices are abstracted to a choice made at each tick.               *)
(***************************************************************************)
EXTENDS RunQueueOps

CONSTANTS
    Cpus,             \* online CPUs, a set of naturals
    UserTids,         \* threads of Ring 3 processes
    KernelTids,       \* kernel threads (is_kernel)
    IdleTid,          \* the idle thread of each CPU
    PidOf,            \* the process of each thread, 0 for the idle threads
    NextTid,          \* next_tid, above every thread id in use
    INIT_PID,         \* NeoInit, which kill_pid refuses to kill
    Events,           \* wait reasons other than ChildExit and ThreadJoin
    MAX_STARVATION,   \* MAX_STARVATION_TICKS in aging intervals
    AgingTicks,       \* BOOLEAN: any tick may be an aging tick; {TRUE}: every one is
    Loads,            \* what the system may be doing, a set of subsets of AllCalls
    SetPrios,         \* the priorities set_process_priority is called with
    CountModulus      \* PREEMPT_COUNT is a u32: 2^32 in the code

\* What processes and kernel threads do, whether there are kernel threads and
\* whether ticks age the Ready threads.
AllCalls == {"other", "yield", "exit", "fault", "block", "join", "wait", "spawn",
             "activate", "thread", "priority", "kill", "kyield", "section",
             "kernel", "aging"}

IdleTids == {IdleTid[c] : c \in Cpus}
Tids == UserTids \cup KernelTids \cup IdleTids
Pids == {PidOf[t] : t \in Tids}
UserPids == {PidOf[t] : t \in UserTids}
NoTid == 0            \* BOOT_TID: no run queue, switch marker or CPU ever names it
NoReason == <<"None">>
Reasons == {<<"Event", e>> : e \in Events}
           \cup {<<"ChildExit", p>> : p \in UserPids}
           \cup {<<"ThreadJoin", t>> : t \in UserTids}

ASSUME ConstantsAssumption ==
    /\ Cpus \subseteq Nat /\ IsFiniteSet(Cpus) /\ 0 \in Cpus
    /\ Tids \subseteq Nat \ {0} /\ IsFiniteSet(Tids)
    /\ UserTids \cap KernelTids = {} /\ (UserTids \cup KernelTids) \cap IdleTids = {}
    /\ \A c, d \in Cpus : IdleTid[c] = IdleTid[d] => c = d
    /\ \A t \in Tids : t \in DOMAIN PidOf /\ PidOf[t] \in Nat
    /\ \A t \in Tids : PidOf[t] = 0 <=> t \in IdleTids
    /\ NextTid \in Nat /\ \A t \in Tids : t < NextTid
    /\ MAX_STARVATION \in Nat \ {0}
    /\ AgingTicks \subseteq BOOLEAN
    /\ INIT_PID \in UserPids
    /\ \A l \in Loads : l \subseteq AllCalls
    /\ SetPrios \subseteq Priorities
    /\ CountModulus \in Nat \ {0, 1}

VARIABLES
    sched,         \* the state behind the SCHEDULER mutex (see TypeOK)
    mode,          \* what each CPU is executing
    onStack,       \* whose kernel stack each CPU physically runs on
    need_resched,  \* KPRCB.need_resched of each CPU
    NEED_RESCHED,  \* the global flag
    PREEMPT_COUNT, \* the preempt-disable depth of each CPU
    holding,       \* the threads between preempt_disable and preempt_enable
    load           \* the member of Loads this behaviour has

flags == <<need_resched, NEED_RESCHED>>
preempt == <<PREEMPT_COUNT, holding>>
vars == <<sched, mode, onStack, flags, preempt, load>>
-----------------------------------------------------------------------------
\* Threads.  A thread is not there before it is created ("None") and after its
\* slot is cleared ("Reaped"); its stack is then freed, unless quarantined.

PRIORITY_NORMAL == 2
PRIORITY_IDLE == 3

NewThread(state, c, priority, frame) ==
    [state |-> state, cpu |-> c, priority |-> priority, base_priority |-> priority,
     waiting_for |-> NoReason, yield_requested |-> FALSE,
     ticks_since_scheduled |-> 0, frame |-> frame]

Cleared == NewThread("Reaped", 0, PRIORITY_NORMAL, "ring0")

\* find_kthread returns Some
Exists(S, t) == t \in Tids /\ S.th[t].state \notin {"None", "Reaped"}

IsReady(S, t) == t \in Tids /\ S.th[t].state = "Ready"

ThreadsOf(S, p) == {t \in Tids : PidOf[t] = p /\ Exists(S, t)}

FreedStacks(S) == {t \in Tids : S.th[t].state = "Reaped"} \ S.quarantine

\* A process loses its user slot when its last thread exits or when it is
\* killed while running: in both cases it is then in the zombie queue.
is_kernel_thread(S, t) == t \notin UserTids \/ PidOf[t] \in S.zombies

is_pid_running_on_any_cpu(S, p) == p # 0 /\ \E c \in Cpus : PidOf[S.cur[c]] = p

\* Mutant: a thread another CPU still runs is taken.
OwnershipIgnored(S, t, c) == FALSE

candidate_owned_elsewhere(S, t, c) == \E d \in Cpus \ {c} : S.cur[d] = t

\* Mutant: the switch marker is not consulted.
MarkerIgnored(S, t) == FALSE

reclaim_conflict(S, t) == \E c \in Cpus : S.switch_out[c] = t

\* Mutant: the abandoned stack is not marked.
SetCurrentUnmarked(S, c, t) == [S EXCEPT !.cur[c] = t]

\* The KPRCB is repointed; the stack being abandoned is marked first.
SetCurrent(S, c, t) ==
    IF S.cur[c] = t THEN S
    ELSE [S EXCEPT !.cur[c] = t, !.switch_out[c] = S.cur[c]]

-----------------------------------------------------------------------------
\* Run queues (scheduler/queue.rs).  c is the CPU that runs the code.

EnqueueOne(rq, th, t) ==
    IF t \in IdleTids \/ t \in QueuedTids(rq[th[t].cpu]) THEN rq
    ELSE [rq EXCEPT ![th[t].cpu] = PushPriority(@, t, th[t].priority)]

\* op applied to q for each thread of T, in ascending order
InSlotOrder(op(_, _), q, T) ==
    LET after[n \in 0 .. NextTid - 1] ==
          IF n = 0 THEN q
          ELSE IF n \in T THEN op(after[n - 1], n) ELSE after[n - 1]
    IN  after[NextTid - 1]

EnqueueAll(rq, th, T) == InSlotOrder(LAMBDA q, t : EnqueueOne(q, th, t), rq, T)

\* enqueue_to_cpu_run_queue, for each thread of T in slot order; a CPU whose
\* queue received a thread gets a reschedule IPI.
Enqueue(S, c, T) ==
    [S EXCEPT !.rq = EnqueueAll(S.rq, S.th, T),
              !.ipi = @ \cup {S.th[t].cpu : t \in {u \in T \ IdleTids :
                                   /\ S.th[u].cpu # c
                                   /\ u \notin QueuedTids(S.rq[S.th[u].cpu])}}]

RemoveFromQueue(S, t) == [S EXCEPT !.rq[S.th[t].cpu] = RemoveTid(@, t)]

\* Threads whose priority changed leave their level and join the new one.
RequeueAll(rq, th, T) ==
    InSlotOrder(LAMBDA q, t : EnqueueOne([q EXCEPT ![th[t].cpu] = RemoveTid(@, t)], th, t),
                rq, T)

RemoveAll(q, T) == InSlotOrder(RemoveTid, q, T)

\* make_thread_ready for each thread of T
MakeReady(S, c, T) ==
    LET W == {t \in T : S.th[t].state # "Ready"}
    IN  Enqueue([S EXCEPT !.th = [t \in Tids |->
            IF t \in W
            THEN [S.th[t] EXCEPT !.state = "Ready", !.yield_requested = FALSE,
                                 !.ticks_since_scheduled = 0]
            ELSE S.th[t]]], c, W)

Wake(S, c, reason) ==
    LET W == {t \in Tids : S.th[t].state = "Blocked" /\ S.th[t].waiting_for = reason}
    IN  MakeReady([S EXCEPT !.th = [t \in Tids |->
            IF t \in W THEN [S.th[t] EXCEPT !.waiting_for = NoReason] ELSE S.th[t]]], c, W)

-----------------------------------------------------------------------------
\* Reclamation (scheduler/lifecycle.rs)

\* recycle_terminated, for every process of P: the slots are cleared; a stack
\* some CPU is still leaving goes to the quarantine, the others are freed.
RecycleProcesses(S, P) ==
    LET T == {t \in Tids : PidOf[t] \in P /\ Exists(S, t)}
    IN  [S EXCEPT !.th = [t \in Tids |-> IF t \in T THEN Cleared ELSE S.th[t]],
                  !.quarantine = @ \cup {t \in T : reclaim_conflict(S, t)}]

Reclaimable(S, exclude) ==
    {p \in S.zombies : p # exclude /\ ~is_pid_running_on_any_cpu(S, p)}

\* Mutant: the quarantine is drained but the zombie queue is not.
DrainOnly(S, exclude) == [S EXCEPT !.quarantine = {t \in @ : reclaim_conflict(S, t)}]

\* drain_kstack_quarantine, then the loop over find_reclaimable
reap_pending_zombies(S, exclude) ==
    LET D == [S EXCEPT !.quarantine = {t \in @ : reclaim_conflict(S, t)}]
        R == Reclaimable(S, exclude)
    IN  [RecycleProcesses(D, R) EXCEPT !.zombies = @ \ R]

\* The hard cap of the zombie queue is out of reach of this model.
defer_reap(S, p) == [S EXCEPT !.zombies = @ \cup {p}]

-----------------------------------------------------------------------------
\* Dispatch (scheduler/schedule.rs)

account_dispatch(k) ==
    [k EXCEPT !.ticks_since_scheduled = 0,
              !.priority = IF @ < k.base_priority THEN k.base_priority ELSE @]

\* COMMIT: repoint the KPRCB, mark Running, then reap, sparing the process
\* whose stack is still under this CPU.
Commit(S, c, t) ==
    LET prev == S.cur[c]
        D == [SetCurrent(S, c, t) EXCEPT
                 !.th[t] = account_dispatch([@ EXCEPT !.state = "Running"])]
    IN  reap_pending_zombies(D, PidOf[prev])

dispatch_idle(S, c) ==
    LET i == IdleTid[c]
        D == [SetCurrent(S, c, i) EXCEPT !.th[i].state = "Running"]
    IN  reap_pending_zombies(D, PidOf[S.cur[c]])

highest_ready_priority(S) ==
    LET L == {HighestLevel(S.rq[c]) : c \in Cpus}
    IN  CHOOSE p \in L : \A r \in L : p <= r

kernel_thread_starved(S, c) ==
    \E t \in Tids \ IdleTids :
        /\ IsReady(S, t)
        /\ S.th[t].cpu = c
        /\ S.th[t].ticks_since_scheduled >= MAX_STARVATION
        /\ is_kernel_thread(S, t)

FrameAllowed(S, t, require_ring3) ==
    ~require_ring3 \/ t \in KernelTids \/ S.th[t].frame = "ring3"

\* VALIDATE, for a thread taken from a run queue
Dispatchable(S, c, t, require_ring3) ==
    /\ IsReady(S, t)
    /\ FrameAllowed(S, t, require_ring3)
    /\ ~candidate_owned_elsewhere(S, t, c)
    /\ S.th[t].priority <= highest_ready_priority(S)

\* A selection attempt leaves a scheduler state and a candidate (or NoTid).
try_dequeue_local(S, c) ==
    IF ActiveLevels(S.rq[c]) = {} THEN [s |-> S, tid |-> NoTid]
    ELSE [s |-> [S EXCEPT !.rq[c] = PopHighest(@)], tid |-> PeekHighest(S.rq[c])]

PutBackNothing(a, c) == a.s

\* A Ready candidate that is not dispatched goes back to its queue.
PutBack(a, c) == IF IsReady(a.s, a.tid) THEN Enqueue(a.s, c, {a.tid}) ELSE a.s

\* steal_and_migrate walks the victim's queue F in dispatch order.  What it has
\* migrated before entry i, and what it does with a thread t it meets after
\* migrating M: it drops what is not Ready, stops at a thread a CPU still owns, and
\* pushes back a thread the thief has no room for, which also ends the walk.
Migrated(S, F, i) == Kept(SubSeq(F, 1, i - 1), {t \in Tids : IsReady(S, t)})

AtPriority(S, p) == {t \in Tids : S.th[t].priority = p}

RoomLeft(S, M, thief, p) ==
    RUNQUEUE_PRIO_CAP - Len(S.rq[thief][p]) - Len(Kept(M, AtPriority(S, p)))

Meets(S, M, thief, t) ==
    IF \A p \in Priorities : RoomLeft(S, M, thief, p) <= 0 THEN "full"
    ELSE IF ~IsReady(S, t) THEN "drop"
    ELSE IF candidate_owned_elsewhere(S, t, thief) THEN "owned"
    ELSE IF RoomLeft(S, M, thief, S.th[t].priority) <= 0 THEN "push_back"
    ELSE "migrate"

FirstOf(T) == CHOOSE t \in T : \A u \in T : t <= u

PushedBack(rest, t, prio) == PushPriority(RemoveTid(rest, t), t, prio)

\* The threads that go to the thief and the queue left to the victim, when the walk
\* ends at entry i.
WalkTo(S, F, rq, thief, i) ==
    LET rest == RemoveAll(rq, Elements(SubSeq(F, 1, i - 1)))
        pushed == i \in DOMAIN F /\ Meets(S, Migrated(S, F, i), thief, F[i]) = "push_back"
    IN  [moved |-> Migrated(S, F, i),
         rest |-> IF pushed THEN PushedBack(rest, F[i], S.th[F[i]].priority) ELSE rest]

WalkOver(S, F, rq, thief) ==
    LET Ends == {i \in DOMAIN F : Meets(S, Migrated(S, F, i), thief, F[i])
                                    \in {"full", "owned", "push_back"}}
    IN  WalkTo(S, F, rq, thief, FirstOf(Ends \cup {Len(F) + 1}))

Stealing(S, victim, thief) == WalkOver(S, Flat(S.rq[victim]), S.rq[victim], thief)

\* The thief c takes the threads `moved'; each visited victim keeps its rest.
Migrate(S, c, moved, St, Visited) ==
    [S EXCEPT !.th = [t \in Tids |-> IF t \in Elements(moved)
                                     THEN [S.th[t] EXCEPT !.cpu = c] ELSE S.th[t]],
              !.rq = [v \in Cpus |->
                        IF v = c
                        THEN [p \in Priorities |-> S.rq[c][p] \o Kept(moved, AtPriority(S, p))]
                        ELSE IF v \in Visited THEN St[v].rest ELSE S.rq[v]]]

StealFrom(S, c, St, Givers) ==
    IF Givers = {} THEN [s |-> Migrate(S, c, << >>, St, Cpus \ {c}), tid |-> NoTid]
    ELSE LET Giver == FirstOf(Givers)
         IN  try_dequeue_local(
                 Migrate(S, c, St[Giver].moved, St, {v \in Cpus \ {c} : v <= Giver}), c)

\* try_work_steal: the victims in index order, up to the first that yields a thread.
try_work_steal(S, c) ==
    LET Walk(St) == StealFrom(S, c, St, {v \in Cpus \ {c} : St[v].moved # << >>})
    IN  Walk([v \in Cpus \ {c} |-> Stealing(S, v, c)])

\* The global scan: every Ready thread, by priority, then round robin from the
\* thread after the current one.
ScanCandidates(S, c, require_ring3) ==
    {t \in Tids \ IdleTids : /\ IsReady(S, t)
                             /\ FrameAllowed(S, t, require_ring3)
                             /\ ~candidate_owned_elsewhere(S, t, c)}

ScanKey(S, c, t) == NextTid * S.th[t].priority + ((t - S.cur[c] - 1) % NextTid)

ScanPick(S, c, C) ==
    CHOOSE t \in C : \A u \in C : ScanKey(S, c, t) <= ScanKey(S, c, u)

ScanCommit(S, c, t) ==
    Commit([RemoveFromQueue(S, t) EXCEPT !.th[t].cpu = c], c, t)

Dispatched(S, t, handoff) == [s |-> S, next |-> t, handoff |-> handoff]

\* Mutant: no global scan.
IdleWithoutScan(S, c, require_ring3) ==
    Dispatched(dispatch_idle(S, c), IdleTid[c], FALSE)

ScanOrIdle(S, c, require_ring3) ==
    LET C == ScanCandidates(S, c, require_ring3)
        t == ScanPick(S, c, C)
    IN  IF C # {} THEN Dispatched(ScanCommit(S, c, t), t, FALSE)
        ELSE Dispatched(dispatch_idle(S, c), IdleTid[c], FALSE)

\* A candidate from another CPU's queue, else the scan; a candidate from this
\* CPU's queue, else stealing.
StolenOrScan(a, c, require_ring3) ==
    IF Dispatchable(a.s, c, a.tid, require_ring3)
    THEN Dispatched(Commit(a.s, c, a.tid), a.tid, FALSE)
    ELSE ScanOrIdle(PutBack(a, c), c, require_ring3)

StealOrScan(S, c, require_ring3) == StolenOrScan(try_work_steal(S, c), c, require_ring3)

LocalOrSteal(a, c, require_ring3) ==
    IF Dispatchable(a.s, c, a.tid, require_ring3)
    THEN Dispatched(Commit(a.s, c, a.tid), a.tid, FALSE)
    ELSE StealOrScan(PutBack(a, c), c, require_ring3)

schedule_with_handoff(S, c, require_ring3, allow_handoff) ==
    IF require_ring3 /\ allow_handoff /\ kernel_thread_starved(S, c)
    THEN Dispatched(dispatch_idle(S, c), IdleTid[c], TRUE)
    ELSE LocalOrSteal(try_dequeue_local(S, c), c, require_ring3)

accept_non_ring3_dispatch(r) == r.handoff \/ r.next \in KernelTids

-----------------------------------------------------------------------------
\* The timer interrupt (scheduler/schedule.rs, arch/x64/idt/mod.rs)

apply_aging(S, c) ==
    LET R == {t \in Tids \ IdleTids : S.th[t].state = "Ready"}
        Older(t) == IF S.th[t].ticks_since_scheduled < MAX_STARVATION
                    THEN S.th[t].ticks_since_scheduled + 1
                    ELSE MAX_STARVATION
        B == {t \in R : Older(t) >= MAX_STARVATION /\ S.th[t].priority > 0}
        th == [t \in Tids |->
                 CASE t \in B -> [S.th[t] EXCEPT !.ticks_since_scheduled = 0,
                                                !.priority = @ - 1]
                   [] t \in R \ B -> [S.th[t] EXCEPT !.ticks_since_scheduled = Older(t)]
                   [] OTHER -> S.th[t]]
    IN  [S EXCEPT !.th = th,
                  !.rq = RequeueAll(S.rq, th, B),
                  !.ipi = @ \cup {th[t].cpu : t \in {u \in B : th[u].cpu # c}}]

SaveFrame(S, c, t, frame) ==
    [S EXCEPT !.th[t].frame = frame, !.th[t].yield_requested = FALSE, !.th[t].cpu = c]

\* Mutant: the preempt-disable count is not consulted.
TickIgnoresSections(S, c, frame, expired, preempt_disabled) ==
    LET t == S.cur[c]
        D == SaveFrame(S, c, t, frame)
    IN  IF S.th[t].state # "Running" \/ ~expired THEN S
        ELSE IF frame = "ring3" \/ is_kernel_thread(S, t)
        THEN Enqueue([D EXCEPT !.th[t].state = "Ready"], c, {t})
        ELSE D

\* Mutant: an expired slice is renewed.
TickRenewsSlice(S, c, frame, expired, preempt_disabled) == S

\* on_timer_tick: when the slice of a Running thread expires its frame is saved;
\* it is published as Ready only if that frame may be dispatched by any CPU.
on_timer_tick(S, c, frame, expired, preempt_disabled) ==
    LET t == S.cur[c]
        D == SaveFrame(S, c, t, frame)
    IN  IF S.th[t].state # "Running" \/ ~expired THEN S
        ELSE IF ~preempt_disabled /\ (frame = "ring3" \/ is_kernel_thread(S, t))
        THEN Enqueue([D EXCEPT !.th[t].state = "Ready"], c, {t})
        ELSE D

\* A Ring 0 context that must not be dispatched here goes back, and the
\* interrupted thread goes on.
RevertDispatch(S, c, next, t) ==
    LET D == Enqueue([S EXCEPT !.th[next].state = "Ready"], c, {next})
    IN  SetCurrent([RemoveFromQueue(D, t) EXCEPT !.th[t].state = "Running"], c, t)

\* Mutant: the state is not checked before the thread is published.
PublishAlways(S, c, t) == MakeReady(S, c, {t})

PublishIfRunning(S, c, t) == IF S.th[t].state = "Running" THEN MakeReady(S, c, {t}) ELSE S

\* The selection made on behalf of a Ring 3 context.
SelectRing3(S, c) ==
    schedule_with_handoff(PublishIfRunning(SaveFrame(S, c, S.cur[c], "ring3"), c, S.cur[c]),
                          c, TRUE, TRUE)

\* Ring 3 was interrupted and the thread is to be preempted.
AcceptOrRevert(r, c, t) ==
    IF r.s.th[r.next].frame = "ring3" \/ accept_non_ring3_dispatch(r) THEN r.s
    ELSE RevertDispatch(r.s, c, r.next, t)

PreemptUser(S, c) == AcceptOrRevert(SelectRing3(S, c), c, S.cur[c])

RestartSlice(r) == [r.s EXCEPT !.th[r.next].ticks_since_scheduled = 0]

PreemptIdle(S, c) ==
    RestartSlice(schedule_with_handoff([S EXCEPT !.th[S.cur[c]].frame = "ring0"],
                                       c, FALSE, FALSE))

PreemptKernel(S, c) ==
    LET t == S.cur[c]
    IN  schedule_with_handoff(PublishIfRunning(SaveFrame(S, c, t, "ring0"), c, t),
                              c, FALSE, FALSE).s

\* The fall-through: a thread that is not preempted but was marked Ready goes on.
KeepRunning(S, c) ==
    LET t == S.cur[c]
    IN  IF S.th[t].state # "Ready" THEN S
        ELSE [RemoveFromQueue(S, t) EXCEPT !.th[t].state = "Running"]

WantsSwitch(S, t) == S.th[t].state = "Ready" \/ S.th[t].yield_requested

\* Which of the four exits of timer_handler_inner is taken.
TimerPath(S, c, user) ==
    LET t == S.cur[c]
    IN  IF user THEN IF WantsSwitch(S, t) THEN "user" ELSE "stay"
        ELSE IF t \in IdleTids THEN IF S.th[t].state = "Ready" THEN "idle" ELSE "fall"
        ELSE IF is_kernel_thread(S, t) /\ WantsSwitch(S, t) THEN "kernel" ELSE "fall"

TimerResult(S, c, path) ==
    CASE path = "user" -> PreemptUser(S, c)
      [] path = "idle" -> PreemptIdle(S, c)
      [] path = "kernel" -> PreemptKernel(S, c)
      [] path = "fall" -> KeepRunning(S, c)
      [] path = "stay" -> S

-----------------------------------------------------------------------------
\* Actions.  mode[c] is "user" in Ring 3, "syscall" in a system call whose
\* handler has run, "exit" in the exit system call, "fault" in an exception that
\* ended the thread, "kernel" in a kernel or idle thread, "switch" between the
\* KPRCB update and the first instruction on the new stack.

Interruptible == {"user", "syscall", "exit", "kernel"}

\* The CPU leaves the locked section: through `mov rsp' if it changed thread.
LeaveLock(c, S, same) ==
    /\ sched' = S
    /\ mode' = [mode EXCEPT ![c] = IF S.switch_out[c] = NoTid THEN same ELSE "switch"]
    /\ UNCHANGED <<onStack, preempt>>

\* timer_handler_inner: the scheduler state it leaves, whether it raised the global
\* flag (a slice expired and the thread was published) and this CPU's flag.
TimerOutcome(A, D, c, path) ==
    [s |-> TimerResult(D, c, path),
     global |-> A.th[A.cur[c]].state # D.th[D.cur[c]].state,
     local |-> path \in {"fall", "stay"}]

AfterAging(A, c, expired) ==
    LET user == mode[c] = "user"
        Tick(D) == TimerOutcome(A, D, c, TimerPath(D, c, user))
    IN  Tick(on_timer_tick(A, c, IF user THEN "ring3" ELSE "ring0", expired,
                           PREEMPT_COUNT[c] > 0))

timer_handler_inner(c, expired, aging) ==
    AfterAging(IF aging THEN apply_aging(sched, c) ELSE sched, c, expired)

LeaveTimer(c, r) ==
    /\ LeaveLock(c, r.s, mode[c])
    /\ NEED_RESCHED' = (NEED_RESCHED \/ r.global)
    /\ need_resched' = [need_resched EXCEPT ![c] = @ \/ r.local]

TimerTick(c, expired, aging) ==
    /\ mode[c] \in Interruptible
    /\ LeaveTimer(c, timer_handler_inner(c, expired, aging))

\* `mov rsp' and switch_out_clear; then iretq resumes the saved frame.
FinishSwitch(c) ==
    LET t == sched.cur[c]
    IN  /\ mode[c] = "switch"
        /\ sched' = [sched EXCEPT !.switch_out[c] = NoTid]
        /\ onStack' = [onStack EXCEPT ![c] = t]
        /\ mode' = [mode EXCEPT ![c] =
                       IF sched.th[t].frame = "ring3" THEN "user"
                       ELSE IF t \in UserTids THEN "syscall" ELSE "kernel"]
        /\ UNCHANGED <<flags, preempt>>

\* ipi_reschedule_handler
DeliverIpi(c) ==
    /\ c \in sched.ipi
    /\ mode[c] \in Interruptible
    /\ sched' = [sched EXCEPT !.ipi = @ \ {c}]
    /\ need_resched' = [need_resched EXCEPT ![c] = TRUE]
    /\ UNCHANGED <<mode, onStack, NEED_RESCHED, preempt>>

\* --- the return path of a system call --------------------------------------

\* select_fallback_ring3, by priority then slot
FallbackCandidates(S, c) ==
    {t \in Tids : /\ IsReady(S, t) /\ S.th[t].frame = "ring3"
                  /\ ~candidate_owned_elsewhere(S, t, c)}

FallbackPick(S, C) ==
    CHOOSE t \in C : \A u \in C :
        \/ S.th[t].priority < S.th[u].priority
        \/ S.th[t].priority = S.th[u].priority /\ t <= u

\* The selected Ring 0 context is refused by a thread that cannot go on.
SwitchToFallback(S, c) ==
    LET C == FallbackCandidates(S, c)
        t == FallbackPick(S, C)
        i == IdleTid[c]
    IN  IF C # {}
        THEN SetCurrent([RemoveFromQueue(S, t) EXCEPT !.th[t].cpu = c,
                                                      !.th[t].state = "Running"], c, t)
        ELSE SetCurrent([S EXCEPT !.th[i].state = "Running"], c, i)

AcceptOrGoOn(r, c, t) ==
    IF r.s.th[r.next].frame = "ring3" \/ accept_non_ring3_dispatch(r) THEN r.s
    ELSE IF r.s.th[t].state \in {"Blocked", "Terminated"}
    THEN SwitchToFallback(Enqueue([r.s EXCEPT !.th[r.next].state = "Ready"], c, {r.next}), c)
    ELSE RevertDispatch(r.s, c, r.next, t)

syscall_try_resched(S, c) == AcceptOrGoOn(SelectRing3(S, c), c, S.cur[c])

Resched(c) ==
    LeaveLock(c, syscall_try_resched(sched, c), "user")

ReturnToUser(c) ==
    /\ mode' = [mode EXCEPT ![c] = "user"]
    /\ UNCHANGED <<sched, onStack, preempt>>

\* The exit call reschedules whatever the flags say; any other call does so
\* only if its CPU's flag and the global flag are both set, and clears both.
SyscallReturn(c) ==
    LET exited == mode[c] = "exit" /\ sched.th[sched.cur[c]].state = "Terminated"
    IN  /\ mode[c] \in {"syscall", "exit"}
        /\ sched.cur[c] \notin holding
        /\ IF exited THEN Resched(c) /\ UNCHANGED flags
           ELSE IF ~need_resched[c] THEN ReturnToUser(c) /\ UNCHANGED flags
           ELSE /\ need_resched' = [need_resched EXCEPT ![c] = FALSE]
                /\ NEED_RESCHED' = FALSE
                /\ IF NEED_RESCHED THEN Resched(c)
                   ELSE ReturnToUser(c)

\* --- system call handlers ----------------------------------------------------

Handler(c, S, m) ==
    /\ mode[c] = "user"
    /\ sched' = S
    /\ mode' = [mode EXCEPT ![c] = m]
    /\ UNCHANGED <<onStack, preempt>>

SetNeedResched(c) ==
    /\ need_resched' = [need_resched EXCEPT ![c] = TRUE]
    /\ NEED_RESCHED' = TRUE

\* A call that changes nothing here.
OtherSyscall(c) == Handler(c, sched, "syscall") /\ UNCHANGED flags

\* kwait_block does not look at the state the thread is in.
BlockCurrent(S, c, reason) ==
    LET t == S.cur[c]
    IN  [RemoveFromQueue(S, t) EXCEPT !.th[t].state = "Blocked", !.th[t].waiting_for = reason]

kwait_block(c, reason) ==
    /\ Handler(c, BlockCurrent(sched, c, reason), "syscall")
    /\ SetNeedResched(c)

\* ObWait on a process handle: check and block under one lock.
ProcessGone(S, p) == ThreadsOf(S, p) = {} \/ S.thread_count[p] = 0

cleanup_terminated_process(S, p) ==
    IF is_pid_running_on_any_cpu(S, p) THEN defer_reap(S, p) ELSE RecycleProcesses(S, {p})

ActivateSuspended(S, c, p) ==
    MakeReady(S, c, {t \in ThreadsOf(S, p) : S.th[t].state = "Suspended"})

ObWaitProcess(c, p) ==
    /\ p # PidOf[sched.cur[c]]
    /\ \E t \in Tids : PidOf[t] = p /\ sched.th[t].state # "None"
    /\ IF ProcessGone(sched, p)
       THEN Handler(c, cleanup_terminated_process(sched, p), "syscall") /\ UNCHANGED flags
       ELSE /\ Handler(c, BlockCurrent(ActivateSuspended(sched, c, p), c, <<"ChildExit", p>>),
                       "syscall")
            /\ SetNeedResched(c)

handler_yield(c) ==
    /\ Handler(c, [sched EXCEPT !.th[sched.cur[c]].yield_requested = TRUE], "syscall")
    /\ SetNeedResched(c)

\* terminate_current: the last thread of a process wakes ChildExit waiters and
\* queues the process for reclamation.
terminate_current(S, c) ==
    LET t == S.cur[c]
        p == PidOf[t]
        n == IF S.thread_count[p] > 0 THEN S.thread_count[p] - 1 ELSE 0
        D == [RemoveFromQueue(S, t) EXCEPT !.th[t].state = "Terminated", !.thread_count[p] = n]
        W == IF n = 0 THEN Wake(D, c, <<"ChildExit", p>>) ELSE D
        J == Wake(W, c, <<"ThreadJoin", t>>)
    IN  IF n = 0 THEN defer_reap(J, p) ELSE J

\* The exit of NeoInit returns to the boot thread and leaves the model.
LastThreadOfInit(c) == PidOf[sched.cur[c]] = INIT_PID /\ sched.thread_count[INIT_PID] = 1

handler_exit(c) ==
    /\ ~LastThreadOfInit(c)
    /\ Handler(c, terminate_current(sched, c), "exit")
    /\ SetNeedResched(c)

\* A Ring 3 exception nobody handles, and the reschedule that never returns.
terminate_user_process(c) ==
    /\ ~LastThreadOfInit(c)
    /\ Handler(c, terminate_current(sched, c), "fault")
    /\ UNCHANGED flags

exception_do_resched(c) ==
    LET r == schedule_with_handoff(sched, c, TRUE, FALSE)
    IN  /\ mode[c] = "fault"
        /\ LeaveLock(c, r.s, "user")
        /\ UNCHANGED flags

\* kill_pid and the wake_waiters its callers add: a process that runs nowhere is
\* torn down at once, one that runs is marked Terminated and left to the reaper.
KillRunning(S, p) ==
    LET T == ThreadsOf(S, p)
    IN  defer_reap([S EXCEPT
            !.rq = [c \in Cpus |-> RemoveAll(@[c], {t \in T : S.th[t].cpu = c})],
            !.th = [t \in Tids |-> IF t \in T THEN [@[t] EXCEPT !.state = "Terminated"]
                                   ELSE @[t]]], p)

kill_pid(c, p) ==
    /\ p # INIT_PID
    /\ ThreadsOf(sched, p) # {}
    /\ LET D == IF is_pid_running_on_any_cpu(sched, p) THEN KillRunning(sched, p)
                ELSE RecycleProcesses(sched, {p})
       IN  Handler(c, Wake(D, c, <<"ChildExit", p>>), "syscall")
    /\ UNCHANGED flags

\* ObCreate of a process: its first thread is created Suspended on this CPU.
add_ring3_process(c, p) ==
    LET T == {t \in UserTids : PidOf[t] = p}
    IN  /\ \A t \in T : sched.th[t].state = "None"
        /\ Handler(c, [sched EXCEPT
                !.th[FirstOf(T)] = NewThread("Suspended", c, PRIORITY_NORMAL, "ring3"),
                !.thread_count[p] = 1], "syscall")
        /\ UNCHANGED flags

\* activate_process: the creator publishes the Suspended thread.
activate_process(c, p) ==
    /\ \E t \in ThreadsOf(sched, p) : sched.th[t].state = "Suspended"
    /\ Handler(c, ActivateSuspended(sched, c, p), "syscall")
    /\ UNCHANGED flags

\* ObCreate of a thread in the caller's process, Ready at once.
add_thread_to_process(c) ==
    LET p == PidOf[sched.cur[c]]
        T == {t \in UserTids : PidOf[t] = p /\ sched.th[t].state = "None"}
        t == FirstOf(T)
        D == [sched EXCEPT !.th[t] = NewThread("Suspended", c, PRIORITY_NORMAL, "ring3"),
                           !.thread_count[p] = @ + 1]
    IN  /\ T # {}
        /\ p \notin sched.zombies
        /\ Handler(c, MakeReady(D, c, {t}), "syscall")
        /\ UNCHANGED flags

set_process_priority(c, p, prio) ==
    LET T == ThreadsOf(sched, p)
        Moved == {t \in T : sched.th[t].state = "Ready" /\ sched.th[t].priority # prio}
        th == [t \in Tids |-> IF t \notin T THEN sched.th[t]
                 ELSE [sched.th[t] EXCEPT !.priority = prio, !.base_priority = prio,
                                          !.ticks_since_scheduled = 0]]
    IN  /\ T # {}
        /\ Handler(c, [sched EXCEPT !.th = th,
                         !.rq = RequeueAll(sched.rq, th, Moved),
                         !.ipi = @ \cup {th[t].cpu : t \in {u \in Moved : th[u].cpu # c}}],
                   "syscall")
        /\ UNCHANGED flags

\* --- kernel context ------------------------------------------------------------

\* kwait_wake from a system call, a kernel thread or an interrupt.
kwait_wake(c, e) ==
    LET W == {t \in Tids : /\ sched.th[t].state = "Blocked"
                           /\ sched.th[t].waiting_for = <<"Event", e>>}
    IN  /\ mode[c] \in Interruptible
        /\ W # {}
        /\ sched' = Wake(sched, c, <<"Event", e>>)
        /\ UNCHANGED <<mode, onStack, preempt>>
        /\ SetNeedResched(c)

\* yield_current_thread, called by kernel threads
yield_current_thread(c) ==
    /\ mode[c] = "kernel"
    /\ sched.cur[c] \in KernelTids \ holding
    /\ sched' = [sched EXCEPT !.th[sched.cur[c]].yield_requested = TRUE]
    /\ UNCHANGED <<mode, onStack, preempt>>
    /\ SetNeedResched(c)

\* preempt_disable and preempt_enable around a spin-lock section of kernel code;
\* both act on the counter of the CPU they happen to run on.
preempt_disable(c) ==
    /\ mode[c] \in {"syscall", "kernel"}
    /\ sched.cur[c] \notin holding \cup IdleTids
    /\ PREEMPT_COUNT' = [PREEMPT_COUNT EXCEPT ![c] = (@ + 1) % CountModulus]
    /\ holding' = holding \cup {sched.cur[c]}
    /\ UNCHANGED <<sched, mode, onStack, flags>>

preempt_enable(c) ==
    /\ mode[c] \in {"syscall", "kernel"}
    /\ sched.cur[c] \in holding
    /\ PREEMPT_COUNT' = [PREEMPT_COUNT EXCEPT ![c] = (@ - 1) % CountModulus]
    /\ holding' = holding \ {sched.cur[c]}
    /\ UNCHANGED <<sched, mode, onStack, flags>>

-----------------------------------------------------------------------------
\* The state after boot: NeoInit in Ring 3 on CPU 0, the other CPUs idle, the
\* kernel threads Ready on CPU 0 with the frame init_ring0_frame built.

InitTid == FirstOf({t \in UserTids : PidOf[t] = INIT_PID})

CpuOfIdle(t) == CHOOSE c \in Cpus : IdleTid[c] = t

InitThread(t) ==
    CASE t = InitTid -> NewThread("Running", 0, PRIORITY_NORMAL, "ring3")
      [] t \in IdleTids -> NewThread(IF t = IdleTid[0] THEN "Ready" ELSE "Running",
                                     CpuOfIdle(t), PRIORITY_IDLE, "ring0")
      [] t \in KernelTids -> NewThread(IF "kernel" \in load THEN "Ready" ELSE "None", 0,
                                       PRIORITY_NORMAL, "ring0")
      [] OTHER -> NewThread("None", 0, PRIORITY_NORMAL, "ring3")

InitSched ==
    LET th == [t \in Tids |-> InitThread(t)]
    IN  [th |-> th,
         rq |-> EnqueueAll([c \in Cpus |-> EmptyQueue], th,
                          {t \in KernelTids : th[t].state = "Ready"}),
         cur |-> [c \in Cpus |-> IF c = 0 THEN InitTid ELSE IdleTid[c]],
         switch_out |-> [c \in Cpus |-> NoTid],
         thread_count |-> [p \in UserPids |-> IF p = INIT_PID THEN 1 ELSE 0],
         zombies |-> {},
         quarantine |-> {},
         ipi |-> {}]

Init ==
    /\ load \in Loads
    /\ sched = InitSched
    /\ mode = [c \in Cpus |-> IF c = 0 THEN "user" ELSE "kernel"]
    /\ onStack = sched.cur
    /\ need_resched = [c \in Cpus |-> FALSE]
    /\ NEED_RESCHED = FALSE
    /\ PREEMPT_COUNT = [c \in Cpus |-> 0]
    /\ holding = {}

Joinable(c) ==
    {t \in UserTids : /\ PidOf[t] = PidOf[sched.cur[c]]
                      /\ t # sched.cur[c]
                      /\ sched.th[t].state # "None"}

Syscall(c) ==
    \/ "other" \in load /\ OtherSyscall(c)
    \/ "yield" \in load /\ handler_yield(c)
    \/ "exit" \in load /\ handler_exit(c)
    \/ "block" \in load /\ \E e \in Events : kwait_block(c, <<"Event", e>>)
    \/ "join" \in load /\ \E t \in Joinable(c) : kwait_block(c, <<"ThreadJoin", t>>)
    \/ "wait" \in load /\ \E p \in UserPids : ObWaitProcess(c, p)
    \/ "spawn" \in load /\ \E p \in UserPids : add_ring3_process(c, p)
    \/ "activate" \in load /\ \E p \in UserPids : activate_process(c, p)
    \/ "thread" \in load /\ add_thread_to_process(c)
    \/ "kill" \in load /\ \E p \in UserPids : kill_pid(c, p)
    \/ /\ "priority" \in load
       /\ \E p \in UserPids, prio \in SetPrios : set_process_priority(c, p, prio)

Aging == IF "aging" \in load THEN AgingTicks ELSE {FALSE}

Step(c) ==
    \/ \E expired \in BOOLEAN, aging \in Aging : TimerTick(c, expired, aging)
    \/ FinishSwitch(c)
    \/ DeliverIpi(c)
    \/ Syscall(c)
    \/ SyscallReturn(c)
    \/ "fault" \in load /\ terminate_user_process(c)
    \/ exception_do_resched(c)
    \/ \E e \in Events : kwait_wake(c, e)
    \/ "kyield" \in load /\ yield_current_thread(c)
    \/ "section" \in load /\ preempt_disable(c)
    \/ preempt_enable(c)

Next == (\E c \in Cpus : Step(c)) /\ UNCHANGED load

Spec == Init /\ [][Next]_vars

-----------------------------------------------------------------------------
ThreadStates == {"None", "Suspended", "Ready", "Running", "Blocked", "Terminated", "Reaped"}

Threads ==
    [state : ThreadStates, cpu : Cpus, priority : Priorities, base_priority : Priorities,
     waiting_for : Reasons \cup {NoReason}, yield_requested : BOOLEAN,
     ticks_since_scheduled : 0..MAX_STARVATION, frame : {"ring0", "ring3"}]

\* The types of the scheduler state and of what each CPU does outside the lock.
TypeOK ==
    /\ DOMAIN sched = {"th", "rq", "cur", "switch_out", "thread_count", "zombies",
                       "quarantine", "ipi"}
    /\ sched.th \in [Tids -> Threads]
    /\ \A c \in Cpus, p \in Priorities : /\ Elements(sched.rq[c][p]) \subseteq Tids \ IdleTids
                                         /\ Len(sched.rq[c][p]) <= RUNQUEUE_PRIO_CAP
    /\ sched.cur \in [Cpus -> Tids]
    /\ sched.switch_out \in [Cpus -> Tids \cup {NoTid}]
    /\ sched.thread_count \in [UserPids -> 0..Cardinality(UserTids)]
    /\ sched.zombies \subseteq UserPids
    /\ sched.quarantine \subseteq UserTids
    /\ sched.ipi \subseteq Cpus
    /\ mode \in [Cpus -> Interruptible \cup {"fault", "switch"}]
    /\ onStack \in [Cpus -> Tids]
    /\ need_resched \in [Cpus -> BOOLEAN]
    /\ NEED_RESCHED \in BOOLEAN
    /\ PREEMPT_COUNT \in [Cpus -> 0..CountModulus - 1]
    /\ holding \subseteq Tids \ IdleTids
    /\ load \in Loads

\* No thread is the current thread of two CPUs: candidate_owned_elsewhere, checked
\* at every dispatch, is enough whatever wakes, steals and reverts come between.
OneOwner == \A c, d \in Cpus : sched.cur[c] = sched.cur[d] => c = d

\* A thread marked Running is the current thread of the CPU it is assigned to, so
\* that no code path (revert, hand-off, steal) leaves a thread Running nowhere.
RunningIsCurrent ==
    \A t \in Tids : sched.th[t].state = "Running" =>
        sched.cur[sched.th[t].cpu] = t

\* Every live thread in a run queue is Ready, waits in the queue of the CPU it is
\* assigned to, at the level of its priority, and is there once.
QueueSound ==
    \A c \in Cpus :
        /\ \A p \in Priorities : \A t \in Elements(sched.rq[c][p]) : Exists(sched, t) =>
              LET k == sched.th[t] IN k.state = "Ready" /\ k.cpu = c /\ k.priority = p
        /\ Cardinality(QueuedTids(sched.rq[c])) = Len(Flat(sched.rq[c]))

\* A Ready thread is in the run queue of its CPU (no queue being full).
ReadyIsQueued ==
    \A t \in Tids \ IdleTids : sched.th[t].state = "Ready" =>
        t \in QueuedTids(sched.rq[sched.th[t].cpu])

\* A user thread that waits for a CPU can be dispatched from Ring 3: the #338
\* gate never lets a frame of the inside of a system call be published.
ReadyFrame ==
    \A t \in UserTids :
        /\ sched.th[t].state \in {"Ready", "Blocked", "Suspended"}
        /\ PidOf[t] \notin sched.zombies
        /\ \A c \in Cpus : sched.cur[c] # t
        => sched.th[t].frame = "ring3"

\* No CPU executes on a kernel stack that was freed, not even between the KPRCB
\* update and `mov rsp': exclude_pid, is_pid_running_on_any_cpu and the
\* quarantine together cover every instant of a switch.
NoFreedStackInUse == \A c \in Cpus : onStack[c] \notin FreedStacks(sched)

\* Outside the switch window a CPU runs on the stack of the thread its KPRCB names,
\* which save_live_rsp_checked relies on when it stores the live rsp.
StackMatchesKprcb == \A c \in Cpus : mode[c] # "switch" => onStack[c] = sched.cur[c]

\* No thread is descheduled inside a preempt_disable section, and the counter of a
\* CPU is that of the thread it runs.
SectionsStayOnCpu ==
    /\ \A t \in holding : \E c \in Cpus : sched.cur[c] = t
    /\ \A c \in Cpus : PREEMPT_COUNT[c] = IF sched.cur[c] \in holding THEN 1 ELSE 0

\* A thread blocked in ObWait on a process has someone left to wake it: the
\* process is not torn down while a ChildExit waiter is still Blocked.  (kill_pid
\* of a running process does not give this to a wait that begins before the reaper
\* comes: the thread count is still positive, and the reaper wakes nobody.)
WaiterHasChild ==
    "kill" \notin load => \A t \in UserTids, p \in UserPids :
        sched.th[t].state = "Blocked" /\ sched.th[t].waiting_for = <<"ChildExit", p>>
        => ThreadsOf(sched, p) # {}

\* thread_count is the number of threads of the process that have not ended, so
\* exactly the last exit wakes the waiters and queues the process for the reaper.
ThreadCountMatches ==
    "kill" \notin load => \A p \in UserPids :
        sched.thread_count[p] =
            Cardinality({t \in ThreadsOf(sched, p) : sched.th[t].state # "Terminated"})

\* A CPU turns to its idle thread only if no thread could be dispatched there, or
\* to hand off to a starved kernel thread (#355): a full run queue hides no thread.
IdlesForLack ==
    \A c \in Cpus : sched.cur[c] # IdleTid[c] /\ sched'.cur[c] = IdleTid[c] =>
        \/ ScanCandidates(sched', c, TRUE) = {}
        \/ kernel_thread_starved(sched', c)

\* A Blocked thread does not execute in Ring 3.
BlockedNotInUser ==
    \A c \in Cpus : mode[c] = "user" => sched.th[sched.cur[c]].state # "Blocked"

\* No two CPUs execute on the same kernel stack.
StackExclusive == \A c, d \in Cpus : onStack[c] = onStack[d] => c = d

-----------------------------------------------------------------------------
\* The timer is periodic and slices are finite, so a CPU that goes on without a
\* switch takes an expiring tick; code in Ring 0 ends in finitely many steps.
\* The expiring tick would change something: ENABLED <<TimerTick(c, TRUE, _)>>_vars.
ExpiryActs(c) ==
    /\ mode[c] \in Interruptible
    /\ \E aging \in Aging :
          LET Acts(r) == \/ r.s # sched
                         \/ r.global /\ ~NEED_RESCHED
                         \/ r.local /\ ~need_resched[c]
          IN  Acts(timer_handler_inner(c, TRUE, aging))
=============================================================================
