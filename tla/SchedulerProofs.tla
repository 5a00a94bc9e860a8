--------------------------- MODULE SchedulerProofs ---------------------------
(***************************************************************************)
(* Kernel stacks are reclaimed safely and no thread runs on two CPUs, for  *)
(* every number of CPUs, threads and processes and however full the run    *)
(* queues are.  The inductive invariant says that the stack under a CPU is *)
(* either the one of its current thread, which is alive, or the one its    *)
(* switch marker names; that no two CPUs name one thread, and none the     *)
(* idle thread of another; and, because VALIDATE does not ask whether its  *)
(* candidate is an idle thread, that no run queue holds one.               *)
(***************************************************************************)
EXTENDS DispatchProofs

-----------------------------------------------------------------------------
\* The handlers that switch threads.

\* R is a safe outcome of a handler on CPU c.
Switches(S, R, o, c) == StacksSafe(R, o) /\ OnlyCpu(S, R, c)

\* A quiet change is a switch on which the CPU keeps its thread.
LEMMA QuietSwitches ==
    ASSUME NEW S, NEW o, StacksSafe(S, o), NEW c, NEW R, Quiet(S, R)
    PROVE  Switches(S, R, o, c)
  BY QuietSafe DEF Switches, Quiet, OnlyCpu

\* A switch after a quiet change is a switch.
LEMMA SwitchesAfterQuiet ==
    ASSUME NEW S, NEW Q, NEW R, NEW o, NEW c, Quiet(S, Q), Switches(Q, R, o, c)
    PROVE  Switches(S, R, o, c)
  BY DEF Switches, Quiet, OnlyCpu

\* A quiet change after a switch is still that switch.
LEMMA SwitchesThenQuiet ==
    ASSUME NEW S, NEW Q, NEW R, NEW o, NEW c, Switches(S, Q, o, c), Quiet(Q, R)
    PROVE  Switches(S, R, o, c)
  BY QuietSafe DEF Switches, Quiet, OnlyCpu

\* Going back to the interrupted thread, whose stack was never left, is safe.
LEMMA RevertIsSafe ==
    ASSUME NEW S, NEW o \in [Cpus -> Tids], StacksSafe(S, o), NEW c \in Cpus,
           NEW n \in Tids, NEW t, t = o[c], Free(S, c, t)
    PROVE  Switches(S, RevertDispatch(S, c, n, t), o, c)
  <1> DEFINE A == [S EXCEPT !.th[n].state = "Ready"]
             B == Enqueue(A, c, {n})
             C == RemoveFromQueue(B, t)
             D == [C EXCEPT !.th[t].state = "Running"]
  <1>1. Quiet(S, A)
    BY QuietState DEF StacksSafe, ThreadStates
  <1>2. RevertDispatch(S, c, n, t) = SetCurrent(D, c, t)
    BY DEF RevertDispatch
  <1> HIDE DEF A
  <1>3. Quiet(S, B)
    <2>1. {n} \subseteq Tids
      OBVIOUS
    <2> QED
      BY <1>1, <2>1, QuietEnqueue, QuietTrans, QuietFacts
  <1> HIDE DEF B
  <1>4. Quiet(S, C)
    BY <1>3, QuietRemove, QuietTrans, QuietFacts
  <1> HIDE DEF C
  <1>5. t \in Tids
    OBVIOUS
  <1>6. Quiet(C, D) /\ Exists(D, t)
    <2>1. WellFormed(C)
      BY <1>4, QuietFacts
    <2>2. Quiet(C, D)
      BY <1>5, <2>1, QuietState DEF ThreadStates
    <2>3. Exists(D, t)
      BY <1>5, <2>1 DEF WellFormed, Fields, IsThread, ThreadFields, Exists
    <2> QED
      BY <2>2, <2>3
  <1> HIDE DEF D
  <1>7. Quiet(S, D)
    BY <1>4, <1>6, QuietTrans
  <1>8. StacksSafe(D, o)
    BY <1>7, QuietSafe
  <1>8a. Free(D, c, t)
    BY <1>7, QuietFacts DEF Free, candidate_owned_elsewhere
  <1>9. Switches(D, SetCurrent(D, c, t), o, c)
    BY <1>5, <1>6, <1>8, <1>8a, SafeSetCurrent DEF Switches
  <1> QED
    BY <1>2, <1>7, <1>9, SwitchesAfterQuiet

\* The interrupted user thread is still this CPU's after a selection.
LEMMA StillFree ==
    ASSUME NEW S, NEW o, StacksSafe(S, o), NEW c \in Cpus, NEW P, Quiet(S, P),
           NEW R, Switches(P, R, o, c), S.cur[c] \in UserTids
    PROVE  Free(R, c, S.cur[c])
  <1>1. S.cur[c] \notin IdleTids
    BY ConstantsAssumption
  <1>2. \A d \in Cpus \ {c} : R.cur[d] = S.cur[d]
    BY QuietFacts DEF Switches, OnlyCpu
  <1> QED
    BY <1>1, <1>2 DEF StacksSafe, Owned, Free, candidate_owned_elsewhere

\* The state in which the preemption paths call schedule: the frame is saved and the
\* thread, if Running, is published.
LEMMA QuietPublished ==
    ASSUME NEW S, WellFormed(S), NEW c, NEW t \in Tids, Exists(S, t), NEW frame,
           t \in UserTids \/ frame = S.th[t].frame
    PROVE  Quiet(S, PublishIfRunning(SaveFrame(S, c, t, frame), c, t))
  <1> DEFINE F == SaveFrame(S, c, t, frame)
  <1>1. Quiet(S, F)
    BY QuietSaveFrame
  <1> HIDE DEF F
  <1>2. Quiet(F, PublishIfRunning(F, c, t))
    BY <1>1, QuietPublish, QuietFacts
  <1>3. Quiet(S, PublishIfRunning(F, c, t))
    BY <1>1, <1>2, QuietTrans
  <1> QED
    BY <1>3 DEF F

\* Preemption from Ring 3.
LEMMA PreemptUserIsSafe ==
    ASSUME NEW S, NEW o \in [Cpus -> Tids], StacksSafe(S, o), NEW c \in Cpus,
           S.cur[c] = o[c], S.cur[c] \in UserTids
    PROVE  Switches(S, PreemptUser(S, c), o, c)
  <1> DEFINE t == S.cur[c]
             P == PublishIfRunning(SaveFrame(S, c, t, "ring3"), c, t)
             r == schedule_with_handoff(P, c, TRUE, TRUE)
  <1>1. t \in Tids /\ Exists(S, t) /\ t = o[c]
    BY DEF StacksSafe, WellFormed
  <1>2. Quiet(S, P)
    BY <1>1, QuietPublished DEF StacksSafe
  <1>3. PreemptUser(S, c) = r.s \/ PreemptUser(S, c) = RevertDispatch(r.s, c, r.next, t)
    BY Zenon DEF PreemptUser, SelectRing3, AcceptOrRevert
  <1> HIDE DEF P, t
  <1>4. Scheduled(P, r, o, c, TRUE)
    BY Zenon, <1>2, QuietSafe, ScheduleIsSafe, QuietFacts
  <1> HIDE DEF r
  <1>5. Switches(P, r.s, o, c) /\ r.next \in Tids
    BY <1>4 DEF Scheduled, Switches
  <1>5a. Free(r.s, c, t)
    BY <1>2, <1>5, StillFree DEF t
  <1>6. Switches(r.s, RevertDispatch(r.s, c, r.next, t), o, c)
    BY <1>1, <1>5, <1>5a, RevertIsSafe DEF Switches
  <1>7. Switches(P, PreemptUser(S, c), o, c)
    BY <1>3, <1>5, <1>6 DEF Switches, OnlyCpu
  <1> QED
    BY <1>2, <1>7, SwitchesAfterQuiet

\* Preemption of the idle thread.
LEMMA PreemptIdleIsSafe ==
    ASSUME NEW S, NEW o \in [Cpus -> Tids], StacksSafe(S, o), NEW c \in Cpus,
           S.cur[c] = o[c], S.cur[c] \notin UserTids
    PROVE  Switches(S, PreemptIdle(S, c), o, c)
  <1> DEFINE t == S.cur[c]
             k == [S.th[t] EXCEPT !.frame = "ring0"]
             P == [S EXCEPT !.th[t] = k]
             r == schedule_with_handoff(P, c, FALSE, FALSE)
             l == [r.s.th[r.next] EXCEPT !.ticks_since_scheduled = 0]
             R == [r.s EXCEPT !.th[r.next] = l]
  <1>1. t \in Tids /\ Exists(S, t)
    BY DEF StacksSafe, WellFormed
  <1>2. IsThread(k) /\ k.frame = S.th[t].frame /\ k.state = S.th[t].state
    BY <1>1 DEF StacksSafe, WellFormed, IsThread, ThreadFields
  <1>3. [S EXCEPT !.th[t].frame = "ring0"] = P
    BY DEF StacksSafe, WellFormed, Fields
  <1> HIDE DEF k
  <1>4. Quiet(S, P)
    BY <1>1, <1>2, QuietThread DEF StacksSafe, Exists
  <1>5. PreemptIdle(S, c) = [r.s EXCEPT !.th[r.next].ticks_since_scheduled = 0]
    BY Zenon, <1>3 DEF PreemptIdle, RestartSlice
  <1> HIDE DEF P, t
  <1>6. Scheduled(P, r, o, c, FALSE)
    BY Zenon, <1>4, QuietSafe, ScheduleIsSafe, QuietFacts
  <1> HIDE DEF r
  <1>7. Switches(P, r.s, o, c) /\ r.next \in Tids /\ WellFormed(r.s)
    BY <1>6 DEF Scheduled, Switches, StacksSafe
  <1>8. IsThread(l) /\ l.frame = r.s.th[r.next].frame /\ l.state = r.s.th[r.next].state
    BY <1>7 DEF WellFormed, IsThread, ThreadFields
  <1>9. PreemptIdle(S, c) = R
    BY <1>5, <1>7 DEF WellFormed, Fields
  <1> HIDE DEF l
  <1>10. Quiet(r.s, R)
    BY <1>7, <1>8, QuietThread DEF Exists
  <1> HIDE DEF R
  <1> QED
    BY <1>4, <1>7, <1>9, <1>10, SwitchesThenQuiet, SwitchesAfterQuiet

\* Preemption of a kernel thread, or of a thread whose process has ended.
LEMMA PreemptKernelIsSafe ==
    ASSUME NEW S, NEW o \in [Cpus -> Tids], StacksSafe(S, o), NEW c \in Cpus,
           S.cur[c] = o[c]
    PROVE  Switches(S, PreemptKernel(S, c), o, c)
  <1> DEFINE t == S.cur[c]
             P == PublishIfRunning(SaveFrame(S, c, t, "ring0"), c, t)
  <1>1. t \in Tids /\ Exists(S, t) /\ (t \in UserTids \/ "ring0" = S.th[t].frame)
    BY DEF StacksSafe, WellFormed
  <1>2. Quiet(S, P)
    BY <1>1, QuietPublished DEF StacksSafe
  <1>3. PreemptKernel(S, c) = schedule_with_handoff(P, c, FALSE, FALSE).s
    BY Zenon DEF PreemptKernel
  <1> HIDE DEF P
  <1>4. Scheduled(P, schedule_with_handoff(P, c, FALSE, FALSE), o, c, FALSE)
    BY Zenon, <1>2, QuietSafe, ScheduleIsSafe, QuietFacts
  <1> QED
    BY Zenon, <1>2, <1>3, <1>4, SwitchesAfterQuiet DEF Scheduled, Switches

\* A thread that goes on leaves the run queue.
LEMMA QuietKeepRunning ==
    ASSUME NEW S, WellFormed(S), NEW c \in Cpus
    PROVE  Quiet(S, KeepRunning(S, c))
  <1> DEFINE t == S.cur[c]
             Q == RemoveFromQueue(S, t)
             R == [Q EXCEPT !.th[t].state = "Running"]
  <1>1. t \in Tids
    BY DEF WellFormed
  <1>2. Quiet(S, Q)
    BY QuietRemove
  <1>3. KeepRunning(S, c) = S \/ KeepRunning(S, c) = R
    BY Zenon DEF KeepRunning
  <1> HIDE DEF Q, t
  <1>4. Quiet(Q, R)
    BY <1>1, <1>2, QuietState, QuietFacts DEF ThreadStates
  <1> HIDE DEF R
  <1> QED
    BY <1>2, <1>3, <1>4, QuietTrans, QuietSelf

\* Aging changes priorities and queues.
LEMMA QuietAging ==
    ASSUME NEW S, WellFormed(S), NEW c
    PROVE  Quiet(S, apply_aging(S, c))
  <1> DEFINE Rd == {t \in Tids \ IdleTids : S.th[t].state = "Ready"}
             Older(t) == IF S.th[t].ticks_since_scheduled < MAX_STARVATION
                         THEN S.th[t].ticks_since_scheduled + 1
                         ELSE MAX_STARVATION
             B == {t \in Rd : Older(t) >= MAX_STARVATION /\ S.th[t].priority > 0}
             th == [t \in Tids |->
                     CASE t \in B -> [S.th[t] EXCEPT !.ticks_since_scheduled = 0,
                                                    !.priority = @ - 1]
                       [] t \in Rd \ B -> [S.th[t] EXCEPT !.ticks_since_scheduled = Older(t)]
                       [] OTHER -> S.th[t]]
             q == RequeueAll(S.rq, th, B)
             i == S.ipi \cup {th[t].cpu : t \in {u \in B : th[u].cpu # c}}
  <1>1. apply_aging(S, c) = [S EXCEPT !.th = th, !.rq = q, !.ipi = i]
    BY Zenon DEF apply_aging
  <1>1a. Levelled(th) => q \in Queues
    <2>1. B \subseteq Tids
      OBVIOUS
    <2> HIDE DEF th, B
    <2> QED
      BY <2>1, RequeueAllTyped DEF WellFormed
  <1> HIDE DEF q, i
  <1>2. QuietTable(S, th)
    <2> SUFFICES ASSUME NEW t \in Tids
                 PROVE  /\ IsThread(th[t])
                        /\ th[t].state = S.th[t].state
                        /\ th[t].frame = S.th[t].frame
      BY Zenon DEF QuietTable, Exists
    <2>1. CASE t \in B
      <3>1. S.th[t].priority - 1 \in Priorities
        BY <2>1 DEF WellFormed, IsThread, Priorities
      <3>2. th[t] = [S.th[t] EXCEPT !.ticks_since_scheduled = 0, !.priority = @ - 1]
        BY <2>1
      <3> HIDE DEF th
      <3> QED
        BY <3>1, <3>2 DEF WellFormed, IsThread, ThreadFields
    <2>2. CASE t \in Rd \ B
      <3>1. th[t] = [S.th[t] EXCEPT !.ticks_since_scheduled = Older(t)]
        BY <2>2
      <3> HIDE DEF th, Older
      <3> QED
        BY <3>1 DEF WellFormed, IsThread, ThreadFields
    <2>3. CASE t \notin Rd
      <3>1. th[t] = S.th[t]
        BY <2>3
      <3> HIDE DEF th
      <3> QED
        BY <3>1 DEF WellFormed
    <2> QED
      BY Zenon, <2>1, <2>2, <2>3
  <1> DEFINE N == [S EXCEPT !.th = th]
             M == [N EXCEPT !.rq = q, !.ipi = i]
  <1>3. Quiet(S, N)
    BY Zenon, <1>2, QuietThreads
  <1> HIDE DEF th
  <1>4. apply_aging(S, c) = M
    BY <1>1 DEF WellFormed, Fields
  <1>4a. q \in Queues
    BY <1>1a, <1>2 DEF QuietTable, IsThread, Levelled
  <1> HIDE DEF N
  <1>5. Quiet(N, M)
    BY Zenon, <1>3, <1>4a, QuietQueues, QuietFacts
  <1> QED
    BY <1>3, <1>4, <1>5, QuietTrans

-----------------------------------------------------------------------------
\* The inductive invariant.

InUserThread == {"user", "syscall", "exit", "fault"}

\* The stacks are safe; the marker of a CPU is set only inside the switch window;
\* and only a user thread is in Ring 3 or in a system call.
StackInv ==
    /\ onStack \in [Cpus -> Tids]
    /\ StacksSafe(sched, onStack)
    /\ mode \in [Cpus -> InUserThread \cup {"kernel", "switch"}]
    /\ \A c \in Cpus : mode[c] # "switch" => sched.switch_out[c] = NoTid
    /\ \A c \in Cpus : mode[c] \in InUserThread => sched.cur[c] \in UserTids

\* The invariant implies the properties.
LEMMA StackInvImplies ==
    ASSUME StackInv
    PROVE  NoFreedStackInUse /\ StackMatchesKprcb /\ OneOwner
  <1>1. NoTid \notin Tids
    BY ConstantsAssumption DEF NoTid
  <1> QED
    BY <1>1 DEF StackInv, StacksSafe, NoFreedStackInUse, StackMatchesKprcb, OneOwner, Owned

\* A CPU leaves the locked section after a safe switch.
LEMMA LeaveLockKeeps ==
    ASSUME StackInv, NEW c \in Cpus, mode[c] # "switch",
           NEW S, Switches(sched, S, onStack, c),
           NEW same \in InUserThread \cup {"kernel"},
           same \in InUserThread => sched.cur[c] \in UserTids,
           LeaveLock(c, S, same)
    PROVE  StackInv'
  <1>1. NoTid \notin Tids
    BY ConstantsAssumption DEF NoTid
  <1>2. sched' = S /\ onStack' = onStack /\ mode' \in [Cpus -> InUserThread \cup {"kernel", "switch"}]
    BY DEF LeaveLock, StackInv
  <1>3. mode'[c] = IF S.switch_out[c] = NoTid THEN same ELSE "switch"
    BY DEF LeaveLock, StackInv
  <1>4. \A d \in Cpus \ {c} : mode'[d] = mode[d]
    BY DEF LeaveLock, StackInv
  <1>5. S.switch_out[c] = NoTid => S.cur[c] = sched.cur[c]
    <2>1. onStack[c] = sched.cur[c] /\ onStack[c] \in Tids
      BY StackInvImplies DEF StackInv, StackMatchesKprcb
    <2>2. onStack[c] = S.cur[c] \/ S.switch_out[c] = onStack[c]
      BY DEF Switches, StacksSafe
    <2> QED
      BY <1>1, <2>1, <2>2
  <1>6. \A d \in Cpus : mode'[d] # "switch" => S.switch_out[d] = NoTid
    BY <1>3, <1>4 DEF StackInv, Switches, OnlyCpu
  <1>7. \A d \in Cpus : mode'[d] \in InUserThread => S.cur[d] \in UserTids
    BY <1>3, <1>4, <1>5 DEF StackInv, Switches, OnlyCpu, InUserThread
  <1> QED
    BY <1>2, <1>6, <1>7 DEF StackInv, Switches

\* A handler that keeps the stacks safe and switches nothing.
LEMMA HandlerKeeps ==
    ASSUME StackInv, NEW c \in Cpus, NEW S, StacksSafe(S, onStack),
           S.cur = sched.cur, S.switch_out = sched.switch_out,
           NEW m \in InUserThread, Handler(c, S, m)
    PROVE  StackInv'
  <1>1. /\ sched' = S /\ onStack' = onStack /\ mode[c] = "user"
        /\ mode' = [mode EXCEPT ![c] = m]
    BY DEF Handler
  <1>2. /\ mode' \in [Cpus -> InUserThread \cup {"kernel", "switch"}]
        /\ mode'[c] = m
        /\ \A d \in Cpus \ {c} : mode'[d] = mode[d]
    BY <1>1 DEF StackInv
  <1>3. \A d \in Cpus : mode'[d] # "switch" => S.switch_out[d] = NoTid
    BY <1>1, <1>2 DEF StackInv
  <1>4. \A d \in Cpus : mode'[d] \in InUserThread => S.cur[d] \in UserTids
    BY <1>1, <1>2 DEF StackInv, InUserThread
  <1> QED
    BY <1>1, <1>2, <1>3, <1>4 DEF StackInv

\* The same for a quiet change.
LEMMA QuietHandlerKeeps ==
    ASSUME StackInv, NEW c \in Cpus, NEW S, Quiet(sched, S),
           NEW m \in InUserThread, Handler(c, S, m)
    PROVE  StackInv'
  <1>1. StacksSafe(S, onStack) /\ S.cur = sched.cur /\ S.switch_out = sched.switch_out
    BY QuietSafe, QuietFacts DEF StackInv
  <1> QED
    BY <1>1, HandlerKeeps

\* A quiet change that leaves the CPUs alone.
LEMMA QuietStepKeeps ==
    ASSUME StackInv, Quiet(sched, sched'), UNCHANGED <<mode, onStack>>
    PROVE  StackInv'
  <1>1. StacksSafe(sched', onStack)
    BY QuietSafe DEF StackInv
  <1> QED
    BY <1>1, QuietFacts DEF StackInv

-----------------------------------------------------------------------------
\* One lemma per action.

\* Each of the four exits of the timer handler.
LEMMA TimerResultIsSafe ==
    ASSUME NEW S, NEW o \in [Cpus -> Tids], StacksSafe(S, o), NEW c \in Cpus,
           S.cur[c] = o[c], NEW user, user => S.cur[c] \in UserTids
    PROVE  Switches(S, TimerResult(S, c, TimerPath(S, c, user)), o, c)
  <1> DEFINE path == TimerPath(S, c, user)
  <1>1. path \in {"user", "idle", "kernel", "fall", "stay"}
    BY DEF TimerPath
  <1>2. path = "user" => user
    BY DEF TimerPath
  <1>3. path = "idle" => S.cur[c] \notin UserTids
    <2>1. UserTids \cap IdleTids = {}
      BY ConstantsAssumption
    <2>2. path = "idle" => S.cur[c] \in IdleTids
      BY DEF TimerPath
    <2> QED
      BY <2>1, <2>2
  <1> HIDE DEF path
  <1> SUFFICES Switches(S, TimerResult(S, c, path), o, c)
    BY DEF path
  <1>4. CASE path = "user"
    <2>1. TimerResult(S, c, path) = PreemptUser(S, c)
      BY <1>4 DEF TimerResult
    <2> QED
      BY <1>2, <1>4, <2>1, PreemptUserIsSafe
  <1>5. CASE path = "idle"
    <2>1. TimerResult(S, c, path) = PreemptIdle(S, c)
      BY <1>5 DEF TimerResult
    <2> QED
      BY <1>3, <1>5, <2>1, PreemptIdleIsSafe
  <1>6. CASE path = "kernel"
    <2>1. TimerResult(S, c, path) = PreemptKernel(S, c)
      BY <1>6 DEF TimerResult
    <2> QED
      BY <2>1, PreemptKernelIsSafe
  <1>7. CASE path = "fall"
    <2>1. TimerResult(S, c, path) = KeepRunning(S, c)
      BY <1>7 DEF TimerResult
    <2> QED
      BY <2>1, QuietKeepRunning, QuietSwitches DEF StacksSafe
  <1>8. CASE path = "stay"
    <2>1. TimerResult(S, c, path) = S
      BY <1>8 DEF TimerResult
    <2> QED
      BY <2>1, QuietSelf, QuietSwitches DEF StacksSafe
  <1> QED
    BY <1>1, <1>4, <1>5, <1>6, <1>7, <1>8

\* The timer interrupt.
LEMMA TimerTickKeeps ==
    ASSUME StackInv, NEW c \in Cpus, NEW expired, NEW aging, TimerTick(c, expired, aging)
    PROVE  StackInv'
  <1> DEFINE user == mode[c] = "user"
             frame == IF user THEN "ring3" ELSE "ring0"
             A == IF aging THEN apply_aging(sched, c) ELSE sched
             D == on_timer_tick(A, c, frame, expired, PREEMPT_COUNT[c] > 0)
             R == TimerResult(D, c, TimerPath(D, c, user))
  <1>1. mode[c] \in Interruptible /\ LeaveLock(c, R, mode[c])
    BY Zenon DEF TimerTick, LeaveTimer, timer_handler_inner, AfterAging, TimerOutcome
  <1>2. /\ mode[c] # "switch" /\ mode[c] \in InUserThread \cup {"kernel"}
        /\ sched.cur[c] = onStack[c]
        /\ user => sched.cur[c] \in UserTids
    BY Zenon, <1>1, StackInvImplies DEF StackInv, StackMatchesKprcb, Interruptible, InUserThread
  <1>3. Quiet(sched, A)
    BY QuietAging, QuietSelf DEF StackInv, StacksSafe
  <1> HIDE DEF A
  <1>4. StacksSafe(A, onStack) /\ A.cur = sched.cur /\ WellFormed(A)
    BY <1>3, QuietSafe, QuietFacts DEF StackInv
  <1>5. A.cur[c] \in UserTids \/ frame = A.th[A.cur[c]].frame
    BY <1>2, <1>4 DEF StacksSafe, WellFormed
  <1>6. Quiet(A, D)
    BY <1>4, <1>5, QuietTick
  <1> HIDE DEF D, frame
  <1>7. StacksSafe(D, onStack) /\ D.cur = sched.cur /\ Quiet(sched, D)
    BY <1>3, <1>4, <1>6, QuietSafe, QuietTrans, QuietFacts
  <1>8. Switches(D, R, onStack, c)
    BY Zenon, <1>2, <1>7, TimerResultIsSafe DEF StackInv
  <1> HIDE DEF R
  <1>9. Switches(sched, R, onStack, c)
    BY <1>7, <1>8, SwitchesAfterQuiet
  <1> QED
    BY <1>1, <1>2, <1>9, LeaveLockKeeps DEF StackInv

\* The return path of a system call: a refused dispatch is the idle thread with
\* nothing to fall back to, so the KPRCB is never repointed twice to a third thread.
LEMMA ReschedIsSafe ==
    ASSUME NEW S, NEW o \in [Cpus -> Tids], StacksSafe(S, o), NEW c \in Cpus,
           S.cur[c] = o[c], S.cur[c] \in UserTids
    PROVE  Switches(S, syscall_try_resched(S, c), o, c)
  <1> DEFINE t == S.cur[c]
             P == PublishIfRunning(SaveFrame(S, c, t, "ring3"), c, t)
             r == schedule_with_handoff(P, c, TRUE, TRUE)
             accepted == r.s.th[r.next].frame = "ring3" \/ accept_non_ring3_dispatch(r)
             A == [r.s EXCEPT !.th[r.next].state = "Ready"]
             B == Enqueue(A, c, {r.next})
             F == SwitchToFallback(B, c)
             V == RevertDispatch(r.s, c, r.next, t)
  <1>1. t \in Tids /\ Exists(S, t) /\ t = o[c]
    BY DEF StacksSafe, WellFormed
  <1>2. Quiet(S, P)
    BY <1>1, QuietPublished DEF StacksSafe
  <1>3. syscall_try_resched(S, c) =
          IF accepted THEN r.s
          ELSE IF r.s.th[t].state \in {"Blocked", "Terminated"} THEN F ELSE V
    BY Zenon DEF syscall_try_resched, SelectRing3, AcceptOrGoOn
  <1> HIDE DEF P, t
  <1>4. Scheduled(P, r, o, c, TRUE)
    BY Zenon, <1>2, QuietSafe, ScheduleIsSafe, QuietFacts
  <1> HIDE DEF r
  <1>5. Switches(P, r.s, o, c) /\ r.next \in Tids /\ WellFormed(r.s)
    BY <1>4 DEF Scheduled, Switches, StacksSafe
  <1>5a. Free(r.s, c, t)
    BY <1>2, <1>5, StillFree DEF t
  <1>6. Switches(r.s, V, o, c)
    BY <1>1, <1>5, <1>5a, RevertIsSafe DEF Switches
  <1>7. ASSUME ~accepted PROVE Switches(r.s, F, o, c)
    <2> DEFINE i == IdleTid[c]
               N == [B EXCEPT !.th[i].state = "Running"]
    <2>1. r.next = i /\ r.s.cur[c] = i /\ NoFallback(r.s, c)
      BY <1>4, <1>7 DEF Scheduled
    <2>2. i \in IdleTids /\ i \in Tids /\ UserTids \cap IdleTids = {}
      BY ConstantsAssumption DEF IdleTids, Tids
    <2>3. Quiet(r.s, A)
      BY Zenon, <1>5, QuietState DEF ThreadStates
    <2>4. \A u \in Tids \ {i} : A.th[u] = r.s.th[u]
      BY <1>5, <2>1 DEF WellFormed, Fields
    <2> HIDE DEF A
    <2>5. B.th = A.th
      BY <2>3, QuietFacts DEF Enqueue, WellFormed, Fields
    <2>6. Quiet(r.s, B)
      <3>1. {r.next} \subseteq Tids
        BY <1>5
      <3> QED
        BY <2>3, <3>1, QuietEnqueue, QuietTrans, QuietFacts
    <2> HIDE DEF B
    <2>7. StacksSafe(B, o) /\ B.cur = r.s.cur
      BY <1>5, <2>6, QuietSafe, QuietFacts DEF Switches
    <2>8. FallbackCandidates(B, c) = {}
      <3> SUFFICES ASSUME NEW u \in Tids, IsReady(B, u), B.th[u].frame = "ring3",
                          ~candidate_owned_elsewhere(B, u, c)
                   PROVE  FALSE
        BY DEF FallbackCandidates
      <3>1. u \in UserTids
        BY <2>7 DEF StacksSafe
      <3>2. r.s.th[u] = B.th[u]
        BY <2>2, <2>4, <2>5, <3>1
      <3>3. candidate_owned_elsewhere(r.s, u, c)
        BY <2>1, <3>1, <3>2 DEF NoFallback, IsReady
      <3> QED
        BY <2>7, <3>3 DEF candidate_owned_elsewhere
    <2>9. F = SetCurrent(N, c, i)
      BY <2>8 DEF SwitchToFallback
    <2>10. Quiet(B, N)
      BY Zenon, <2>2, <2>7, QuietState DEF ThreadStates, StacksSafe
    <2> HIDE DEF N, F
    <2>11. SetCurrent(N, c, i) = N
      BY <2>1, <2>7, <2>10, QuietFacts DEF SetCurrent
    <2>12. Quiet(r.s, N)
      BY <2>6, <2>10, QuietTrans
    <2> QED
      BY <1>5, <2>9, <2>11, <2>12, QuietSwitches DEF Switches
  <1> HIDE DEF F, V, accepted
  <1>8. Switches(P, syscall_try_resched(S, c), o, c)
    <2>1. \A R : Switches(r.s, R, o, c) => Switches(P, R, o, c)
      BY Zenon, <1>5 DEF Switches, OnlyCpu
    <2> QED
      BY Zenon, <1>3, <1>5, <1>6, <1>7, <2>1
  <1> QED
    BY <1>2, <1>8, SwitchesAfterQuiet

\* The return path of a system call preserves the invariant.
LEMMA SyscallReturnKeeps ==
    ASSUME StackInv, NEW c \in Cpus, SyscallReturn(c)
    PROVE  StackInv'
  <1>1. mode[c] \in {"syscall", "exit"} /\ (Resched(c) \/ ReturnToUser(c))
    BY DEF SyscallReturn
  <1>2. sched.cur[c] = onStack[c] /\ sched.cur[c] \in UserTids /\ mode[c] # "switch"
    BY <1>1, StackInvImplies DEF StackInv, StackMatchesKprcb, InUserThread
  <1>3. CASE Resched(c)
    <2>1. Switches(sched, syscall_try_resched(sched, c), onStack, c)
      BY <1>2, ReschedIsSafe DEF StackInv
    <2>2. LeaveLock(c, syscall_try_resched(sched, c), "user")
      BY <1>3 DEF Resched
    <2> QED
      BY <1>2, <2>1, <2>2, LeaveLockKeeps DEF InUserThread
  <1>4. CASE ReturnToUser(c)
    BY <1>1, <1>2, <1>4 DEF ReturnToUser, StackInv, InUserThread
  <1> QED
    BY <1>1, <1>3, <1>4

\* The reschedule of a faulted thread (exception_do_resched) preserves it.
LEMMA FaultKeeps ==
    ASSUME StackInv, NEW c \in Cpus, exception_do_resched(c)
    PROVE  StackInv'
  <1> DEFINE r == schedule_with_handoff(sched, c, TRUE, FALSE)
  <1>1. mode[c] = "fault" /\ LeaveLock(c, r.s, "user")
    BY Zenon DEF exception_do_resched
  <1>2. sched.cur[c] = onStack[c] /\ sched.cur[c] \in UserTids /\ mode[c] # "switch"
    BY <1>1, StackInvImplies DEF StackInv, StackMatchesKprcb, InUserThread
  <1>3. Switches(sched, r.s, onStack, c)
    BY Zenon, <1>2, ScheduleIsSafe DEF StackInv, Scheduled, Switches
  <1> HIDE DEF r
  <1> QED
    BY <1>1, <1>2, <1>3, LeaveLockKeeps DEF InUserThread

\* `mov rsp': the marker is cleared when the CPU is on the new stack.
LEMMA FinishSwitchKeeps ==
    ASSUME StackInv, NEW c \in Cpus, FinishSwitch(c)
    PROVE  StackInv'
  <1> DEFINE t == sched.cur[c]
             R == [sched EXCEPT !.switch_out[c] = NoTid]
             o == [onStack EXCEPT ![c] = t]
  <1>1. /\ sched' = R /\ onStack' = o /\ mode[c] = "switch"
        /\ mode' = [mode EXCEPT ![c] = IF sched.th[t].frame = "ring3" THEN "user"
                                       ELSE IF t \in UserTids THEN "syscall" ELSE "kernel"]
    BY DEF FinishSwitch
  <1>2. t \in Tids /\ Exists(sched, t) /\ o \in [Cpus -> Tids]
    BY DEF StackInv, StacksSafe, WellFormed
  <1>3. /\ R.th = sched.th /\ R.cur = sched.cur /\ R.quarantine = sched.quarantine
        /\ R.zombies = sched.zombies /\ R.rq = sched.rq /\ DOMAIN R = Fields
        /\ R.switch_out \in [Cpus -> Tids \cup {NoTid}]
        /\ R.switch_out[c] = NoTid
        /\ \A d \in Cpus \ {c} : R.switch_out[d] = sched.switch_out[d]
    BY DEF StackInv, StacksSafe, WellFormed, Fields
  <1>4. o[c] = t /\ \A d \in Cpus \ {c} : o[d] = onStack[d]
    BY DEF StackInv
  <1> HIDE DEF R, o
  <1>5. WellFormed(R)
    BY <1>3 DEF StackInv, StacksSafe, WellFormed
  <1>6. \A d \in Cpus : o[d] \notin FreedStacks(R)
    BY Zenon, <1>2, <1>3, <1>4 DEF StackInv, StacksSafe, FreedStacks, Exists
  <1>6a. Owned(R)
    <2>1. Owned(sched)
      BY Zenon DEF StackInv, StacksSafe
    <2>2. R.cur = sched.cur
      BY <1>3
    <2> QED
      BY <2>1, <2>2 DEF Owned
  <1>7. StacksSafe(R, o)
    BY ZenonT(60), <1>3, <1>4, <1>5, <1>6, <1>6a DEF StackInv, StacksSafe, Exists
  <1>8. mode' \in [Cpus -> InUserThread \cup {"kernel", "switch"}]
    BY <1>1 DEF StackInv, InUserThread
  <1>9. \A d \in Cpus \ {c} : mode'[d] = mode[d]
    BY <1>1 DEF StackInv
  <1>10. mode'[c] \in InUserThread => t \in UserTids
    BY <1>1, <1>2 DEF StackInv, StacksSafe, InUserThread
  <1>11. \A d \in Cpus : mode'[d] # "switch" => R.switch_out[d] = NoTid
    BY <1>3, <1>9 DEF StackInv
  <1>12. \A d \in Cpus : mode'[d] \in InUserThread => R.cur[d] \in UserTids
    BY <1>3, <1>9, <1>10 DEF StackInv
  <1>13. onStack' \in [Cpus -> Tids] /\ StacksSafe(sched', onStack')
    BY Zenon, <1>1, <1>2, <1>7
  <1> QED
    BY Zenon, <1>1, <1>8, <1>11, <1>12, <1>13 DEF StackInv

\* thread_count does not matter here.
LEMMA QuietCount ==
    ASSUME NEW S, WellFormed(S), NEW n
    PROVE  Quiet(S, [S EXCEPT !.thread_count = n])
  BY DEF Quiet, WellFormed, Fields, Exists

\* Queueing a process for the reaper changes no thread.
LEMMA QuietDefer ==
    ASSUME NEW S, WellFormed(S), NEW p \in UserPids
    PROVE  Quiet(S, defer_reap(S, p))
  BY DEF Quiet, WellFormed, Fields, Exists, defer_reap

\* kwait_block.
LEMMA QuietBlock ==
    ASSUME NEW S, WellFormed(S), NEW c \in Cpus, NEW reason
    PROVE  Quiet(S, BlockCurrent(S, c, reason))
  <1> DEFINE t == S.cur[c]
             Q == RemoveFromQueue(S, t)
             k == [Q.th[t] EXCEPT !.state = "Blocked", !.waiting_for = reason]
             R == [Q EXCEPT !.th[t] = k]
  <1>1. t \in Tids
    BY DEF WellFormed
  <1>2. Quiet(S, Q)
    BY QuietRemove
  <1>3. BlockCurrent(S, c, reason)
          = [Q EXCEPT !.th[t].state = "Blocked", !.th[t].waiting_for = reason]
    BY Zenon DEF BlockCurrent
  <1> HIDE DEF Q, t
  <1>4. IsThread(k) /\ k.state = "Blocked" /\ k.frame = Q.th[t].frame
    BY <1>1, <1>2, QuietFacts DEF WellFormed, IsThread, ThreadFields
  <1>5. BlockCurrent(S, c, reason) = R
    BY ZenonT(60), <1>1, <1>2, <1>3, QuietFacts DEF WellFormed, Fields
  <1> HIDE DEF k
  <1>6. Quiet(Q, R)
    BY <1>1, <1>2, <1>4, QuietThread, QuietFacts
  <1> QED
    BY <1>2, <1>5, <1>6, QuietTrans

\* The flag yield_requested does not matter here.
LEMMA QuietYield ==
    ASSUME NEW S, WellFormed(S), NEW t \in Tids
    PROVE  Quiet(S, [S EXCEPT !.th[t].yield_requested = TRUE])
  <1> DEFINE k == [S.th[t] EXCEPT !.yield_requested = TRUE]
  <1>1. IsThread(k) /\ k.state = S.th[t].state /\ k.frame = S.th[t].frame
    BY DEF WellFormed, IsThread, ThreadFields
  <1>2. [S EXCEPT !.th[t].yield_requested = TRUE] = [S EXCEPT !.th[t] = k]
    BY DEF WellFormed, Fields
  <1> HIDE DEF k
  <1> QED
    BY <1>1, <1>2, QuietThread DEF Exists

\* Publishing the Suspended threads of a process.
LEMMA QuietActivate ==
    ASSUME NEW S, WellFormed(S), NEW c, NEW p
    PROVE  Quiet(S, ActivateSuspended(S, c, p))
  <1> DEFINE T == {t \in ThreadsOf(S, p) : S.th[t].state = "Suspended"}
  <1>1. \A t \in T : Exists(S, t)
    BY DEF ThreadsOf
  <1>2. ActivateSuspended(S, c, p) = MakeReady(S, c, T)
    BY DEF ActivateSuspended
  <1> HIDE DEF T
  <1> QED
    BY <1>1, <1>2, QuietMakeReady

\* terminate_current leaves the thread on its stack, Terminated.
LEMMA QuietTerminate ==
    ASSUME NEW S, WellFormed(S), NEW c \in Cpus, S.cur[c] \in UserTids
    PROVE  Quiet(S, terminate_current(S, c))
  <1> DEFINE t == S.cur[c]
             p == PidOf[t]
             n == IF S.thread_count[p] > 0 THEN S.thread_count[p] - 1 ELSE 0
             Q == RemoveFromQueue(S, t)
             A == [Q EXCEPT !.th[t].state = "Terminated"]
             B == [A EXCEPT !.thread_count = [Q.thread_count EXCEPT ![p] = n]]
             D == [Q EXCEPT !.th[t].state = "Terminated", !.thread_count[p] = n]
             W == IF n = 0 THEN Wake(D, c, <<"ChildExit", p>>) ELSE D
             J == Wake(W, c, <<"ThreadJoin", t>>)
  <1>1. t \in Tids /\ p \in UserPids
    BY DEF WellFormed, UserPids
  <1>2. terminate_current(S, c) = IF n = 0 THEN defer_reap(J, p) ELSE J
    BY DEF terminate_current
  <1>3. Quiet(S, Q)
    BY QuietRemove
  <1> HIDE DEF n, p, t, Q
  <1>4. D = B
    BY <1>3, QuietFacts DEF WellFormed, Fields
  <1> HIDE DEF D
  <1>5. Quiet(Q, A)
    BY <1>1, <1>3, QuietState, QuietFacts DEF ThreadStates
  <1> HIDE DEF A
  <1>6. Quiet(A, B)
    BY <1>5, QuietCount, QuietFacts
  <1> HIDE DEF B
  <1>7. Quiet(S, D)
    BY <1>3, <1>4, <1>5, <1>6, QuietTrans
  <1>8. Quiet(S, W)
    BY <1>7, QuietWake, QuietTrans, QuietFacts
  <1> HIDE DEF W
  <1>9. Quiet(S, J)
    BY <1>8, QuietWake, QuietTrans, QuietFacts
  <1> HIDE DEF J
  <1>10. Quiet(J, defer_reap(J, p))
    BY <1>1, <1>9, QuietDefer, QuietFacts
  <1> QED
    BY <1>2, <1>9, <1>10, QuietTrans

\* A killed process that runs somewhere is only marked.
LEMMA QuietKillRunning ==
    ASSUME NEW S, WellFormed(S), NEW p \in UserPids
    PROVE  Quiet(S, KillRunning(S, p))
  <1> DEFINE T == ThreadsOf(S, p)
             th == [t \in Tids |-> IF t \in T THEN [S.th[t] EXCEPT !.state = "Terminated"]
                                   ELSE S.th[t]]
             q == [c \in Cpus |-> RemoveAll(S.rq[c], {t \in T : S.th[t].cpu = c})]
             N == [S EXCEPT !.th = th]
             M == [N EXCEPT !.rq = q]
             O == [S EXCEPT !.rq = q, !.th = th]
  <1>1. KillRunning(S, p) = defer_reap(O, p)
    BY Zenon DEF KillRunning
  <1>2. QuietTable(S, th)
    BY DEF QuietTable, WellFormed, IsThread, ThreadFields, Exists
  <1>2a. q \in Queues
    <2>1. \A c \in Cpus : S.rq[c] \in Queue
      BY DEF WellFormed, Queues
    <2>2. \A c \in Cpus : RemoveAll(S.rq[c], {t \in T : S.th[t].cpu = c}) \in Queue
      BY <2>1, RemoveAllTyped
    <2> QED
      BY <2>2 DEF Queues
  <1> HIDE DEF th, q
  <1>3. Quiet(S, N)
    BY <1>2, QuietThreads
  <1>4. O = M
    BY Zenon DEF WellFormed, Fields
  <1> HIDE DEF N, O
  <1>5. Quiet(N, M)
    BY Zenon, <1>2a, <1>3, QuietQueues, QuietFacts
  <1> HIDE DEF M
  <1>6. Quiet(S, M)
    BY <1>3, <1>5, QuietTrans
  <1>7. Quiet(M, defer_reap(M, p))
    BY <1>6, QuietDefer, QuietFacts
  <1> QED
    BY <1>1, <1>4, <1>6, <1>7, QuietTrans

\* A new thread takes a slot that was never used.
LEMMA QuietCreate ==
    ASSUME NEW S, WellFormed(S), NEW c, NEW t \in UserTids, NEW n
    PROVE  LET R == [S EXCEPT !.th[t] = NewThread("Suspended", c, PRIORITY_NORMAL, "ring3"),
                              !.thread_count = n]
           IN  Quiet(S, R) /\ Exists(R, t)
  <1> DEFINE k == NewThread("Suspended", c, PRIORITY_NORMAL, "ring3")
             K == [S EXCEPT !.th[t] = k]
             L == [K EXCEPT !.thread_count = n]
             R == [S EXCEPT !.th[t] = k, !.thread_count = n]
  <1>1. IsThread(k) /\ k.state = "Suspended" /\ t \in Tids
    BY SMTT(60) DEF IsThread, NewThread, ThreadFields, Priorities, PRIORITY_NORMAL, Tids
  <1> HIDE DEF k
  <1>2. Quiet(S, K)
    BY <1>1, QuietThread
  <1>3. R = L /\ R.th[t] = k
    BY <1>1 DEF WellFormed, Fields
  <1> HIDE DEF K, R
  <1>4. Quiet(K, L)
    BY <1>2, QuietCount, QuietFacts
  <1>5. Quiet(S, R)
    BY <1>2, <1>3, <1>4, QuietTrans
  <1>6. Exists(R, t)
    BY <1>1, <1>3 DEF Exists
  <1> QED
    BY <1>5, <1>6 DEF R, k

-----------------------------------------------------------------------------
\* System calls.

\* ObWait on a process: clean up, or block.
LEMMA ObWaitKeeps ==
    ASSUME StackInv, NEW c \in Cpus, NEW p \in UserPids, ObWaitProcess(c, p)
    PROVE  StackInv'
  <1>0. WellFormed(sched) /\ onStack \in [Cpus -> Tids] /\ StacksSafe(sched, onStack)
    BY DEF StackInv, StacksSafe
  <1>1. CASE ProcessGone(sched, p)
    <2> DEFINE S == cleanup_terminated_process(sched, p)
    <2>1. Handler(c, S, "syscall")
      BY <1>1 DEF ObWaitProcess
    <2>2. CASE is_pid_running_on_any_cpu(sched, p)
      <3>1. S = defer_reap(sched, p)
        BY <2>2 DEF cleanup_terminated_process
      <3>2. Quiet(sched, S)
        BY <1>0, <3>1, QuietDefer
      <3> HIDE DEF S
      <3> QED
        BY <2>1, <3>2, QuietHandlerKeeps DEF InUserThread
    <2>3. CASE ~is_pid_running_on_any_cpu(sched, p)
      <3>1. S = RecycleProcesses(sched, {p})
        BY <2>3 DEF cleanup_terminated_process
      <3>2. StacksSafe(S, onStack) /\ S.cur = sched.cur /\ S.switch_out = sched.switch_out
        <4>1. {p} \subseteq UserPids /\ \A u \in {p} : ~is_pid_running_on_any_cpu(sched, u)
          BY Zenon, <2>3
        <4> DEFINE P == {p}
        <4> HIDE DEF P, S
        <4>2. P \subseteq UserPids /\ \A u \in P : ~is_pid_running_on_any_cpu(sched, u)
          BY Zenon, <4>1 DEF P
        <4>3. /\ StacksSafe(RecycleProcesses(sched, P), onStack)
              /\ RecycleProcesses(sched, P).cur = sched.cur
              /\ RecycleProcesses(sched, P).switch_out = sched.switch_out
          BY <1>0, <4>2, SafeRecycle
        <4> QED
          BY Zenon, <3>1, <4>3 DEF P
      <3> HIDE DEF S
      <3> QED
        BY <2>1, <3>2, HandlerKeeps DEF InUserThread
    <2> QED
      BY <2>2, <2>3
  <1>2. CASE ~ProcessGone(sched, p)
    <2> DEFINE A == ActivateSuspended(sched, c, p)
               S == BlockCurrent(A, c, <<"ChildExit", p>>)
    <2>1. Handler(c, S, "syscall")
      BY <1>2 DEF ObWaitProcess
    <2>2. Quiet(sched, A)
      BY <1>0, QuietActivate
    <2> HIDE DEF A
    <2>3. Quiet(sched, S)
      BY <2>2, QuietBlock, QuietTrans, QuietFacts
    <2> HIDE DEF S
    <2> QED
      BY <2>1, <2>3, QuietHandlerKeeps DEF InUserThread
  <1> QED
    BY <1>1, <1>2

\* kill_pid: a process that runs nowhere is recycled, another one is marked.
LEMMA KillKeeps ==
    ASSUME StackInv, NEW c \in Cpus, NEW p \in UserPids, kill_pid(c, p)
    PROVE  StackInv'
  <1> DEFINE D == IF is_pid_running_on_any_cpu(sched, p) THEN KillRunning(sched, p)
                  ELSE RecycleProcesses(sched, {p})
             S == Wake(D, c, <<"ChildExit", p>>)
  <1>0. WellFormed(sched) /\ onStack \in [Cpus -> Tids] /\ StacksSafe(sched, onStack)
    BY DEF StackInv, StacksSafe
  <1>1. Handler(c, S, "syscall")
    BY DEF kill_pid
  <1>2. StacksSafe(D, onStack) /\ D.cur = sched.cur /\ D.switch_out = sched.switch_out
    <2>1. CASE is_pid_running_on_any_cpu(sched, p)
      <3>1. D = KillRunning(sched, p)
        BY <2>1
      <3> HIDE DEF D
      <3> QED
        BY <1>0, <3>1, QuietKillRunning, QuietSafe, QuietFacts
    <2>2. CASE ~is_pid_running_on_any_cpu(sched, p)
      <3>1. D = RecycleProcesses(sched, {p})
        BY <2>2
      <3> HIDE DEF D
      <3> QED
        BY <1>0, <2>2, <3>1, SafeRecycle
    <2> QED
      BY Zenon, <2>1, <2>2
  <1> HIDE DEF D
  <1>3. Quiet(D, S)
    BY <1>2, QuietWake DEF StacksSafe
  <1> HIDE DEF S
  <1>4. StacksSafe(S, onStack) /\ S.cur = sched.cur /\ S.switch_out = sched.switch_out
    BY Zenon, <1>2, <1>3, QuietSafe, QuietFacts
  <1> QED
    BY <1>1, <1>4, HandlerKeeps DEF InUserThread

\* ObCreate of a process.
LEMMA CreateProcessKeeps ==
    ASSUME StackInv, NEW c \in Cpus, NEW p \in UserPids, add_ring3_process(c, p)
    PROVE  StackInv'
  <1> DEFINE T == {t \in UserTids : PidOf[t] = p}
             t == FirstOf(T)
             n == [sched.thread_count EXCEPT ![p] = 1]
             k == NewThread("Suspended", c, PRIORITY_NORMAL, "ring3")
             S == [sched EXCEPT !.th[t] = k, !.thread_count = n]
  <1>0. WellFormed(sched)
    BY DEF StackInv, StacksSafe
  <1>1. t \in UserTids
    <2>1. T # {} /\ T \subseteq Tids
      BY DEF UserPids, Tids
    <2>2. t \in T
      BY <2>1, FirstOfMember
    <2> QED
      BY <2>2
  <1>2. Handler(c, [sched EXCEPT !.th[t] = k, !.thread_count[p] = 1], "syscall")
    BY DEF add_ring3_process
  <1> HIDE DEF t
  <1>3. Quiet(sched, S)
    BY Zenon, <1>0, <1>1, QuietCreate
  <1>4. [sched EXCEPT !.th[t] = k, !.thread_count[p] = 1] = S
    BY <1>0 DEF WellFormed, Fields
  <1> HIDE DEF S
  <1> QED
    BY <1>2, <1>3, <1>4, QuietHandlerKeeps DEF InUserThread

\* ObCreate of a thread.
LEMMA CreateThreadKeeps ==
    ASSUME StackInv, NEW c \in Cpus, add_thread_to_process(c)
    PROVE  StackInv'
  <1> DEFINE p == PidOf[sched.cur[c]]
             T == {t \in UserTids : PidOf[t] = p /\ sched.th[t].state = "None"}
             t == FirstOf(T)
             n == [sched.thread_count EXCEPT ![p] = @ + 1]
             k == NewThread("Suspended", c, PRIORITY_NORMAL, "ring3")
             D == [sched EXCEPT !.th[t] = k, !.thread_count[p] = @ + 1]
             E == [sched EXCEPT !.th[t] = k, !.thread_count = n]
             S == MakeReady(D, c, {t})
  <1>0. WellFormed(sched)
    BY DEF StackInv, StacksSafe
  <1>1. T # {} /\ Handler(c, S, "syscall")
    BY DEF add_thread_to_process
  <1>2. t \in UserTids
    <2>1. T \subseteq Tids
      BY DEF Tids
    <2>2. t \in T
      BY <1>1, <2>1, FirstOfMember
    <2> QED
      BY <2>2
  <1> HIDE DEF t, p, T
  <1>3. Quiet(sched, E) /\ Exists(E, t)
    BY Zenon, <1>0, <1>2, QuietCreate
  <1>4. D = E
    BY <1>0 DEF WellFormed, Fields
  <1> HIDE DEF D, E
  <1>5. Quiet(D, S)
    BY <1>3, <1>4, QuietMakeReady, QuietFacts
  <1> HIDE DEF S
  <1>6. Quiet(sched, S)
    BY <1>3, <1>4, <1>5, QuietTrans
  <1> QED
    BY <1>1, <1>6, QuietHandlerKeeps DEF InUserThread

\* set_process_priority.
LEMMA PriorityKeeps ==
    ASSUME StackInv, NEW c \in Cpus, NEW p, NEW prio \in SetPrios,
           set_process_priority(c, p, prio)
    PROVE  StackInv'
  <1> DEFINE T == ThreadsOf(sched, p)
             Moved == {t \in T : sched.th[t].state = "Ready" /\ sched.th[t].priority # prio}
             th == [t \in Tids |-> IF t \notin T THEN sched.th[t]
                      ELSE [sched.th[t] EXCEPT !.priority = prio, !.base_priority = prio,
                                               !.ticks_since_scheduled = 0]]
             q == RequeueAll(sched.rq, th, Moved)
             i == sched.ipi \cup {th[t].cpu : t \in {u \in Moved : th[u].cpu # c}}
             N == [sched EXCEPT !.th = th]
             M == [N EXCEPT !.rq = q, !.ipi = i]
             O == [sched EXCEPT !.th = th, !.rq = q, !.ipi = i]
  <1>0. WellFormed(sched)
    BY DEF StackInv, StacksSafe
  <1>1. Handler(c, O, "syscall")
    BY Zenon DEF set_process_priority
  <1>2. QuietTable(sched, th)
    <2>1. prio \in Priorities
      BY ConstantsAssumption
    <2> QED
      BY <1>0, <2>1 DEF QuietTable, WellFormed, IsThread, ThreadFields, Exists
  <1>2a. q \in Queues
    <2>1. Moved \subseteq Tids
      BY DEF ThreadsOf
    <2>2. Levelled(th)
      BY <1>2 DEF QuietTable, IsThread, Levelled
    <2> HIDE DEF th, Moved
    <2> QED
      BY <1>0, <2>1, <2>2, RequeueAllTyped DEF WellFormed
  <1> HIDE DEF th, q, i
  <1>3. Quiet(sched, N)
    BY <1>0, <1>2, QuietThreads
  <1>4. O = M
    BY <1>0 DEF WellFormed, Fields
  <1> HIDE DEF N, O
  <1>5. Quiet(N, M)
    BY Zenon, <1>2a, <1>3, QuietQueues, QuietFacts
  <1> HIDE DEF M
  <1>6. Quiet(sched, O)
    BY <1>3, <1>4, <1>5, QuietTrans
  <1> QED
    BY <1>1, <1>6, QuietHandlerKeeps DEF InUserThread

\* Every system call.
LEMMA SyscallKeeps ==
    ASSUME StackInv, NEW c \in Cpus, Syscall(c)
    PROVE  StackInv'
  <1>0. WellFormed(sched)
    BY DEF StackInv, StacksSafe
  <1>1. CASE OtherSyscall(c)
    BY <1>0, <1>1, QuietSelf, QuietHandlerKeeps DEF OtherSyscall, InUserThread
  <1>2. CASE handler_yield(c)
    <2> DEFINE S == [sched EXCEPT !.th[sched.cur[c]].yield_requested = TRUE]
    <2>1. Handler(c, S, "syscall")
      BY <1>2 DEF handler_yield
    <2>2. Quiet(sched, S)
      <3>1. sched.cur[c] \in Tids
        BY <1>0 DEF WellFormed
      <3> QED
        BY <1>0, <3>1, QuietYield
    <2> HIDE DEF S
    <2> QED
      BY <2>1, <2>2, QuietHandlerKeeps DEF InUserThread
  <1>3. CASE handler_exit(c)
    <2>1. Handler(c, terminate_current(sched, c), "exit")
      BY <1>3 DEF handler_exit
    <2>2. sched.cur[c] \in UserTids
      BY <2>1 DEF Handler, StackInv, InUserThread
    <2>3. Quiet(sched, terminate_current(sched, c))
      BY <1>0, <2>2, QuietTerminate
    <2> QED
      BY <2>1, <2>3, QuietHandlerKeeps DEF InUserThread
  <1>4. ASSUME NEW reason, kwait_block(c, reason) PROVE StackInv'
    <2>1. Handler(c, BlockCurrent(sched, c, reason), "syscall")
      BY <1>4 DEF kwait_block
    <2>2. Quiet(sched, BlockCurrent(sched, c, reason))
      BY <1>0, QuietBlock
    <2> QED
      BY <2>1, <2>2, QuietHandlerKeeps DEF InUserThread
  <1>5. ASSUME NEW p \in UserPids, activate_process(c, p) PROVE StackInv'
    <2>1. Handler(c, ActivateSuspended(sched, c, p), "syscall")
      BY <1>5 DEF activate_process
    <2>2. Quiet(sched, ActivateSuspended(sched, c, p))
      BY <1>0, QuietActivate
    <2> QED
      BY <2>1, <2>2, QuietHandlerKeeps DEF InUserThread
  <1> QED
    BY Zenon, <1>1, <1>2, <1>3, <1>4, <1>5, ObWaitKeeps, KillKeeps, CreateProcessKeeps,
       CreateThreadKeeps, PriorityKeeps DEF Syscall

\* The state after boot.
LEMMA InitStackInv ==
    ASSUME Init
    PROVE  StackInv
  <1>1. 0 \in Cpus /\ INIT_PID \in UserPids /\ UserTids \cap IdleTids = {}
        /\ KernelTids \cap UserTids = {}
    BY ConstantsAssumption
  <1>2. InitTid \in UserTids
    <2> DEFINE T == {t \in UserTids : PidOf[t] = INIT_PID}
    <2>1. T # {} /\ T \subseteq Tids
      BY <1>1 DEF UserPids, Tids
    <2>2. FirstOf(T) \in T
      BY <2>1, FirstOfMember
    <2> QED
      BY <2>2 DEF InitTid
  <1>2a. PRIORITY_NORMAL \in Priorities /\ PRIORITY_IDLE \in Priorities
    BY DEF Priorities, PRIORITY_NORMAL, PRIORITY_IDLE
  <1>3. ASSUME NEW t \in Tids
        PROVE  /\ IsThread(InitThread(t))
               /\ InitThread(t).state # "Reaped"
               /\ t \in IdleTids \/ t = InitTid => InitThread(t).state # "None"
               /\ t \notin UserTids => InitThread(t).frame = "ring0"
    <2>1. CASE t = InitTid
      <3>1. InitThread(t) = NewThread("Running", 0, PRIORITY_NORMAL, "ring3")
        BY <1>1, <1>2, <2>1 DEF InitThread
      <3> QED
        <4> DEFINE k == NewThread("Running", 0, PRIORITY_NORMAL, "ring3")
        <4>1. IsThread(k) /\ k.state = "Running"
          BY <1>2a, CreatedThread
        <4> HIDE DEF k
        <4>2. InitThread(t) = k
          BY Zenon, <3>1 DEF k
        <4> QED
          BY <1>2, <2>1, <4>1, <4>2
    <2>2. CASE t # InitTid /\ t \in IdleTids
      <3> DEFINE s == IF t = IdleTid[0] THEN "Ready" ELSE "Running"
      <3>1. InitThread(t) = NewThread(s, CpuOfIdle(t), PRIORITY_IDLE, "ring0")
        BY <2>2, ConstantsAssumption DEF InitThread
      <3>2. s # "Reaped" /\ s # "None"
        OBVIOUS
      <3> HIDE DEF s
      <3> QED
        <4> DEFINE k == NewThread(s, CpuOfIdle(t), PRIORITY_IDLE, "ring0")
        <4>1. IsThread(k) /\ k.state = s /\ k.frame = "ring0"
          BY <1>2a, CreatedThread
        <4> HIDE DEF k
        <4>2. InitThread(t) = k
          BY Zenon, <3>1 DEF k
        <4> QED
          BY <3>2, <4>1, <4>2
    <2>3. CASE t # InitTid /\ t \notin IdleTids /\ t \in KernelTids
      BY <1>1, <2>3 DEF InitThread, NewThread, IsThread, ThreadFields, Priorities,
         PRIORITY_NORMAL, PRIORITY_IDLE
    <2>4. CASE t # InitTid /\ t \notin IdleTids /\ t \notin KernelTids
      BY <1>1, <2>4 DEF InitThread, NewThread, IsThread, ThreadFields, Priorities,
         PRIORITY_NORMAL, PRIORITY_IDLE, Tids
    <2> QED
      BY <2>1, <2>2, <2>3, <2>4
  <1> DEFINE th == [t \in Tids |-> InitThread(t)]
             cur == [c \in Cpus |-> IF c = 0 THEN InitTid ELSE IdleTid[c]]
  <1>4. /\ sched.th = th /\ sched.cur = cur /\ sched.switch_out = [c \in Cpus |-> NoTid]
        /\ sched.zombies = {} /\ sched.quarantine = {} /\ DOMAIN sched = Fields
    BY Zenon DEF Init, InitSched, Fields
  <1>5. /\ onStack = sched.cur
        /\ mode = [c \in Cpus |-> IF c = 0 THEN "user" ELSE "kernel"]
    BY DEF Init
  <1>6. /\ cur \in [Cpus -> Tids] /\ cur[0] = InitTid
        /\ \A c \in Cpus : cur[c] \in IdleTids \/ cur[c] = InitTid
    BY <1>1, <1>2 DEF Tids, IdleTids
  <1>7. \A t \in Tids : th[t] = InitThread(t)
    OBVIOUS
  <1> HIDE DEF th, cur
  <1>8. DOMAIN th = Tids
    BY DEF th
  <1>8a. sched.rq \in Queues
    <2> DEFINE e == [c \in Cpus |-> EmptyQueue]
               K == {t \in KernelTids : th[t].state = "Ready"}
    <2>1. sched.rq = EnqueueAll(e, th, K)
      BY Zenon DEF Init, InitSched, th
    <2>2. e \in Queues
      BY DEF EmptyQueue, Queues, Queue
    <2>3. Levelled(th) /\ K \subseteq Tids
      BY <1>3, <1>7 DEF IsThread, Levelled, Tids
    <2> HIDE DEF e, K
    <2> QED
      BY <2>1, <2>2, <2>3, EnqueueAllTyped
  <1>8b. Owned(sched)
    <2> SUFFICES ASSUME NEW c \in Cpus, NEW d \in Cpus, cur[c] = cur[d] \/ cur[c] = IdleTid[d]
                 PROVE  c = d
      BY <1>4 DEF Owned
    <2>1. \A k \in Cpus : IdleTid[k] # InitTid
      BY <1>1, <1>2 DEF IdleTids
    <2>2. \A k, l \in Cpus : IdleTid[k] = IdleTid[l] => k = l
      BY ConstantsAssumption
    <2>3. \A k \in Cpus : cur[k] = IF k = 0 THEN InitTid ELSE IdleTid[k]
      BY DEF cur
    <2> QED
      BY <2>1, <2>2, <2>3
  <1>9. WellFormed(sched)
    BY <1>3, <1>4, <1>6, <1>7, <1>8, <1>8a DEF WellFormed
  <1>10. \A c \in Cpus : Exists(sched, sched.cur[c])
    <2> SUFFICES ASSUME NEW c \in Cpus
                 PROVE  Exists(sched, cur[c])
      BY <1>4
    <2> DEFINE t == cur[c]
    <2>1. t \in Tids /\ (t \in IdleTids \/ t = InitTid)
      BY <1>6
    <2> HIDE DEF t
    <2>2. sched.th[t].state \notin {"None", "Reaped"}
      BY <1>3, <1>4, <1>7, <2>1
    <2> QED
      BY <2>1, <2>2 DEF Exists, t
  <1>11. FreedStacks(sched) = {}
    BY <1>3, <1>4, <1>7 DEF FreedStacks
  <1>12. StacksSafe(sched, onStack)
    BY <1>3, <1>4, <1>5, <1>7, <1>8b, <1>9, <1>10, <1>11 DEF StacksSafe
  <1>13. mode \in [Cpus -> InUserThread \cup {"kernel", "switch"}]
    BY <1>5 DEF InUserThread
  <1>14. \A c \in Cpus : mode[c] \in InUserThread => sched.cur[c] \in UserTids
    BY <1>2, <1>4, <1>5, <1>6 DEF InUserThread
  <1> QED
    BY <1>4, <1>5, <1>6, <1>12, <1>13, <1>14 DEF StackInv

\* Every step keeps the invariant.
LEMMA NextStackInv ==
    ASSUME StackInv, [Next]_vars
    PROVE  StackInv'
  <1>0. WellFormed(sched)
    BY DEF StackInv, StacksSafe
  <1>1. CASE UNCHANGED vars
    BY <1>1 DEF vars, StackInv
  <1>2. CASE Next
    <2>1. PICK c \in Cpus : Step(c)
      BY <1>2, Zenon DEF Next
    <2>2. CASE DeliverIpi(c)
      <3>1. sched' = [sched EXCEPT !.ipi = @ \ {c}] /\ UNCHANGED <<mode, onStack>>
        BY <2>2 DEF DeliverIpi
      <3>2. Quiet(sched, sched')
        BY Zenon, <1>0, <3>1, QuietIpi
      <3> QED
        BY <3>1, <3>2, QuietStepKeeps
    <2>3. CASE terminate_user_process(c)
      <3>1. Handler(c, terminate_current(sched, c), "fault")
        BY <2>3 DEF terminate_user_process
      <3>2. sched.cur[c] \in UserTids
        BY <3>1 DEF Handler, StackInv, InUserThread
      <3>3. Quiet(sched, terminate_current(sched, c))
        BY <1>0, <3>2, QuietTerminate
      <3> QED
        BY <3>1, <3>3, QuietHandlerKeeps DEF InUserThread
    <2>4. ASSUME NEW e \in Events, kwait_wake(c, e) PROVE StackInv'
      <3>1. sched' = Wake(sched, c, <<"Event", e>>) /\ UNCHANGED <<mode, onStack>>
        BY <2>4 DEF kwait_wake
      <3>2. Quiet(sched, sched')
        BY <1>0, <3>1, QuietWake
      <3> QED
        BY <3>1, <3>2, QuietStepKeeps
    <2>5. CASE yield_current_thread(c)
      <3>1. /\ sched' = [sched EXCEPT !.th[sched.cur[c]].yield_requested = TRUE]
            /\ UNCHANGED <<mode, onStack>>
        BY <2>5 DEF yield_current_thread
      <3>2. sched.cur[c] \in Tids
        BY <1>0 DEF WellFormed
      <3>3. Quiet(sched, sched')
        BY <1>0, <3>1, <3>2, QuietYield
      <3> QED
        BY <3>1, <3>3, QuietStepKeeps
    <2>6. CASE preempt_disable(c) \/ preempt_enable(c)
      BY <2>6 DEF preempt_disable, preempt_enable, StackInv
    <2> QED
      BY <2>1, <2>2, <2>3, <2>4, <2>5, <2>6, TimerTickKeeps, FinishSwitchKeeps,
         SyscallKeeps, SyscallReturnKeeps, FaultKeeps, Zenon DEF Step
  <1> QED
    BY <1>1, <1>2

\* The invariant holds in every reachable state.
LEMMA StackInvAlways == Spec => []StackInv
  BY InitStackInv, NextStackInv, PTL DEF Spec

\* No CPU ever executes on a kernel stack that was freed, for any number of CPUs,
\* threads and processes: reap_pending_zombies and recycle_terminated spare the
\* current thread of every CPU, and the switch marker with the quarantine covers a
\* stack from the KPRCB update to `mov rsp'.
THEOREM FreedStacksUnused == Spec => []NoFreedStackInUse
  BY StackInvAlways, StackInvImplies, PTL

\* Outside the switch window every CPU is on the stack of the thread its KPRCB
\* names: no path repoints the KPRCB twice before `mov rsp' except back to the
\* interrupted thread.
THEOREM StackIsCurrents == Spec => []StackMatchesKprcb
  BY StackInvAlways, StackInvImplies, PTL

\* No thread is ever current on two CPUs, for any number of CPUs, threads and
\* processes and whatever wakes, steals, reverts and kills interleave: the test
\* candidate_owned_elsewhere at every dispatch is enough, and the idle threads,
\* which dispatch_idle takes without it, never leave their CPU.
THEOREM OneOwnerHolds == Spec => []OneOwner
  BY StackInvAlways, StackInvImplies, PTL
=============================================================================
