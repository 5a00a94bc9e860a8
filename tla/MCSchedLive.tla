---------------------------- MODULE MCSchedLive ----------------------------
(***************************************************************************)
(* Two further instances of Scheduler, over the same variables: "full",    *)
(* two CPUs whose run queues hold one thread per level, and "fair", one    *)
(* CPU with room for every thread.  Thread and process ids are those of    *)
(* MCScheduler.                                                            *)
(***************************************************************************)
EXTENDS Integers, TLC

VARIABLES instance, sched, mode, onStack, need_resched, NEED_RESCHED, PREEMPT_COUNT, holding, load

Pids == (1 :> 0) @@ (2 :> 0) @@ (3 :> 1) @@ (4 :> 2) @@ (5 :> 3) @@ (6 :> 3)

Full == INSTANCE Scheduler WITH
    RUNQUEUE_PRIO_CAP <- 1, Cpus <- {0, 1}, UserTids <- {4, 5, 6}, KernelTids <- {},
    IdleTid <- (0 :> 1) @@ (1 :> 2), PidOf <- Pids, NextTid <- 7, INIT_PID <- 2, Events <- {},
    MAX_STARVATION <- 2, AgingTicks <- BOOLEAN, SetPrios <- {1, 3}, CountModulus <- 4,
    Loads <- {{"spawn", "activate", "thread", "exit", "yield"},
              {"spawn", "wait", "exit", "fault"}}

Roomy == INSTANCE Scheduler WITH
    RUNQUEUE_PRIO_CAP <- 4, Cpus <- {0}, UserTids <- {4, 5, 6}, KernelTids <- {3},
    IdleTid <- (0 :> 1), PidOf <- Pids, NextTid <- 7, INIT_PID <- 2, Events <- {},
    MAX_STARVATION <- 2, AgingTicks <- {TRUE}, SetPrios <- {1, 3}, CountModulus <- 4,
    Loads <- {{"spawn", "activate", "wait", "thread", "exit", "yield", "kernel", "aging"}}

vars == <<instance, sched, mode, onStack, need_resched, NEED_RESCHED, PREEMPT_COUNT, holding, load>>

Init == \/ instance = "full" /\ Full!Init
        \/ instance = "roomy" /\ Roomy!Init

Next == \/ instance = "full" /\ Full!Next /\ UNCHANGED instance
        \/ instance = "roomy" /\ Roomy!Next /\ UNCHANGED instance

(* WF_vars of four actions per CPU, each with its enabling condition written   *)
(* out: the timer is periodic and slices are finite, so a CPU that goes on      *)
(* without a switch takes an expiring tick; code in Ring 0 ends in finitely     *)
(* many steps.                                                                  *)
Expires(c) == (instance = "full" /\ Full!ExpiryActs(c)) \/ (instance = "roomy" /\ Roomy!ExpiryActs(c))
Tick(c) == \/ instance = "full" /\ \E aging \in Full!Aging : Full!TimerTick(c, TRUE, aging)
           \/ instance = "roomy" /\ \E aging \in Roomy!Aging : Roomy!TimerTick(c, TRUE, aging)
Switched(c) == (instance = "full" /\ Full!FinishSwitch(c)) \/ (instance = "roomy" /\ Roomy!FinishSwitch(c))
Returned(c) == (instance = "full" /\ Full!SyscallReturn(c)) \/ (instance = "roomy" /\ Roomy!SyscallReturn(c))
Faulted(c) == \/ instance = "full" /\ Full!exception_do_resched(c)
              \/ instance = "roomy" /\ Roomy!exception_do_resched(c)

Online == 0..(IF instance = "full" THEN 1 ELSE 0)
In(c, modes) == c \in Online /\ mode[c] \in modes

Fairness ==
    \A c \in {0, 1} :
        /\ []<>~(c \in Online /\ Expires(c)) \/ []<><<c \in Online /\ Tick(c)>>_vars
        /\ []<>~In(c, {"switch"}) \/ []<><<c \in Online /\ Switched(c)>>_vars
        /\ []<>~(In(c, {"syscall", "exit"}) /\ sched.cur[c] \notin holding) \/ []<><<c \in Online /\ Returned(c)>>_vars
        /\ []<>~In(c, {"fault"}) \/ []<><<c \in Online /\ Faulted(c)>>_vars

Spec == Init /\ [][Next]_vars /\ Fairness

\* A thread that ended never runs again: terminate_current is final, whatever the
\* timer, the wakers and the other CPUs do next.  (Not so kill_pid: the revert of a
\* refused dispatch makes a thread killed with a yield pending Running again.)
TerminatedStays ==
    [][\A t \in 4..6 : sched.th[t].state = "Terminated" =>
          sched'.th[t].state \in {"Terminated", "Reaped"}]_vars

\* A CPU turns to its idle thread only if no thread could be dispatched there, or
\* to hand off to a starved kernel thread (#355): a full run queue hides no thread.
IdleOnlyWhenNothingReady ==
    [][instance = "full" => Full!IdlesForLack]_vars

\* A process that ended is reclaimed in the end, though its own last schedule()
\* must spare it and no event ever asks for the reaper.
ZombieReaped == \A p \in {2, 3} : p \in sched.zombies ~> p \notin sched.zombies

\* Where the run queue has room, a Ready thread gets the CPU in the end.
ReadyRuns ==
    \A t \in 3..6 : LET Waits == instance = "roomy" /\ sched.th[t].state = "Ready"
                    IN  Waits ~> ~Waits
=============================================================================
