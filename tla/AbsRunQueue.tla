---------------------------- MODULE AbsRunQueue ----------------------------
(***************************************************************************)
(* What a CPU run queue promises: a FIFO of thread ids per priority, pop   *)
(* from the most urgent level that is not empty, refuse a push on a full   *)
(* level.  `out' is the last operation and the value it returned.          *)
(***************************************************************************)
EXTENDS RunQueueOps

CONSTANTS Tids,      \* the thread ids callers enqueue (never 0)
          Prios,     \* the priorities callers use
          NoTid      \* the None of Option<u32>

VARIABLES q, out

AbsVars == <<q, out>>

AbsInit == q = EmptyQueue /\ out = <<"new", NoTid>>

\* enqueue_to_cpu_run_queue pushes only a tid that the queue does not contain.
AbsPush(t, p) ==
    /\ t \notin QueuedTids(q)
    /\ out' = <<"push", ~LevelFull(q, p)>>
    /\ q' = PushPriority(q, t, p)

AbsPop ==
    IF ActiveLevels(q) = {}
    THEN out' = <<"pop", NoTid>> /\ q' = q
    ELSE out' = <<"pop", PeekHighest(q)>> /\ q' = PopHighest(q)

AbsRemove(t) ==
    /\ out' = <<"remove", t \in QueuedTids(q)>>
    /\ q' = RemoveTid(q, t)

AbsClear == out' = <<"clear", NoTid>> /\ q' = EmptyQueue

AbsNext ==
    \/ \E t \in Tids, p \in Prios : AbsPush(t, p)
    \/ AbsPop
    \/ \E t \in Tids : AbsRemove(t)
    \/ AbsClear

AbsSpec == AbsInit /\ [][AbsNext]_AbsVars
=============================================================================
