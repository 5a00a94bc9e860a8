---------------------------- MODULE MCScheduler ----------------------------
(* Small instances of Scheduler: two CPUs with idle threads 1 and 2, one kernel *)
(* thread (3), NeoInit (thread 4, process 2), its child (thread 5, process 3,   *)
(* with a second thread 6).                                                     *)
EXTENDS Scheduler, TLC

MCIdleTid == (0 :> 1) @@ (1 :> 2)

MCPidOf == (1 :> 0) @@ (2 :> 0) @@ (3 :> 1) @@ (4 :> 2) @@ (5 :> 3) @@ (6 :> 3)

(* Each load is small enough to explore and brings together the operations that *)
(* interfere with each other.                                                   *)
Waiting    == {"spawn", "activate", "wait", "exit", "fault", "block"}
Killing    == {"spawn", "activate", "wait", "exit", "kill", "other", "yield"}
Pumping    == {"spawn", "activate", "kernel", "kyield", "aging"}
Adjusting  == {"spawn", "activate", "priority", "aging", "yield"}
Protecting == {"spawn", "activate", "kernel", "section", "other", "yield"}
Threading  == {"spawn", "activate", "thread", "join", "exit", "yield"}

SafetyLoads == {Waiting, Killing, Pumping, Adjusting, Protecting, Threading}

\* Every thread is where its state says, whatever the CPUs, wakers, kills and
\* exits interleave: what runs is what the KPRCB names; a Ready thread is in one
\* run queue or about to be requeued, and has a frame to resume; a wait for a
\* child has someone to end it, and a process counts its threads.
ThreadsAccountedFor ==
    /\ RunningIsCurrent /\ QueueSound /\ ReadyIsQueued /\ ReadyFrame
    /\ WaiterHasChild /\ ThreadCountMatches
=============================================================================
