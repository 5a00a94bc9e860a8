------------------------------ MODULE Services ------------------------------
(***************************************************************************)
(* The service manager (services/): services with their state, process and  *)
(* restart policy, the control operations of the service system calls, and  *)
(* the two bounded queues that carry process exits and graceful stops out   *)
(* of the code that holds the scheduler lock or the service manager lock.   *)
(* The queues are drained at the end of every system call, on any CPU.      *)
(*                                                                          *)
(* A try_lock fails only when another CPU holds the lock, which is a choice *)
(* (the variable svcLoad says whether a behaviour has such contention).     *)
(***************************************************************************)
EXTENDS Integers, Sequences, FiniteSets

CONSTANTS ServiceNames,
          Chain,               \* service -> its dependencies, in start order, and itself
          Policy,              \* service -> "Never", "OnCrash", "Always"
          MAX_FAILURES, PENDING_EXIT_CAP, PENDING_SHUTDOWN_CAP,
          Drainers,            \* CPUs at the end of a system call
          MaxSpawns, SvcLoads

\* Every dependency names a service of the table.
ServicesAssumption == Chain \in [ServiceNames -> Seq(ServiceNames)]

VARIABLES svc, alive, spawned, pendingExits, pendingShutdowns, batch, asked, svcLoad,
          orphans,             \* processes replaced by a start while they were being stopped
          unreported           \* processes whose exit did not get into the queue

svcVars == <<svc, alive, spawned, pendingExits, pendingShutdowns, batch, asked, svcLoad,
             orphans, unreported>>

NoPid == 0
NoBatch == <<>>

Stopped == [state |-> "Stopped", pid |-> NoPid, shutdown_requested |-> FALSE,
            shutdown_notified |-> FALSE, elapsed |-> FALSE, failure_count |-> 0,
            stopping |-> FALSE]

find_by_pid(p) == {s \in ServiceNames : svc[s].pid # NoPid /\ svc[s].pid = p}
Contention == IF "contended" \in svcLoad THEN BOOLEAN ELSE {FALSE}

\* Mutant: the exit of a process is not reported.
ReportsNothing(q, p, code, lost) == q

\* The bounded queues: a push that finds the queue full or its lock taken is lost.
notify_process_exit(q, p, code, lost) ==
    IF Len(q) < PENDING_EXIT_CAP /\ ~lost THEN Append(q, <<p, code>>) ELSE q

CanLose == "contended" \in svcLoad \/ ~(Len(pendingExits) < PENDING_EXIT_CAP)
NoteUnreported == unreported' = IF pendingExits' = pendingExits /\ CanLose
                                THEN unreported \cup (alive \ alive') ELSE unreported

\* Mutant: the request is not queued, so no drain looks at the deadline.
DropsRequest(q, p, lost) == q

request_service_shutdown(q, p, lost) ==
    IF Len(q) < PENDING_SHUTDOWN_CAP /\ ~lost THEN Append(q, p) ELSE q

-----------------------------------------------------------------------------
(* Start.                                                                   *)

\* One service of the chain: refused, started (a new process), or its process
\* cannot be created. acc = [svc, alive, spawned, ok].
Refuses(r) == r.state \in {"Running", "Starting", "Stopping"}

spawn_process(acc, s, fails) ==
    IF fails THEN [acc EXCEPT !.svc[s].state = "Failed", !.svc[s].stopping = FALSE, !.ok = FALSE]
    ELSE [acc EXCEPT !.svc[s].state = "Running", !.svc[s].pid = acc.spawned + 1,
                     !.svc[s].stopping = FALSE,
                     !.orphans = IF acc.svc[s].shutdown_requested THEN @ \cup {acc.svc[s].pid} ELSE @,
                     !.alive = @ \cup {acc.spawned + 1}, !.spawned = @ + 1]

StartOne(acc, s, target, fails) ==
    CASE ~acc.ok -> acc
      [] acc.ok /\ s # target /\ acc.svc[s].state = "Running" -> acc
      [] acc.ok /\ Refuses(acc.svc[s]) /\ ~(s # target /\ acc.svc[s].state = "Running") ->
            [acc EXCEPT !.ok = FALSE]
      [] OTHER -> spawn_process(acc, s, fails)

World(v) == [svc |-> v, alive |-> alive, spawned |-> spawned, orphans |-> orphans, ok |-> TRUE]

\* start_service on a service: its dependencies first (the recursion), then itself.
Started(v, s, fails) ==
    LET f[i \in 0..Len(Chain[s])] ==
            IF i = 0 THEN World(v)
            ELSE CHOOSE next \in {StartOne(w, Chain[s][i], s, Chain[s][i] \in fails) : w \in {f[i - 1]}} :
                    TRUE
    IN f[Len(Chain[s])]

Install(acc) == /\ svc' = acc.svc /\ alive' = acc.alive
                /\ spawned' = acc.spawned /\ orphans' = acc.orphans

start_service(s) ==
    /\ "start" \in svcLoad
    /\ ~Refuses(svc[s])
    /\ spawned + Len(Chain[s]) <= MaxSpawns
    /\ \E fails \in {{}, {s}} : \E w \in {Started(svc, s, fails)} : Install(w)
    /\ UNCHANGED <<pendingExits, pendingShutdowns, batch, asked, svcLoad, unreported>>

\* The start of the automatic services at boot, in dependency order.
sm_start_auto_services(s) ==
    /\ "start" \notin svcLoad
    /\ svc[s] = Stopped /\ spawned + Len(Chain[s]) <= MaxSpawns /\ asked = {}
    /\ \E w \in {Started(svc, s, {})} : Install(w)
    /\ UNCHANGED <<pendingExits, pendingShutdowns, batch, asked, svcLoad, unreported>>

-----------------------------------------------------------------------------
(* Stop and restart.                                                        *)

\* (A running service always has a pid: the early return for pid 0 is not reached.)
stop_service(s) ==
    /\ "stop" \in svcLoad
    /\ svc[s].state \in {"Running", "Starting"}
    /\ svc' = [svc EXCEPT ![s].state = "StopPending", ![s].shutdown_requested = TRUE,
                          ![s].shutdown_notified = FALSE, ![s].elapsed = FALSE,
                          ![s].stopping = TRUE]
    /\ \E lost \in Contention :
         pendingShutdowns' = request_service_shutdown(pendingShutdowns, svc[s].pid, lost)
    /\ asked' = asked \cup {svc[s].pid}
    /\ UNCHANGED <<alive, spawned, pendingExits, batch, svcLoad, orphans, unreported>>

\* kill_pid: the process is gone and its exit queued; a process that is gone
\* already is not found.
Killed(p, q, lost) == IF p \in alive THEN notify_process_exit(q, p, -1, lost) ELSE q

restart_service(s) ==
    /\ "restart" \in svcLoad
    /\ svc[s].state \notin {"StopPending", "Stopping"}
    /\ spawned + Len(Chain[s]) <= MaxSpawns
    /\ \E lost \in Contention :
         LET p == svc[s].pid
             r == [svc EXCEPT ![s] = [Stopped EXCEPT !.failure_count = svc[s].failure_count]]
         IN /\ pendingExits' = Killed(p, pendingExits, lost)
            /\ \E w \in {Started(r, s, {})} :
                 Install([w EXCEPT !.alive = @ \ {p}])
    /\ NoteUnreported
    /\ UNCHANGED <<pendingShutdowns, batch, asked, svcLoad>>

-----------------------------------------------------------------------------
(* Exits.                                                                   *)

\* A process exits by itself, or is killed by another program.
terminate_current(p, code) ==
    /\ p \in alive
    /\ code # 0 => "crash" \in svcLoad
    /\ alive' = alive \ {p}
    /\ \E lost \in Contention : pendingExits' = notify_process_exit(pendingExits, p, code, lost)
    /\ NoteUnreported
    /\ UNCHANGED <<svc, spawned, pendingShutdowns, batch, asked, svcLoad, orphans>>

ShouldRestart(s, code) == \/ Policy[s] = "Always"
                          \/ Policy[s] = "OnCrash" /\ code # 0

Exited(r) == [r EXCEPT !.pid = NoPid, !.shutdown_requested = FALSE,
                       !.shutdown_notified = FALSE, !.elapsed = FALSE]
Finished(r) == [Exited(r) EXCEPT !.state = "Stopped", !.failure_count = 0]

\* Mutant: the restart policy is applied to a service that is being stopped too.
RestartsWhilePending(acc, s, code, fails) ==
    LET r == acc.svc[s]
    IN IF ShouldRestart(s, code) /\ r.failure_count < MAX_FAILURES /\ acc.spawned < MaxSpawns
       THEN [acc EXCEPT !.svc[s] = [Exited(r) EXCEPT !.failure_count = @ + 1, !.state = "Running",
                                                      !.pid = acc.spawned + 1],
                        !.alive = @ \cup {acc.spawned + 1}, !.spawned = @ + 1]
       ELSE [acc EXCEPT !.svc[s] = Finished(r)]

on_process_exit(acc, s, code, fails) ==
    LET r == acc.svc[s]
    IN CASE r.state \in {"Stopping", "StopPending"} \/ r.shutdown_requested ->
              [acc EXCEPT !.svc[s] = Finished(r)]
         [] /\ r.state \in {"Running", "Starting"} /\ ~r.shutdown_requested
            /\ ShouldRestart(s, code) /\ r.failure_count < MAX_FAILURES ->
              IF fails \/ acc.spawned >= MaxSpawns
              THEN [acc EXCEPT !.svc[s] = [Exited(r) EXCEPT !.state = "Failed",
                                                            !.failure_count = @ + 1]]
              ELSE [acc EXCEPT !.svc[s] = [Exited(r) EXCEPT !.state = "Running",
                                              !.failure_count = @ + 1, !.pid = acc.spawned + 1],
                               !.alive = @ \cup {acc.spawned + 1}, !.spawned = @ + 1]
         [] OTHER -> [acc EXCEPT !.svc[s] = [Exited(r) EXCEPT !.state =
                          IF r.state \in {"Running", "Starting"} THEN "Failed" ELSE r.state]]

on_process_exit_by_pid(acc, e, fails) ==
    LET owners == {s \in ServiceNames : acc.svc[s].pid = e[1]}
    IN IF owners = {} THEN acc
       ELSE on_process_exit(acc, CHOOSE s \in owners : TRUE, e[2], fails)

\* One round of the drain loop, which runs under the service manager lock and
\* ends when the queue is empty or its lock is taken.
process_pending_exits ==
    /\ pendingExits # <<>>
    /\ \E fails \in BOOLEAN : \E w \in {on_process_exit_by_pid(World(svc), Head(pendingExits), fails)} :
            Install(w)
    /\ pendingExits' = Tail(pendingExits)
    /\ UNCHANGED <<pendingShutdowns, batch, asked, svcLoad, unreported>>

-----------------------------------------------------------------------------
(* The graceful stops.                                                      *)

\* process_pending_shutdowns, first half: the requests leave the queue.
TakeRequests(d) ==
    /\ pendingShutdowns # <<>> /\ batch[d] = NoBatch
    /\ batch' = [batch EXCEPT ![d] = pendingShutdowns]
    /\ pendingShutdowns' = <<>>
    /\ UNCHANGED <<svc, alive, spawned, pendingExits, asked, svcLoad, orphans, unreported>>

\* One request of the batch: dropped when its service is not pending any more,
\* put back when the lock is contended or the deadline is ahead; past the
\* deadline the process is killed and the request put back, or its exit
\* reported once more when the process is gone already.
process_pending_shutdowns(d) ==
    /\ batch[d] # NoBatch
    /\ batch' = [batch EXCEPT ![d] = Tail(@)]
    /\ \E retry \in Contention, lost \in Contention :
         LET p == Head(batch[d])
             owners == {s \in find_by_pid(p) : svc[s].shutdown_requested}
             due == \E s \in owners : svc[s].elapsed
         IN /\ svc' = [s \in ServiceNames |-> IF s \in owners /\ ~retry
                          THEN [svc[s] EXCEPT !.shutdown_notified = TRUE] ELSE svc[s]]
            /\ alive' = IF ~retry /\ due THEN alive \ {p} ELSE alive
            /\ pendingExits' =
                 CASE retry \/ ~due -> pendingExits
                   [] ~retry /\ due /\ p \in alive -> Killed(p, pendingExits, lost)
                   [] OTHER -> notify_process_exit(pendingExits, p, -1, lost)
            /\ pendingShutdowns' =
                 IF retry \/ (owners # {} /\ (~due \/ p \in alive))
                 THEN request_service_shutdown(pendingShutdowns, p, lost) ELSE pendingShutdowns
    /\ NoteUnreported
    /\ UNCHANGED <<spawned, asked, svcLoad, orphans>>

stop_deadline_elapsed(s) ==
    /\ svc[s].shutdown_requested /\ ~svc[s].elapsed
    /\ svc' = [svc EXCEPT ![s].elapsed = TRUE]
    /\ UNCHANGED <<alive, spawned, pendingExits, pendingShutdowns, batch, asked, svcLoad, orphans,
                   unreported>>

SvcInit ==
    /\ svcLoad \in SvcLoads
    /\ svc = [s \in ServiceNames |-> Stopped]
    /\ alive = {} /\ spawned = 0 /\ asked = {} /\ orphans = {} /\ unreported = {}
    /\ pendingExits = <<>> /\ pendingShutdowns = <<>>
    /\ batch = [d \in Drainers |-> NoBatch]

SvcNext ==
    \/ \E s \in ServiceNames : \/ start_service(s) \/ stop_service(s) \/ restart_service(s)
                               \/ sm_start_auto_services(s) \/ stop_deadline_elapsed(s)
    \/ \E p \in 1..MaxSpawns, code \in {0, 1} : terminate_current(p, code)
    \/ process_pending_exits
    \/ \E d \in Drainers : TakeRequests(d) \/ process_pending_shutdowns(d)

\* Some program keeps making system calls, so the queues keep being drained;
\* the clock goes on.
SvcFair ==
    /\ WF_svcVars(process_pending_exits)
    /\ \A d \in Drainers : WF_svcVars(TakeRequests(d)) /\ WF_svcVars(process_pending_shutdowns(d))
    /\ \A s \in ServiceNames : WF_svcVars(stop_deadline_elapsed(s))

SvcSpec == SvcInit /\ [][SvcNext]_svcVars /\ SvcFair

-----------------------------------------------------------------------------
\* An administrative stop holds: from the moment stop_service accepts until the
\* service is started again by a call, no exit, crash, restart policy or drain
\* brings it back.
StopHolds == \A s \in ServiceNames : svc[s].stopping =>
                 svc[s].state \in {"StopPending", "Stopped"}

\* Every live process of a service is the one its entry names, unless a start
\* during its pending stop replaced it, and a service that claims to run has a
\* process that is alive or whose exit is queued, unless the report was lost to
\* a full or contended queue.
ProcessesAccountedFor ==
    /\ \A p \in alive \ orphans : find_by_pid(p) # {}
    /\ \A s \in ServiceNames : svc[s].state = "Running" =>
          \/ svc[s].pid \in alive \cup unreported
          \/ \E i \in 1..Len(pendingExits) : pendingExits[i][1] = svc[s].pid

\* A process whose graceful stop was requested does not outlive its deadline
\* for ever: it exits or is terminated (unless a start replaced it).
StopEnds == "contended" \notin svcLoad =>
                \A p \in 1..MaxSpawns : (p \in asked) ~> (p \notin alive \ orphans)

\* The same whatever other callers do: a service that does not exit before its
\* stop deadline is terminated by the forced fallback.
StopAlwaysEnds == \A p \in 1..MaxSpawns : (p \in asked) ~> (p \notin alive)
=============================================================================
