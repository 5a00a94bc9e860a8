-------------------------- MODULE ServicesProofs --------------------------
(***************************************************************************)
(* An administrative stop holds, for every set of services, every           *)
(* dependency order, restart policy and queue size.  The invariant is the   *)
(* property with the types of the service table; what needs an argument is  *)
(* start_service, whose recursion over the dependencies is a fold over the  *)
(* chain: each link keeps the property (StartOneKeeps), so by the least     *)
(* link that would not, the whole chain does (StartedKeeps).                *)
(*                                                                          *)
(* Every process is accounted for.  That is not inductive: ProcessInv adds  *)
(* that identifiers of processes are fresh, that no two services name the   *)
(* same process, that a dead process whose exit is still to be heard of is  *)
(* in the queue or known to be lost (Gone), and that an entry which names a *)
(* live process is Running or asked to stop, so that a start which replaces *)
(* it leaves an orphan behind and not a lost process (Right).               *)
(***************************************************************************)
EXTENDS Services, NaturalFacts

-----------------------------------------------------------------------------
\* The service manager.

States == {"Stopped", "Starting", "Running", "Stopping", "StopPending", "Failed"}
ServiceRecs == [state : States, pid : Nat, shutdown_requested : BOOLEAN,
                shutdown_notified : BOOLEAN, elapsed : BOOLEAN, failure_count : Nat,
                stopping : BOOLEAN]

\* An entry of the table on which an accepted stop still holds.
Holding == {r \in ServiceRecs : r.stopping => r.state \in {"StopPending", "Stopped"}}

\* What start_service and on_process_exit read and write.
Worlds == [svc : [ServiceNames -> Holding], alive : SUBSET Nat, spawned : Nat,
           orphans : SUBSET Nat, ok : BOOLEAN]

ServiceInv == /\ svc \in [ServiceNames -> Holding]
              /\ alive \in SUBSET Nat /\ spawned \in Nat /\ orphans \in SUBSET Nat

-----------------------------------------------------------------------------
\* A service entry replaced by one that holds leaves a table that holds.
LEMMA EntryReplaced ==
    ASSUME NEW v \in [ServiceNames -> Holding], NEW s \in ServiceNames, NEW r \in Holding
    PROVE  [v EXCEPT ![s] = r] \in [ServiceNames -> Holding]
  OBVIOUS

\* What spawning a process for s leaves: its entry Failed, or Running with a new
\* process; the process of an entry that was being stopped becomes an orphan.
Spawned(acc, s, w) ==
    /\ w \in Worlds
    /\ \A t \in ServiceNames \ {s} : w.svc[t] = acc.svc[t]
    /\ w.svc[s].shutdown_requested = acc.svc[s].shutdown_requested
    /\ \/ /\ w.alive = acc.alive /\ w.spawned = acc.spawned /\ w.orphans = acc.orphans
          /\ w.svc[s].pid = acc.svc[s].pid /\ w.svc[s].state = "Failed"
       \/ /\ w.alive = acc.alive \cup {acc.spawned + 1}
          /\ w.spawned = acc.spawned + 1
          /\ acc.svc[s].shutdown_requested => w.orphans = acc.orphans \cup {acc.svc[s].pid}
          /\ ~acc.svc[s].shutdown_requested => w.orphans = acc.orphans
          /\ w.svc[s].pid = acc.spawned + 1 /\ w.svc[s].state = "Running"

\* spawn_process: the new process, or the failure, ends the stop.
LEMMA SpawnKeeps ==
    ASSUME NEW acc \in Worlds, NEW s \in ServiceNames, NEW fails,
           NEW w, w = spawn_process(acc, s, fails)
    PROVE  Spawned(acc, s, w)
  <1> SUFFICES /\ w \in Worlds
               /\ \A t \in ServiceNames \ {s} : w.svc[t] = acc.svc[t]
               /\ w.svc[s].shutdown_requested = acc.svc[s].shutdown_requested
               /\ \/ /\ w.alive = acc.alive /\ w.spawned = acc.spawned /\ w.orphans = acc.orphans
                     /\ w.svc[s].pid = acc.svc[s].pid /\ w.svc[s].state = "Failed"
                  \/ /\ w.alive = acc.alive \cup {acc.spawned + 1}
                     /\ w.spawned = acc.spawned + 1
                     /\ acc.svc[s].shutdown_requested => w.orphans = acc.orphans \cup {acc.svc[s].pid}
                     /\ ~acc.svc[s].shutdown_requested => w.orphans = acc.orphans
                     /\ w.svc[s].pid = acc.spawned + 1 /\ w.svc[s].state = "Running"
    BY Zenon DEF Spawned
  <1> DEFINE n == acc.spawned + 1
             f == [acc.svc[s] EXCEPT !.state = "Failed", !.stopping = FALSE]
             r == [acc.svc[s] EXCEPT !.state = "Running", !.pid = n, !.stopping = FALSE]
             o == IF acc.svc[s].shutdown_requested THEN acc.orphans \cup {acc.svc[s].pid}
                  ELSE acc.orphans
  <1>1. acc.svc \in [ServiceNames -> Holding] /\ acc.svc[s] \in ServiceRecs /\ n \in Nat
    BY DEF Worlds, Holding
  <1>2. f \in Holding /\ r \in Holding
    BY ZenonT(60), <1>1 DEF Holding, ServiceRecs, States
  <1>3. o \in SUBSET Nat
    BY <1>1 DEF Worlds, ServiceRecs
  <1>4. [acc EXCEPT !.svc[s].state = "Failed", !.svc[s].stopping = FALSE, !.ok = FALSE]
          = [acc EXCEPT !.svc = [acc.svc EXCEPT ![s] = f], !.ok = FALSE]
    BY ZenonT(60), <1>1 DEF Worlds, ServiceRecs
  <1>5. [acc EXCEPT !.svc[s].state = "Running", !.svc[s].pid = acc.spawned + 1,
                     !.svc[s].stopping = FALSE,
                     !.orphans = IF acc.svc[s].shutdown_requested THEN @ \cup {acc.svc[s].pid} ELSE @,
                     !.alive = @ \cup {acc.spawned + 1}, !.spawned = @ + 1]
          = [acc EXCEPT !.svc = [acc.svc EXCEPT ![s] = r], !.orphans = o,
                        !.alive = acc.alive \cup {n}, !.spawned = n]
    <2> DEFINE e == [acc.svc EXCEPT ![s].state = "Running", ![s].pid = n, ![s].stopping = FALSE]
    <2>1. e = [acc.svc EXCEPT ![s] = r]
      BY ZenonT(60), <1>1 DEF ServiceRecs
    <2>2. [acc EXCEPT !.svc[s].state = "Running", !.svc[s].pid = acc.spawned + 1,
                     !.svc[s].stopping = FALSE,
                     !.orphans = IF acc.svc[s].shutdown_requested THEN @ \cup {acc.svc[s].pid} ELSE @,
                     !.alive = @ \cup {acc.spawned + 1}, !.spawned = @ + 1]
          = [acc EXCEPT !.svc = e, !.orphans = o, !.alive = acc.alive \cup {n}, !.spawned = n]
      BY ZenonT(60) DEF Worlds
    <2> QED
      BY ZenonT(60), <2>1, <2>2
  <1>6. [acc.svc EXCEPT ![s] = f] \in [ServiceNames -> Holding]
        /\ [acc.svc EXCEPT ![s] = r] \in [ServiceNames -> Holding]
    BY <1>1, <1>2, EntryReplaced
  <1> HIDE DEF n, f, r, o
  <1>7. CASE fails
    <2>1. w = [acc EXCEPT !.svc = [acc.svc EXCEPT ![s] = f], !.ok = FALSE]
      BY <1>4, <1>7 DEF spawn_process
    <2>2. w \in Worlds /\ w.svc = [acc.svc EXCEPT ![s] = f] /\ w.alive = acc.alive
          /\ w.spawned = acc.spawned /\ w.orphans = acc.orphans
      BY ZenonT(60), <1>6, <2>1 DEF Worlds
    <2>3. w.svc[s] = f /\ \A t \in ServiceNames \ {s} : w.svc[t] = acc.svc[t]
      BY <1>1, <2>2
    <2> QED
      BY ZenonT(60), <1>1, <1>7, <2>2, <2>3 DEF f, ServiceRecs
  <1>8. CASE ~fails
    <2>1. w = [acc EXCEPT !.svc = [acc.svc EXCEPT ![s] = r], !.orphans = o,
                          !.alive = acc.alive \cup {n}, !.spawned = n]
      BY <1>5, <1>8 DEF spawn_process
    <2>2. w \in Worlds /\ w.svc = [acc.svc EXCEPT ![s] = r] /\ w.alive = acc.alive \cup {n}
          /\ w.spawned = n /\ w.orphans = o
      <3>1. PICK v \in [ServiceNames -> Holding] : v = [acc.svc EXCEPT ![s] = r]
        BY ZenonT(60), <1>6
      <3>2. PICK a \in SUBSET Nat : a = acc.alive \cup {n}
        BY ZenonT(60), <1>1 DEF Worlds
      <3>3. w = [acc EXCEPT !.svc = v, !.orphans = o, !.alive = a, !.spawned = n]
        BY <2>1, <3>1, <3>2
      <3>4. w \in Worlds /\ w.svc = v /\ w.alive = a /\ w.spawned = n /\ w.orphans = o
        BY ZenonT(60), <1>1, <1>3, <3>3 DEF Worlds
      <3> QED
        BY <3>1, <3>2, <3>4
    <2>3. w.svc[s] = r /\ \A t \in ServiceNames \ {s} : w.svc[t] = acc.svc[t]
      BY <1>1, <2>2
    <2>4. r.pid = n /\ r.state = "Running" /\ r.shutdown_requested = acc.svc[s].shutdown_requested
      BY <1>1 DEF r, ServiceRecs
    <2> QED
      BY <1>8, <2>2, <2>3, <2>4 DEF n, o
  <1> QED
    BY <1>7, <1>8

\* One link of the chain.
LEMMA StartOneKeeps ==
    ASSUME NEW acc \in Worlds, NEW s \in ServiceNames, NEW target, NEW fails
    PROVE  StartOne(acc, s, target, fails) \in Worlds
  <1>1. [acc EXCEPT !.ok = FALSE] \in Worlds
    BY ZenonT(60) DEF Worlds
  <1>2. spawn_process(acc, s, fails) \in Worlds
    BY SpawnKeeps DEF Spawned
  <1> QED
    BY <1>1, <1>2 DEF StartOne

\* The chain: the recursion over the dependencies is well defined, and no
\* link is the first to leave a set of worlds that each link stays in.
LEMMA StartedStays ==
    ASSUME ServicesAssumption, NEW s \in ServiceNames, NEW v, NEW fails, NEW W, World(v) \in W,
           \A w \in W, x \in ServiceNames, b \in BOOLEAN : StartOne(w, x, s, b) \in W
    PROVE  Started(v, s, fails) \in W
  <1> DEFINE c == Chain[s]
             n == Len(c)
             Link(w, i) == StartOne(w, c[i], s, c[i] \in fails)
             Eq(f) == f = [i \in 0 .. n |-> IF i = 0 THEN World(v)
                             ELSE CHOOSE next \in {Link(w, i) : w \in {f[i - 1]}} : TRUE]
             t == [x \in W \X (1 .. n) |-> Link(x[1], x[2])]
             f0 == CHOOSE f : Eq(f)
  <1>1. n \in Nat /\ \A i \in 1 .. n : c[i] \in ServiceNames
    BY DEF ServicesAssumption
  <1>2. \A w \in W, i \in 1 .. n : Link(w, i) \in W
    <2> SUFFICES ASSUME NEW w \in W, NEW i \in 1 .. n PROVE StartOne(w, c[i], s, c[i] \in fails) \in W
      OBVIOUS
    <2>1. c[i] \in ServiceNames /\ (c[i] \in fails) \in BOOLEAN
      BY <1>1
    <2> HIDE DEF c
    <2> QED
      BY ZenonT(60), <2>1
  <1>3. \A w, i : (CHOOSE next \in {Link(u, i) : u \in {w}} : TRUE) = Link(w, i)
    <2> HIDE DEF Link
    <2> QED
      OBVIOUS
  <1>4. Started(v, s, fails) = f0[n]
    BY DEF Started
  <1> HIDE DEF Link, c, n
  <1>5. t \in [W \X (1 .. n) -> W]
    BY <1>2
  <1>5a. \A w \in W, i \in 1 .. n : t[<<w, i>>] = Link(w, i)
    BY <1>2
  <1> HIDE DEF t
  <1>6. PICK g \in [0 .. n -> W] :
            g[0] = World(v) /\ \A i \in 1 .. n : g[i] = t[<<g[i - 1], i>>]
    <2>1. n \in Nat
      BY <1>1
    <2>2. t \in StepFcns(W, n)
      BY <1>5 DEF StepFcns
    <2>3. PICK g : Iterates(g, W, World(v), n, t)
      BY <2>1, <2>2, Recursion
    <2> QED
      BY ZenonT(60), <2>3 DEF Iterates
  <1>7. Eq(g)
    <2>1. ASSUME NEW i \in 0 .. n
          PROVE  g[i] = IF i = 0 THEN World(v)
                        ELSE CHOOSE next \in {Link(w, i) : w \in {g[i - 1]}} : TRUE
      <3>1. CASE i = 0
        BY <1>6, <3>1
      <3>2. CASE i # 0
        <4>1. i \in 1 .. n /\ g[i - 1] \in W
          BY <1>1, <1>6, <3>2
        <4>2. g[i] = Link(g[i - 1], i)
          BY ZenonT(60), <1>5a, <1>6, <4>1
        <4> QED
          BY <1>3, <3>2, <4>2
      <3> QED
        BY <3>1, <3>2
    <2> QED
      BY <1>6, <2>1
  <1>8. Eq(f0)
    <2> HIDE DEF Eq
    <2> QED
      BY <1>7
  <1> HIDE DEF f0
  <1>9. f0[0] = World(v) /\ \A i \in 1 .. n : f0[i] = Link(f0[i - 1], i)
    BY <1>1, <1>3, <1>8
  <1> DEFINE Bad == {i \in 0 .. n : f0[i] \notin W}
  <1>10. ASSUME Bad # {} PROVE FALSE
    <2>1. Bad \subseteq Nat
      OBVIOUS
    <2>2. PICK k \in Bad : \A j \in Bad : k <= j
      <3> HIDE DEF Bad
      <3> QED
        BY ZenonT(60), <1>10, <2>1, LeastNatural
    <2>3. k \in 1 .. n /\ k - 1 \in 0 .. n /\ k - 1 \notin Bad
      BY <1>1, <1>9, <2>2
    <2> QED
      BY <1>2, <1>9, <2>2, <2>3
  <1>11. n \in 0 .. n
    BY <1>1
  <1> QED
    BY <1>4, <1>10, <1>11

\* start_service keeps the table's entries well formed along the whole chain of
\* dependencies.
LEMMA StartedKeeps ==
    ASSUME ServicesAssumption, NEW s \in ServiceNames, NEW v, NEW fails, World(v) \in Worlds
    PROVE  Started(v, s, fails) \in Worlds
  BY StartOneKeeps, StartedStays

-----------------------------------------------------------------------------
\* What an exit leaves of entry s: no process, or a new one.
AfterExit(acc, s, w) ==
    /\ w \in Worlds /\ w.orphans = acc.orphans
    /\ \A t \in ServiceNames \ {s} : w.svc[t] = acc.svc[t]
    /\ \/ /\ w.alive = acc.alive /\ w.spawned = acc.spawned
          /\ w.svc[s].pid = NoPid /\ w.svc[s].state # "Running"
       \/ /\ w.alive = acc.alive \cup {acc.spawned + 1} /\ w.spawned = acc.spawned + 1
          /\ w.svc[s].pid = acc.spawned + 1 /\ w.svc[s].state = "Running"

\* on_process_exit, whatever the entry's state: a stop that is pending ends in
\* Stopped, and the restart policy applies to a running service only.
LEMMA ExitKeeps ==
    ASSUME NEW acc \in Worlds, NEW s \in ServiceNames, NEW code, NEW fails,
           NEW w, w = on_process_exit(acc, s, code, fails)
    PROVE  AfterExit(acc, s, w)
  <1> SUFFICES /\ w \in Worlds /\ w.orphans = acc.orphans
               /\ \A t \in ServiceNames \ {s} : w.svc[t] = acc.svc[t]
               /\ \/ /\ w.alive = acc.alive /\ w.spawned = acc.spawned
                     /\ w.svc[s].pid = NoPid /\ w.svc[s].state # "Running"
                  \/ /\ w.alive = acc.alive \cup {acc.spawned + 1} /\ w.spawned = acc.spawned + 1
                     /\ w.svc[s].pid = acc.spawned + 1 /\ w.svc[s].state = "Running"
    BY Zenon DEF AfterExit
  <1> DEFINE r == acc.svc[s]
             n == acc.spawned + 1
             done == Finished(r)
             bad == [Exited(r) EXCEPT !.state = "Failed", !.failure_count = @ + 1]
             again == [Exited(r) EXCEPT !.state = "Running", !.failure_count = @ + 1, !.pid = n]
             left == [Exited(r) EXCEPT !.state =
                          IF r.state \in {"Running", "Starting"} THEN "Failed" ELSE r.state]
  <1>1. r \in Holding /\ n \in Nat /\ acc.svc \in [ServiceNames -> Holding]
    BY DEF Worlds
  <1>2. done \in Holding
    BY ZenonT(60), <1>1 DEF Finished, Exited, Holding, ServiceRecs, States, NoPid
  <1>3. ASSUME r.state \in {"Running", "Starting"} PROVE bad \in Holding /\ again \in Holding
    <2>1. ~r.stopping
      BY <1>1, <1>3 DEF Holding, ServiceRecs
    <2>2. Exited(r) \in ServiceRecs /\ ~Exited(r).stopping
      BY ZenonT(60), <1>1, <2>1 DEF Exited, Holding, ServiceRecs, NoPid
    <2>3. ASSUME NEW x \in ServiceRecs, ~x.stopping, NEW k \in Nat
          PROVE  /\ [x EXCEPT !.state = "Failed", !.failure_count = @ + 1] \in Holding
                 /\ [x EXCEPT !.state = "Running", !.failure_count = @ + 1, !.pid = k] \in Holding
      <3>1. x.failure_count + 1 \in Nat
        BY DEF ServiceRecs
      <3> QED
        BY ZenonT(60), <2>3, <3>1 DEF Holding, ServiceRecs, States
    <2> QED
      BY ZenonT(60), <1>1, <2>2, <2>3
  <1>4. left \in Holding
    BY ZenonT(60), <1>1 DEF Exited, Holding, ServiceRecs, States, NoPid
  <1>2a. done.pid = NoPid /\ done.state # "Running"
    BY <1>1 DEF Finished, Exited, Holding, ServiceRecs
  <1>3a. bad.pid = NoPid /\ bad.state # "Running" /\ again.pid = n /\ again.state = "Running"
    BY <1>1 DEF Exited, Holding, ServiceRecs
  <1>4a. left.pid = NoPid /\ left.state # "Running"
    BY <1>1 DEF Exited, Holding, ServiceRecs
  <1> HIDE DEF done, bad, again, left, n
  <1>5. ASSUME NEW q \in Holding, w = [acc EXCEPT !.svc[s] = q]
        PROVE  /\ w \in Worlds /\ w.orphans = acc.orphans
               /\ w.alive = acc.alive /\ w.spawned = acc.spawned
               /\ w.svc[s] = q /\ \A t \in ServiceNames \ {s} : w.svc[t] = acc.svc[t]
    <2>1. [acc.svc EXCEPT ![s] = q] \in [ServiceNames -> Holding]
      BY <1>1, EntryReplaced
    <2>2. w \in Worlds /\ w.orphans = acc.orphans /\ w.alive = acc.alive
          /\ w.spawned = acc.spawned /\ w.svc = [acc.svc EXCEPT ![s] = q]
      BY <1>5, <2>1 DEF Worlds
    <2> QED
      BY <1>1, <2>2
  <1>5a. ASSUME NEW q \in Holding,
                w = [acc EXCEPT !.svc[s] = q, !.alive = @ \cup {acc.spawned + 1}, !.spawned = @ + 1]
         PROVE  /\ w \in Worlds /\ w.orphans = acc.orphans
                /\ w.alive = acc.alive \cup {acc.spawned + 1} /\ w.spawned = acc.spawned + 1
                /\ w.svc[s] = q /\ \A t \in ServiceNames \ {s} : w.svc[t] = acc.svc[t]
    <2>1. [acc.svc EXCEPT ![s] = q] \in [ServiceNames -> Holding]
      BY <1>1, EntryReplaced
    <2>2. w \in Worlds /\ w.orphans = acc.orphans /\ w.alive = acc.alive \cup {acc.spawned + 1}
          /\ w.spawned = acc.spawned + 1 /\ w.svc = [acc.svc EXCEPT ![s] = q]
      <3>1. PICK v \in [ServiceNames -> Holding] : v = [acc.svc EXCEPT ![s] = q]
        BY ZenonT(60), <2>1
      <3>2. PICK k \in Nat : k = acc.spawned + 1
        BY <1>1 DEF n
      <3>3. PICK a \in SUBSET Nat : a = acc.alive \cup {k}
        BY ZenonT(60) DEF Worlds
      <3>4. w = [acc EXCEPT !.svc = v, !.alive = a, !.spawned = k]
        BY <1>5a, <3>1, <3>2, <3>3 DEF Worlds
      <3>5. w \in Worlds /\ w.orphans = acc.orphans /\ w.alive = a /\ w.spawned = k /\ w.svc = v
        BY ZenonT(60), <3>4 DEF Worlds
      <3> QED
        BY <3>1, <3>2, <3>3, <3>5
    <2> QED
      BY <1>1, <2>2
  <1>6. CASE r.state \in {"Stopping", "StopPending"} \/ r.shutdown_requested
    <2>1. w = [acc EXCEPT !.svc[s] = done]
      BY <1>6 DEF on_process_exit, done
    <2> QED
      BY <1>2, <1>2a, <1>5, <2>1
  <1>7. CASE /\ r.state \in {"Running", "Starting"} /\ ~r.shutdown_requested
             /\ ShouldRestart(s, code) /\ r.failure_count < MAX_FAILURES
    <2>1. w = IF fails \/ acc.spawned >= MaxSpawns THEN [acc EXCEPT !.svc[s] = bad]
              ELSE [acc EXCEPT !.svc[s] = again, !.alive = @ \cup {acc.spawned + 1},
                               !.spawned = @ + 1]
      BY <1>7 DEF on_process_exit, bad, again, n
    <2>2. CASE fails \/ acc.spawned >= MaxSpawns
      BY <1>3, <1>3a, <1>5, <1>7, <2>1, <2>2
    <2>3. CASE ~(fails \/ acc.spawned >= MaxSpawns)
      BY ZenonT(60), <1>3, <1>3a, <1>5a, <1>7, <2>1, <2>3 DEF n
    <2> QED
      BY <2>2, <2>3
  <1>8. CASE /\ ~(r.state \in {"Stopping", "StopPending"} \/ r.shutdown_requested)
             /\ ~(/\ r.state \in {"Running", "Starting"} /\ ~r.shutdown_requested
                  /\ ShouldRestart(s, code) /\ r.failure_count < MAX_FAILURES)
    <2>1. w = [acc EXCEPT !.svc[s] = left]
      BY <1>8 DEF on_process_exit, left
    <2> QED
      BY <1>4, <1>4a, <1>5, <2>1
  <1> QED
    BY <1>6, <1>7, <1>8

\* The table as start_service and on_process_exit see it, and as they leave it.
LEMMA WorldTyped ==
    ASSUME ServiceInv, NEW v \in [ServiceNames -> Holding]
    PROVE  World(v) \in Worlds
  BY DEF ServiceInv, World, Worlds

\* Installing such a table keeps the stop invariant.
LEMMA InstallKeeps ==
    ASSUME NEW w \in Worlds, Install(w)
    PROVE  ServiceInv'
  BY DEF Install, Worlds, ServiceInv

\* start_service and the start of the automatic services.
LEMMA StartKeeps ==
    ASSUME ServicesAssumption, ServiceInv, NEW s \in ServiceNames,
           start_service(s) \/ sm_start_auto_services(s)
    PROVE  ServiceInv'
  <1>1. World(svc) \in Worlds
    BY WorldTyped DEF ServiceInv
  <1>2. PICK fails : Install(Started(svc, s, fails))
    BY DEF start_service, sm_start_auto_services
  <1> QED
    BY <1>1, <1>2, StartedKeeps, InstallKeeps

\* stop_service: the stop is accepted.
LEMMA StopKeeps ==
    ASSUME ServiceInv, NEW s \in ServiceNames, stop_service(s)
    PROVE  ServiceInv'
  <1> DEFINE q == [svc[s] EXCEPT !.state = "StopPending", !.shutdown_requested = TRUE,
                          !.shutdown_notified = FALSE, !.elapsed = FALSE, !.stopping = TRUE]
  <1>1. svc[s] \in ServiceRecs /\ svc \in [ServiceNames -> Holding]
    BY DEF ServiceInv, Holding
  <1>2. q \in Holding
    BY ZenonT(60), <1>1 DEF Holding, ServiceRecs, States
  <1>3. svc' = [svc EXCEPT ![s] = q]
    BY ZenonT(60), <1>1 DEF stop_service, ServiceRecs
  <1>4. UNCHANGED <<alive, spawned, orphans>>
    BY DEF stop_service
  <1> HIDE DEF q
  <1>5. svc' \in [ServiceNames -> Holding]
    BY <1>1, <1>2, <1>3, EntryReplaced
  <1> QED
    BY <1>4, <1>5 DEF ServiceInv

\* restart_service: a call, so the stop is over; the chain is started again.
LEMMA RestartKeeps ==
    ASSUME ServicesAssumption, ServiceInv, NEW s \in ServiceNames, restart_service(s)
    PROVE  ServiceInv'
  <1> DEFINE q == [Stopped EXCEPT !.failure_count = svc[s].failure_count]
             r == [svc EXCEPT ![s] = q]
             p == svc[s].pid
  <1>1. svc[s] \in ServiceRecs /\ svc \in [ServiceNames -> Holding]
    BY DEF ServiceInv, Holding
  <1>2. q \in Holding
    BY ZenonT(60), <1>1 DEF Holding, ServiceRecs, States, Stopped, NoPid
  <1>3. Install([Started(r, s, {}) EXCEPT !.alive = @ \ {p}])
    BY DEF restart_service
  <1> HIDE DEF q, p
  <1>4. r \in [ServiceNames -> Holding]
    BY <1>1, <1>2, EntryReplaced
  <1> HIDE DEF r
  <1>5. World(r) \in Worlds
    BY <1>4, WorldTyped
  <1>6. Started(r, s, {}) \in Worlds
    BY <1>5, StartedKeeps
  <1>7. [Started(r, s, {}) EXCEPT !.alive = @ \ {p}] \in Worlds
    BY <1>6 DEF Worlds
  <1> QED
    BY <1>3, <1>7, InstallKeeps

\* The drain of the exits.
LEMMA DrainKeeps ==
    ASSUME ServiceInv, process_pending_exits
    PROVE  ServiceInv'
  <1>1. World(svc) \in Worlds
    BY WorldTyped DEF ServiceInv
  <1>2. PICK fails : Install(on_process_exit_by_pid(World(svc), Head(pendingExits), fails))
    BY DEF process_pending_exits
  <1>3. on_process_exit_by_pid(World(svc), Head(pendingExits), fails) \in Worlds
    BY <1>1, ExitKeeps DEF on_process_exit_by_pid, AfterExit
  <1> QED
    BY <1>2, <1>3, InstallKeeps

\* The graceful stops change the flags of an entry, never its state.
LEMMA ShutdownKeeps ==
    ASSUME ServiceInv, NEW d \in Drainers, process_pending_shutdowns(d)
    PROVE  ServiceInv'
  <1> DEFINE o == {s \in find_by_pid(Head(batch[d])) : svc[s].shutdown_requested}
  <1>1. PICK retry : svc' = [s \in ServiceNames |-> IF s \in o /\ ~retry
                                  THEN [svc[s] EXCEPT !.shutdown_notified = TRUE] ELSE svc[s]]
    BY DEF process_pending_shutdowns
  <1> HIDE DEF o
  <1>2. ASSUME NEW s \in ServiceNames
        PROVE  svc[s] \in Holding /\ [svc[s] EXCEPT !.shutdown_notified = TRUE] \in Holding
    BY ZenonT(60) DEF ServiceInv, Holding, ServiceRecs
  <1>3. svc' \in [ServiceNames -> Holding]
    BY <1>1, <1>2
  <1>4. alive' \in SUBSET Nat /\ UNCHANGED <<spawned, orphans>>
    BY DEF process_pending_shutdowns, ServiceInv
  <1> QED
    BY <1>3, <1>4 DEF ServiceInv

\* The stop deadline of an entry elapsing.
LEMMA DeadlineKeeps ==
    ASSUME ServiceInv, NEW s \in ServiceNames, stop_deadline_elapsed(s)
    PROVE  ServiceInv'
  <1> DEFINE q == [svc[s] EXCEPT !.elapsed = TRUE]
  <1>1. svc[s] \in Holding /\ svc \in [ServiceNames -> Holding]
    BY DEF ServiceInv
  <1>2. q \in Holding
    BY ZenonT(60), <1>1 DEF Holding, ServiceRecs
  <1>3. svc' = [svc EXCEPT ![s] = q] /\ UNCHANGED <<alive, spawned, orphans>>
    BY <1>1 DEF stop_deadline_elapsed
  <1> HIDE DEF q
  <1> QED
    BY <1>1, <1>2, <1>3, EntryReplaced DEF ServiceInv

-----------------------------------------------------------------------------
\* From the moment stop_service accepts until a call starts the service again,
\* no exit, crash, restart policy or drain brings it back.
THEOREM StopsHold ==
    ASSUME ServicesAssumption
    PROVE  SvcSpec => []StopHolds
  <1>1. SvcInit => ServiceInv
    BY DEF SvcInit, ServiceInv, Holding, ServiceRecs, States, Stopped, NoPid
  <1>2. ServiceInv /\ [SvcNext]_svcVars => ServiceInv'
    <2> SUFFICES ASSUME ServiceInv, [SvcNext]_svcVars PROVE ServiceInv'
      OBVIOUS
    <2>1. ASSUME NEW s \in ServiceNames, start_service(s) \/ sm_start_auto_services(s)
          PROVE  ServiceInv'
      BY <2>1, StartKeeps
    <2>2. ASSUME NEW s \in ServiceNames, stop_service(s) PROVE ServiceInv'
      BY <2>2, StopKeeps
    <2>3. ASSUME NEW s \in ServiceNames, restart_service(s) PROVE ServiceInv'
      BY <2>3, RestartKeeps
    <2>4. ASSUME NEW s \in ServiceNames, stop_deadline_elapsed(s) PROVE ServiceInv'
      BY <2>4, DeadlineKeeps
    <2>5. ASSUME NEW p, NEW code, terminate_current(p, code) PROVE ServiceInv'
      BY <2>5 DEF terminate_current, ServiceInv
    <2>6. CASE process_pending_exits
      BY <2>6, DrainKeeps
    <2>7. ASSUME NEW d \in Drainers, TakeRequests(d) PROVE ServiceInv'
      BY <2>7 DEF TakeRequests, ServiceInv
    <2>8. ASSUME NEW d \in Drainers, process_pending_shutdowns(d) PROVE ServiceInv'
      BY <2>8, ShutdownKeeps
    <2>9. CASE UNCHANGED svcVars
      BY <2>9 DEF svcVars, ServiceInv
    <2> QED
      BY <2>1, <2>2, <2>3, <2>4, <2>5, <2>6, <2>7, <2>8, <2>9 DEF SvcNext
  <1>3. ServiceInv => StopHolds
    BY DEF ServiceInv, StopHolds, Holding
  <1> QED
    BY <1>1, <1>2, <1>3, PTL DEF SvcSpec

-----------------------------------------------------------------------------
\* The processes of the services.

\* The processes a queue of exits names.
PidsOf(q) == {q[i][1] : i \in 1 .. Len(q)}
Exits == Seq(Nat \X Int)

\* Processes that are gone and whose service may not have heard of it.
Gone == PidsOf(pendingExits) \cup unreported

\* Worlds in which every live process has its entry, except for those in X, whose
\* entries have been reset, and every service that runs has a process, alive or
\* in D.  An entry that names a live process can be started again only when the
\* process was asked to stop, so that its replacement makes it an orphan.
Bounded(w, X, D) ==
    /\ w.alive \subseteq 1 .. w.spawned /\ X \subseteq 1 .. w.spawned
    /\ D \subseteq (1 .. w.spawned) \ w.alive
PidsBounded(w, X) == \A s \in ServiceNames : w.svc[s].pid <= w.spawned /\ w.svc[s].pid \notin X
OwnPids(w) ==
    \A s, t \in ServiceNames : w.svc[s].pid = w.svc[t].pid /\ w.svc[s].pid # NoPid => s = t
LiveOwned(w, X) ==
    \A p \in w.alive \ (w.orphans \cup X) : \E s \in ServiceNames : w.svc[s].pid = p
RunningLive(w, D) ==
    \A s \in ServiceNames : w.svc[s].state = "Running" => w.svc[s].pid \in w.alive \cup D
LiveWanted(w) ==
    \A s \in ServiceNames : w.svc[s].pid \in w.alive =>
          w.svc[s].state = "Running" \/ w.svc[s].shutdown_requested
IsRight(w, X, D) ==
    /\ Bounded(w, X, D) /\ PidsBounded(w, X) /\ OwnPids(w)
    /\ LiveOwned(w, X) /\ RunningLive(w, D) /\ LiveWanted(w)
Right(X, D) == {w \in Worlds : IsRight(w, X, D)}

ProcessInv == ServiceInv /\ pendingExits \in Exits /\ World(svc) \in Right({}, Gone)

\* A process put into the queue, and the one at its head taken out.
LEMMA PidsAppended ==
    ASSUME NEW q \in Exits, NEW p \in Nat, NEW code \in Int
    PROVE  /\ Append(q, <<p, code>>) \in Exits
           /\ PidsOf(Append(q, <<p, code>>)) = PidsOf(q) \cup {p}
  <1> DEFINE r == Append(q, <<p, code>>)
  <1>1. r \in Exits /\ Len(r) = Len(q) + 1 /\ Len(q) \in Nat
    BY DEF Exits
  <1>2. \A i \in 1 .. Len(q) : r[i] = q[i]
    BY DEF Exits
  <1>3. r[Len(q) + 1] = <<p, code>>
    BY DEF Exits
  <1> HIDE DEF r
  <1>4. PidsOf(r) = PidsOf(q) \cup {p}
    BY <1>1, <1>2, <1>3 DEF PidsOf
  <1> QED
    BY <1>1, <1>4 DEF r

\* Taking the oldest exit leaves the pids of the others in the queue.
LEMMA PidsTaken ==
    ASSUME NEW q \in Exits, q # <<>>
    PROVE  /\ Tail(q) \in Exits /\ Head(q) \in Nat \X Int
           /\ PidsOf(q) = PidsOf(Tail(q)) \cup {Head(q)[1]}
  <1> DEFINE r == Tail(q)
  <1>1. r \in Exits /\ Len(r) = Len(q) - 1 /\ Len(q) \in Nat \ {0} /\ Head(q) = q[1] /\ q[1] \in Nat \X Int
    BY DEF Exits
  <1>2. \A i \in 1 .. Len(r) : r[i] = q[i + 1]
    BY <1>1 DEF Exits
  <1> HIDE DEF r
  <1>3. PidsOf(q) \subseteq PidsOf(r) \cup {q[1][1]}
    <2> SUFFICES ASSUME NEW i \in 1 .. Len(q) PROVE q[i][1] \in PidsOf(r) \cup {q[1][1]}
      BY DEF PidsOf
    <2>1. CASE i = 1
      BY <2>1
    <2>2. CASE i # 1
      <3>1. i - 1 \in 1 .. Len(r) /\ r[i - 1] = q[i]
        BY <1>1, <1>2, <2>2
      <3> QED
        BY <3>1 DEF PidsOf
    <2> QED
      BY <2>1, <2>2
  <1>4. PidsOf(r) \subseteq PidsOf(q) /\ q[1][1] \in PidsOf(q)
    BY <1>1, <1>2 DEF PidsOf
  <1> QED
    BY <1>1, <1>3, <1>4 DEF r

\* A process started for an entry that names no live process, or only one that
\* was asked to stop.
LEMMA SpawnRight ==
    ASSUME NEW X, NEW D, NEW acc \in Right(X, D), NEW s \in ServiceNames, NEW fails,
           acc.svc[s].state # "Running"
    PROVE  /\ spawn_process(acc, s, fails) \in Right(X, D)
           /\ acc.alive \subseteq spawn_process(acc, s, fails).alive
  <1>1. PICK w : w = spawn_process(acc, s, fails)
    OBVIOUS
  <1>2. PICK n : n = acc.spawned + 1
    OBVIOUS
  <1>3. acc \in Worlds /\ acc.spawned \in Nat /\ n \in Nat
    BY <1>2 DEF Right, Worlds
  <1>4. /\ Bounded(acc, X, D) /\ PidsBounded(acc, X) /\ OwnPids(acc)
        /\ LiveOwned(acc, X) /\ RunningLive(acc, D) /\ LiveWanted(acc)
    BY Zenon DEF Right, IsRight
  <1>4a. Spawned(acc, s, w)
    BY <1>1, <1>3, SpawnKeeps
  <1>5. /\ w \in Worlds
        /\ \A t \in ServiceNames \ {s} : w.svc[t] = acc.svc[t]
        /\ w.svc[s].shutdown_requested = acc.svc[s].shutdown_requested
    BY Zenon, <1>4a DEF Spawned
  <1>6. \/ /\ w.alive = acc.alive /\ w.spawned = acc.spawned /\ w.orphans = acc.orphans
           /\ w.svc[s].pid = acc.svc[s].pid /\ w.svc[s].state = "Failed"
        \/ /\ w.alive = acc.alive \cup {n} /\ w.spawned = n
           /\ acc.svc[s].shutdown_requested => w.orphans = acc.orphans \cup {acc.svc[s].pid}
           /\ ~acc.svc[s].shutdown_requested => w.orphans = acc.orphans
           /\ w.svc[s].pid = n /\ w.svc[s].state = "Running"
    BY Zenon, <1>2, <1>4a DEF Spawned
  <1>7. CASE /\ w.alive = acc.alive /\ w.spawned = acc.spawned /\ w.orphans = acc.orphans
             /\ w.svc[s].pid = acc.svc[s].pid /\ w.svc[s].state = "Failed"
    <2>1. \A t \in ServiceNames :
             /\ w.svc[t].pid = acc.svc[t].pid
             /\ w.svc[t].shutdown_requested = acc.svc[t].shutdown_requested
             /\ w.svc[t].state = "Running" <=> acc.svc[t].state = "Running"
      BY <1>5, <1>7
    <2>2. Bounded(w, X, D) /\ PidsBounded(w, X)
      BY Zenon, <1>4, <1>7, <2>1 DEF Bounded, PidsBounded
    <2>3. OwnPids(w)
      BY <1>4, <2>1 DEF OwnPids
    <2>4. LiveOwned(w, X)
      BY <1>4, <1>7, <2>1 DEF LiveOwned
    <2>5. RunningLive(w, D)
      BY Zenon, <1>4, <1>7, <2>1 DEF RunningLive
    <2>6. LiveWanted(w)
      BY <1>4, <1>7, <2>1 DEF LiveWanted
    <2>7. w \in Right(X, D)
      BY Zenon, <1>5, <2>2, <2>3, <2>4, <2>5, <2>6 DEF Right, IsRight
    <2> QED
      BY Zenon, <1>1, <1>7, <2>7
  <1>8. CASE /\ w.alive = acc.alive \cup {n} /\ w.spawned = n
             /\ acc.svc[s].shutdown_requested => w.orphans = acc.orphans \cup {acc.svc[s].pid}
             /\ ~acc.svc[s].shutdown_requested => w.orphans = acc.orphans
             /\ w.svc[s].pid = n /\ w.svc[s].state = "Running"
    <2>1. \A t \in ServiceNames : acc.svc[t].pid \in Nat
      BY <1>3 DEF Worlds, Holding, ServiceRecs
    <2>2. /\ acc.alive \subseteq 1 .. acc.spawned /\ X \subseteq 1 .. acc.spawned
          /\ D \subseteq (1 .. acc.spawned) \ acc.alive
      BY Zenon, <1>4 DEF Bounded
    <2>3. n \notin acc.alive /\ n \notin X /\ n \notin D /\ n # NoPid
      BY <1>2, <1>3, <2>2 DEF NoPid
    <2>4. \A t \in ServiceNames : acc.svc[t].pid # n /\ acc.svc[t].pid <= n /\ acc.svc[t].pid \notin X
      BY <1>2, <1>3, <1>4, <2>1 DEF PidsBounded
    <2>5. Bounded(w, X, D)
      <3>1. (1 .. acc.spawned) \subseteq 1 .. n /\ n \in 1 .. n
        BY <1>2, <1>3
      <3> QED
        BY Zenon, <1>8, <2>2, <2>3, <3>1 DEF Bounded
    <2>6. \A t \in ServiceNames : w.svc[t].pid = IF t = s THEN n ELSE acc.svc[t].pid
      BY Zenon, <1>5, <1>8
    <2>7. PidsBounded(w, X)
      BY <1>3, <1>8, <2>3, <2>4, <2>6 DEF PidsBounded
    <2>8. OwnPids(w)
      BY <1>4, <2>4, <2>6 DEF OwnPids
    <2>9. LiveOwned(w, X)
      <3> SUFFICES ASSUME NEW p \in w.alive \ (w.orphans \cup X)
                   PROVE  \E t \in ServiceNames : w.svc[t].pid = p
        BY Zenon DEF LiveOwned
      <3>1. CASE p = n
        BY Zenon, <1>8, <3>1
      <3>2. CASE p # n
        <4>1. p \in acc.alive \ (acc.orphans \cup X)
          BY <1>8, <3>2
        <4>2. PICK t \in ServiceNames : acc.svc[t].pid = p
          BY Zenon, <1>4, <4>1 DEF LiveOwned
        <4>3. t # s
          BY <1>4, <1>8, <4>1, <4>2 DEF LiveWanted
        <4> QED
          BY Zenon, <1>5, <4>2, <4>3
      <3> QED
        BY <3>1, <3>2
    <2>10. RunningLive(w, D)
      <3> SUFFICES ASSUME NEW t \in ServiceNames, w.svc[t].state = "Running"
                   PROVE  w.svc[t].pid \in w.alive \cup D
        BY Zenon DEF RunningLive
      <3>1. CASE t = s
        BY Zenon, <1>8, <3>1
      <3>2. CASE t # s
        <4>1. w.svc[t] = acc.svc[t]
          BY Zenon, <1>5, <3>2
        <4>2. acc.svc[t].pid \in acc.alive \cup D
          BY Zenon, <1>4, <4>1 DEF RunningLive
        <4> QED
          BY Zenon, <1>8, <4>1, <4>2
      <3> QED
        BY <3>1, <3>2
    <2>11. LiveWanted(w)
      <3> SUFFICES ASSUME NEW t \in ServiceNames, w.svc[t].pid \in w.alive, t # s
                   PROVE  w.svc[t].state = "Running" \/ w.svc[t].shutdown_requested
        BY Zenon, <1>8 DEF LiveWanted
      <3>1. w.svc[t] = acc.svc[t]
        BY Zenon, <1>5
      <3>2. acc.svc[t].pid \in acc.alive
        BY Zenon, <1>8, <2>4, <3>1
      <3> QED
        BY Zenon, <1>4, <3>1, <3>2 DEF LiveWanted
    <2>12. w \in Right(X, D)
      BY Zenon, <1>5, <2>5, <2>7, <2>8, <2>9, <2>10, <2>11 DEF Right, IsRight
    <2> QED
      BY Zenon, <1>1, <1>8, <2>12
  <1> QED
    BY <1>6, <1>7, <1>8

\* Starting one service of the chain, refused, already running or spawned,
\* keeps the accounting and loses no process.
LEMMA StartOneRight ==
    ASSUME NEW X, NEW D, NEW acc \in Right(X, D), NEW s \in ServiceNames, NEW target,
           NEW fails \in BOOLEAN
    PROVE  /\ StartOne(acc, s, target, fails) \in Right(X, D)
           /\ acc.alive \subseteq StartOne(acc, s, target, fails).alive
  <1>1. [acc EXCEPT !.ok = FALSE] \in Right(X, D) /\ [acc EXCEPT !.ok = FALSE].alive = acc.alive
    <2>1. acc \in Worlds
      BY DEF Right, IsRight
    <2> DEFINE w == [acc EXCEPT !.ok = FALSE]
    <2>2. w \in Worlds /\ w.svc = acc.svc /\ w.alive = acc.alive /\ w.spawned = acc.spawned
          /\ w.orphans = acc.orphans
      BY ZenonT(60), <2>1 DEF Worlds
    <2> HIDE DEF w
    <2>3. w \in Right(X, D)
      <3>1. /\ Bounded(acc, X, D) /\ PidsBounded(acc, X) /\ OwnPids(acc) /\ LiveOwned(acc, X)
            /\ RunningLive(acc, D) /\ LiveWanted(acc)
        BY Zenon DEF Right, IsRight
      <3>2. Bounded(w, X, D)
        BY Zenon, <2>2, <3>1 DEF Bounded
      <3>3. PidsBounded(w, X)
        BY Zenon, <2>2, <3>1 DEF PidsBounded
      <3>4. OwnPids(w)
        BY <2>2, <3>1 DEF OwnPids
      <3>5. LiveOwned(w, X)
        BY Zenon, <2>2, <3>1 DEF LiveOwned
      <3>6. RunningLive(w, D)
        BY Zenon, <2>2, <3>1 DEF RunningLive
      <3>7. LiveWanted(w)
        BY Zenon, <2>2, <3>1 DEF LiveWanted
      <3> QED
        BY Zenon, <2>2, <3>2, <3>3, <3>4, <3>5, <3>6, <3>7 DEF Right, IsRight
    <2> QED
      BY <2>2, <2>3 DEF w
  <1> QED
    BY <1>1, SpawnRight DEF StartOne, Refuses

\* The exit of a process that is gone: its entry forgets it, and names a new
\* process if the policy says so.
LEMMA ExitRight ==
    ASSUME NEW D, NEW acc \in Right({}, D), NEW s \in ServiceNames, NEW code, NEW fails,
           acc.svc[s].pid # NoPid, acc.svc[s].pid \notin acc.alive,
           NEW w, w = on_process_exit(acc, s, code, fails)
    PROVE  w \in Right({}, D) /\ \A t \in ServiceNames : w.svc[t].pid # acc.svc[s].pid
  <1>1. PICK n : n = acc.spawned + 1
    OBVIOUS
  <1>2. acc \in Worlds /\ acc.spawned \in Nat /\ n \in Nat
    BY <1>1 DEF Right, Worlds
  <1>3. \A t \in ServiceNames : acc.svc[t].pid \in Nat
    BY <1>2 DEF Worlds, Holding, ServiceRecs
  <1>4. /\ Bounded(acc, {}, D) /\ PidsBounded(acc, {}) /\ OwnPids(acc)
        /\ LiveOwned(acc, {}) /\ RunningLive(acc, D) /\ LiveWanted(acc)
    BY Zenon DEF Right, IsRight
  <1>5. AfterExit(acc, s, w)
    BY <1>2, ExitKeeps
  <1>6. w \in Worlds /\ w.orphans = acc.orphans /\ \A t \in ServiceNames \ {s} : w.svc[t] = acc.svc[t]
    BY Zenon, <1>5 DEF AfterExit
  <1>7. \/ /\ w.alive = acc.alive /\ w.spawned = acc.spawned
           /\ w.svc[s].pid = NoPid /\ w.svc[s].state # "Running"
        \/ /\ w.alive = acc.alive \cup {n} /\ w.spawned = n
           /\ w.svc[s].pid = n /\ w.svc[s].state = "Running"
    BY Zenon, <1>1, <1>5 DEF AfterExit
  <1>8. /\ acc.alive \subseteq 1 .. acc.spawned /\ D \subseteq (1 .. acc.spawned) \ acc.alive
    BY Zenon, <1>4 DEF Bounded
  <1>9. n \notin acc.alive /\ n \notin D /\ n # NoPid /\ NoPid \notin acc.alive
        /\ (1 .. acc.spawned) \subseteq 1 .. n /\ n \in 1 .. n
    BY <1>1, <1>2, <1>8 DEF NoPid
  <1>10. \A t \in ServiceNames : acc.svc[t].pid # n /\ acc.svc[t].pid <= acc.spawned
    BY <1>1, <1>2, <1>3, <1>4 DEF PidsBounded
  <1>11. Bounded(w, {}, D)
    BY Zenon, <1>7, <1>8, <1>9 DEF Bounded
  <1>12. PidsBounded(w, {})
    <2> SUFFICES ASSUME NEW t \in ServiceNames PROVE w.svc[t].pid <= w.spawned
      BY Zenon DEF PidsBounded
    <2>1. CASE t = s
      BY <1>2, <1>7, <2>1 DEF NoPid
    <2>2. CASE t # s
      <3>1. w.svc[t].pid = acc.svc[t].pid
        BY Zenon, <1>6, <2>2
      <3> QED
        BY <1>1, <1>2, <1>3, <1>7, <1>10, <3>1
    <2> QED
      BY <2>1, <2>2
  <1>13. OwnPids(w) /\ \A t \in ServiceNames : w.svc[t].pid # acc.svc[s].pid
    <2>1. \A t \in ServiceNames \ {s} : w.svc[t].pid = acc.svc[t].pid
      BY Zenon, <1>6
    <2>2. w.svc[s].pid = NoPid \/ w.svc[s].pid = n
      BY Zenon, <1>7
    <2>3. \A t \in ServiceNames \ {s} : acc.svc[t].pid # acc.svc[s].pid
      BY Zenon, <1>4 DEF OwnPids
    <2>4. OwnPids(w)
      <3> SUFFICES ASSUME NEW t \in ServiceNames, NEW u \in ServiceNames,
                          w.svc[t].pid = w.svc[u].pid, w.svc[t].pid # NoPid, t # u
                   PROVE  FALSE
        BY Zenon DEF OwnPids
      <3>1. CASE t # s /\ u # s
        BY Zenon, <1>4, <2>1, <3>1 DEF OwnPids
      <3>2. CASE t = s
        BY Zenon, <1>10, <2>1, <2>2, <3>2
      <3>3. CASE u = s
        BY Zenon, <1>10, <2>1, <2>2, <3>3
      <3> QED
        BY Zenon, <3>1, <3>2, <3>3
    <2> QED
      BY <1>10, <2>1, <2>2, <2>3, <2>4
  <1>14. LiveOwned(w, {})
    <2> SUFFICES ASSUME NEW x \in w.alive \ w.orphans
                 PROVE  \E t \in ServiceNames : w.svc[t].pid = x
      BY DEF LiveOwned
    <2>1. CASE x \in acc.alive
      <3>1. PICK t \in ServiceNames : acc.svc[t].pid = x
        BY <1>4, <1>6, <2>1 DEF LiveOwned
      <3>2. t # s
        BY <2>1, <3>1
      <3> QED
        BY Zenon, <1>6, <3>1, <3>2
    <2>2. CASE x \notin acc.alive
      BY <1>7, <2>2
    <2> QED
      BY <2>1, <2>2
  <1>15. RunningLive(w, D)
    <2> SUFFICES ASSUME NEW t \in ServiceNames, w.svc[t].state = "Running"
                 PROVE  w.svc[t].pid \in w.alive \cup D
      BY Zenon DEF RunningLive
    <2>1. CASE t = s
      BY <1>7, <2>1
    <2>2. CASE t # s
      <3>1. w.svc[t] = acc.svc[t]
        BY Zenon, <1>6, <2>2
      <3>2. acc.svc[t].pid \in acc.alive \cup D
        BY Zenon, <1>4, <3>1 DEF RunningLive
      <3> QED
        BY <1>7, <3>1, <3>2
    <2> QED
      BY <2>1, <2>2
  <1>16. LiveWanted(w)
    <2> SUFFICES ASSUME NEW t \in ServiceNames, w.svc[t].pid \in w.alive
                 PROVE  w.svc[t].state = "Running" \/ w.svc[t].shutdown_requested
      BY Zenon DEF LiveWanted
    <2>1. CASE t = s
      BY <1>7, <1>9, <2>1
    <2>2. CASE t # s
      <3>1. w.svc[t] = acc.svc[t]
        BY Zenon, <1>6, <2>2
      <3>2. acc.svc[t].pid \in acc.alive
        BY <1>7, <1>10, <3>1
      <3> QED
        BY Zenon, <1>4, <3>1, <3>2 DEF LiveWanted
    <2> QED
      BY <2>1, <2>2
  <1> QED
    BY Zenon, <1>6, <1>11, <1>12, <1>13, <1>14, <1>15, <1>16 DEF Right, IsRight

\* So does starting the whole chain.
LEMMA StartedRight ==
    ASSUME ServicesAssumption, NEW s \in ServiceNames, NEW v, NEW fails, NEW X, NEW D, NEW A,
           World(v) \in Right(X, D), World(v).alive = A
    PROVE  Started(v, s, fails) \in Right(X, D) /\ A \subseteq Started(v, s, fails).alive
  <1> DEFINE W == {w \in Right(X, D) : A \subseteq w.alive}
  <1>1. World(v) \in W
    OBVIOUS
  <1>2. \A w \in W, x \in ServiceNames, b \in BOOLEAN : StartOne(w, x, s, b) \in W
    BY StartOneRight
  <1>3. Started(v, s, fails) \in W
    <2> HIDE DEF W
    <2> QED
      BY <1>1, <1>2, StartedStays
  <1> QED
    BY <1>3

\* Processes in Y die, and their deaths are noted in E; no service begins to
\* run, and an entry that was running or asked to stop remains so.
Died(w, u, Y, D, E) ==
    /\ u.spawned = w.spawned /\ u.orphans = w.orphans /\ u.alive = w.alive \ Y
    /\ D \cup (Y \cap w.alive) \subseteq E /\ E \subseteq (1 .. w.spawned) \ u.alive
    /\ \A s \in ServiceNames :
          /\ u.svc[s].pid = w.svc[s].pid
          /\ u.svc[s].state = "Running" => w.svc[s].state = "Running"
          /\ w.svc[s].state = "Running" \/ w.svc[s].shutdown_requested
                => u.svc[s].state = "Running" \/ u.svc[s].shutdown_requested

\* Deaths that are noted keep the processes accounted for.
LEMMA DiedRight ==
    ASSUME NEW X, NEW D, NEW w \in Right(X, D), NEW u \in Worlds, NEW Y, NEW E, X \subseteq Y,
           Died(w, u, Y, D, E)
    PROVE  u \in Right({}, E)
  <1>1. /\ Bounded(w, X, D) /\ PidsBounded(w, X) /\ OwnPids(w)
        /\ LiveOwned(w, X) /\ RunningLive(w, D) /\ LiveWanted(w)
    BY Zenon DEF Right, IsRight
  <1>2. Bounded(u, {}, E)
    BY <1>1 DEF Died, Bounded
  <1>2a. PidsBounded(u, {})
    BY <1>1 DEF Died, PidsBounded
  <1>2b. OwnPids(u)
    BY <1>1 DEF Died, OwnPids
  <1>3. LiveOwned(u, {})
    BY <1>1 DEF Died, LiveOwned
  <1>4. RunningLive(u, E)
    BY <1>1 DEF Died, RunningLive
  <1>5. LiveWanted(u)
    BY <1>1 DEF Died, LiveWanted
  <1> QED
    BY Zenon, <1>2, <1>2a, <1>2b, <1>3, <1>4, <1>5 DEF Right, IsRight

\* The world as the variables have it.
LEMMA WorldFields ==
    ASSUME NEW v
    PROVE  /\ World(v).svc = v /\ World(v).alive = alive /\ World(v).spawned = spawned
           /\ World(v).orphans = orphans
  BY DEF World

\* What Install writes is what the next state has.
LEMMA InstallRight ==
    ASSUME NEW X, NEW D, NEW w \in Right(X, D), Install(w)
    PROVE  World(svc)' \in Right(X, D)
  <1> DEFINE u == World(svc)'
  <1>1. u.svc = w.svc /\ u.alive = w.alive /\ u.spawned = w.spawned /\ u.orphans = w.orphans
        /\ u = [svc |-> w.svc, alive |-> w.alive, spawned |-> w.spawned, orphans |-> w.orphans,
                ok |-> TRUE]
    BY DEF Install, World
  <1>2. u \in Worlds
    BY <1>1 DEF Right, IsRight, Worlds
  <1> HIDE DEF u
  <1>3. u \in Right(X, D)
    BY ZenonT(60), <1>1, <1>2 DEF Right, IsRight, Bounded, PidsBounded, OwnPids, LiveOwned,
       RunningLive, LiveWanted
  <1> QED
    BY <1>3 DEF u

\* start_service and the start of the automatic services.
LEMMA StartRight ==
    ASSUME ServicesAssumption, ProcessInv, NEW s \in ServiceNames,
           start_service(s) \/ sm_start_auto_services(s)
    PROVE  ProcessInv'
  <1>1. PICK d : d = Gone
    OBVIOUS
  <1>2. PICK a : a = alive
    OBVIOUS
  <1>3. World(svc) \in Right({}, d) /\ World(svc).alive = a
    BY <1>1, <1>2, WorldFields DEF ProcessInv
  <1>4. PICK fails : Install(Started(svc, s, fails))
    BY DEF start_service, sm_start_auto_services
  <1>5. PICK w : w = Started(svc, s, fails)
    OBVIOUS
  <1>6. w \in Right({}, d)
    BY <1>3, <1>5, StartedRight
  <1>7. World(svc)' \in Right({}, d)
    BY <1>4, <1>5, <1>6, InstallRight
  <1>8. pendingExits' = pendingExits /\ Gone' = d
    BY <1>1 DEF start_service, sm_start_auto_services, Gone
  <1>9. ServiceInv'
    BY StartKeeps DEF ProcessInv
  <1> QED
    BY <1>7, <1>8, <1>9 DEF ProcessInv

\* A step in which the processes in Y die, if any, and no service is started.
LEMMA QuietRight ==
    ASSUME ProcessInv, ServiceInv', pendingExits' \in Exits, NEW Y, alive' = alive \ Y,
           spawned' = spawned, orphans' = orphans,
           Gone \cup (Y \cap alive) \subseteq Gone', Gone' \subseteq (1 .. spawned) \ alive',
           \A s \in ServiceNames :
              /\ svc'[s].pid = svc[s].pid
              /\ svc'[s].state = "Running" => svc[s].state = "Running"
              /\ svc[s].state = "Running" \/ svc[s].shutdown_requested
                    => svc'[s].state = "Running" \/ svc'[s].shutdown_requested
    PROVE  ProcessInv'
  <1>1. PICK d : d = Gone
    OBVIOUS
  <1>2. PICK e : e = Gone'
    OBVIOUS
  <1>3. PICK w : w = World(svc)
    OBVIOUS
  <1>4. PICK u : u = World(svc)'
    OBVIOUS
  <1>5. w.svc = svc /\ w.alive = alive /\ w.spawned = spawned /\ w.orphans = orphans
    BY <1>3 DEF World
  <1>6. u.svc = svc' /\ u.alive = alive' /\ u.spawned = spawned' /\ u.orphans = orphans' /\ u \in Worlds
    BY <1>4 DEF World, Worlds, ServiceInv
  <1>7. w \in Right({}, d)
    BY <1>1, <1>3 DEF ProcessInv
  <1>8. u \in Right({}, e)
    <2>1. u.spawned = w.spawned /\ u.orphans = w.orphans /\ u.alive = w.alive \ Y
      BY <1>5, <1>6
    <2>2. d \cup (Y \cap w.alive) \subseteq e /\ e \subseteq (1 .. w.spawned) \ u.alive
      BY <1>1, <1>2, <1>5, <1>6
    <2>3. \A s \in ServiceNames :
              /\ u.svc[s].pid = w.svc[s].pid
              /\ u.svc[s].state = "Running" => w.svc[s].state = "Running"
              /\ w.svc[s].state = "Running" \/ w.svc[s].shutdown_requested
                    => u.svc[s].state = "Running" \/ u.svc[s].shutdown_requested
      BY <1>5, <1>6
    <2> QED
      <3>1. {} \subseteq Y
        OBVIOUS
      <3>2. Died(w, u, Y, d, e)
        BY <2>1, <2>2, <2>3 DEF Died
      <3>3. u \in Worlds
        BY <1>6
      <3> QED
        BY <1>7, <3>1, <3>2, <3>3, DiedRight
  <1> QED
    BY <1>2, <1>4, <1>8 DEF ProcessInv

\* What the invariant says of the processes that are gone and of the entries.
LEMMA ProcessFacts ==
    ASSUME ProcessInv
    PROVE  /\ alive \subseteq 1 .. spawned /\ Gone \subseteq (1 .. spawned) \ alive
           /\ spawned \in Nat /\ pendingExits \in Exits
           /\ svc \in [ServiceNames -> Holding]
           /\ \A s \in ServiceNames : svc[s].pid \in 0 .. spawned
  <1>1. /\ svc \in [ServiceNames -> Holding] /\ spawned \in Nat /\ pendingExits \in Exits
        /\ \A s \in ServiceNames : svc[s].pid \in Nat
    BY DEF ProcessInv, ServiceInv, Holding, ServiceRecs
  <1>2. /\ alive \subseteq 1 .. spawned /\ Gone \subseteq (1 .. spawned) \ alive
        /\ \A s \in ServiceNames : svc[s].pid <= spawned
    <2>1. PICK w : w = World(svc)
      OBVIOUS
    <2>2. Bounded(w, {}, Gone) /\ PidsBounded(w, {})
      BY Zenon, <2>1 DEF ProcessInv, Right, IsRight
    <2>3. w.svc = svc /\ w.alive = alive /\ w.spawned = spawned
      BY Zenon, <2>1, WorldFields
    <2> QED
      BY Zenon, <2>2, <2>3 DEF Bounded, PidsBounded
  <1> QED
    BY <1>1, <1>2

\* What it says of the services and their processes.
LEMMA AccountFacts ==
    ASSUME ProcessInv
    PROVE  /\ \A s \in ServiceNames : svc[s].pid <= spawned
           /\ \A s, t \in ServiceNames : svc[s].pid = svc[t].pid /\ svc[s].pid # NoPid => s = t
           /\ \A p \in alive \ orphans : \E s \in ServiceNames : svc[s].pid = p
           /\ \A s \in ServiceNames : svc[s].state = "Running" => svc[s].pid \in alive \cup Gone
           /\ \A s \in ServiceNames : svc[s].pid \in alive =>
                svc[s].state = "Running" \/ svc[s].shutdown_requested
  <1>1. PICK w : w = World(svc)
    OBVIOUS
  <1>2. /\ PidsBounded(w, {}) /\ OwnPids(w) /\ LiveOwned(w, {})
        /\ RunningLive(w, Gone) /\ LiveWanted(w)
    BY Zenon, <1>1 DEF ProcessInv, Right, IsRight
  <1>3. w.svc = svc /\ w.alive = alive /\ w.spawned = spawned /\ w.orphans = orphans
    BY Zenon, <1>1, WorldFields
  <1>4. (\A s \in ServiceNames : svc[s].pid <= spawned)
        /\ \A s, t \in ServiceNames : svc[s].pid = svc[t].pid /\ svc[s].pid # NoPid => s = t
    BY Zenon, <1>2, <1>3 DEF PidsBounded, OwnPids
  <1>5. \A p \in alive \ orphans : \E s \in ServiceNames : svc[s].pid = p
    BY Zenon, <1>2, <1>3 DEF LiveOwned
  <1>6. /\ \A s \in ServiceNames : svc[s].state = "Running" => svc[s].pid \in alive \cup Gone
        /\ \A s \in ServiceNames : svc[s].pid \in alive =>
             svc[s].state = "Running" \/ svc[s].shutdown_requested
    BY Zenon, <1>2, <1>3 DEF RunningLive, LiveWanted
  <1> QED
    BY Zenon, <1>4, <1>5, <1>6

\* The exit of p is put into the queue, or noted as lost.
LEMMA Noted ==
    ASSUME ProcessInv, NEW p \in Nat, NEW code \in Int, alive' = alive \ {p}, NoteUnreported,
           \/ pendingExits' = pendingExits /\ (p \in alive => CanLose)
           \/ pendingExits' = Append(pendingExits, <<p, code>>)
    PROVE  /\ pendingExits' \in Exits
           /\ Gone \cup ({p} \cap alive) \subseteq Gone'
           /\ Gone' \subseteq Gone \cup {p}
  <1>1. pendingExits \in Exits
    BY DEF ProcessInv
  <1>2. CASE pendingExits' = pendingExits /\ (p \in alive => CanLose)
    BY <1>1, <1>2 DEF NoteUnreported, Gone
  <1>3. CASE pendingExits' = Append(pendingExits, <<p, code>>)
    <2>1. pendingExits' # pendingExits
      BY <1>1, <1>3 DEF Exits
    <2>2. pendingExits' \in Exits /\ PidsOf(pendingExits') = PidsOf(pendingExits) \cup {p}
      BY <1>1, <1>3, PidsAppended
    <2> QED
      BY <2>1, <2>2 DEF NoteUnreported, Gone
  <1> QED
    BY <1>2, <1>3

\* A process exits or is killed.
LEMMA TerminateRight ==
    ASSUME ProcessInv, NEW p \in 1 .. MaxSpawns, NEW code \in {0, 1}, terminate_current(p, code)
    PROVE  ProcessInv'
  <1>1. /\ p \in alive /\ alive' = alive \ {p} /\ UNCHANGED <<svc, spawned, orphans>>
        /\ NoteUnreported
        /\ \/ pendingExits' = pendingExits /\ CanLose
           \/ pendingExits' = Append(pendingExits, <<p, code>>)
    BY ZenonT(60) DEF terminate_current, notify_process_exit, Contention, CanLose
  <1>2. p \in Nat /\ code \in Int /\ p \in 1 .. spawned
    BY <1>1, ProcessFacts
  <1>3. /\ pendingExits' \in Exits /\ Gone \cup ({p} \cap alive) \subseteq Gone'
        /\ Gone' \subseteq Gone \cup {p}
    BY <1>1, <1>2, Noted
  <1>4. Gone' \subseteq (1 .. spawned) \ alive'
    BY <1>1, <1>2, <1>3, ProcessFacts
  <1>5. ServiceInv'
    BY <1>1 DEF ProcessInv, ServiceInv
  <1> QED
    BY ZenonT(60), <1>1, <1>3, <1>4, <1>5, QuietRight

\* stop_service marks the entry; the deadline and the drain only set flags.
LEMMA FlagsRight ==
    ASSUME ProcessInv, NEW s \in ServiceNames, stop_service(s) \/ stop_deadline_elapsed(s)
    PROVE  ProcessInv'
  <1>1. svc \in [ServiceNames -> Holding] /\ svc[s] \in ServiceRecs
    BY DEF ProcessInv, ServiceInv, Holding
  <1>2. UNCHANGED <<alive, spawned, orphans, pendingExits, unreported>>
    BY DEF stop_service, stop_deadline_elapsed
  <1>3. ServiceInv'
    BY StopKeeps, DeadlineKeeps DEF ProcessInv
  <1>4. \A t \in ServiceNames :
              /\ svc'[t].pid = svc[t].pid
              /\ svc'[t].state = "Running" => svc[t].state = "Running"
              /\ svc[t].state = "Running" \/ svc[t].shutdown_requested
                    => svc'[t].state = "Running" \/ svc'[t].shutdown_requested
    BY <1>1 DEF stop_service, stop_deadline_elapsed, ServiceRecs
  <1>5. Gone' = Gone /\ alive' = alive \ {}
    BY <1>2 DEF Gone
  <1> QED
    BY ZenonT(60), <1>2, <1>3, <1>4, <1>5, ProcessFacts, QuietRight

\* One request of a drain: past its deadline the process is killed.
LEMMA ShutdownRight ==
    ASSUME ProcessInv, NEW d \in Drainers, process_pending_shutdowns(d)
    PROVE  ProcessInv'
  <1> DEFINE p == Head(batch[d])
             o == {s \in find_by_pid(p) : svc[s].shutdown_requested}
             due == \E s \in o : svc[s].elapsed
  <1>1. PICK retry \in Contention, lost \in Contention :
          /\ svc' = [s \in ServiceNames |-> IF s \in o /\ ~retry
                          THEN [svc[s] EXCEPT !.shutdown_notified = TRUE] ELSE svc[s]]
          /\ alive' = IF ~retry /\ due THEN alive \ {p} ELSE alive
          /\ pendingExits' =
                 CASE retry \/ ~due -> pendingExits
                   [] ~retry /\ due /\ p \in alive -> Killed(p, pendingExits, lost)
                   [] OTHER -> notify_process_exit(pendingExits, p, -1, lost)
    BY DEF process_pending_shutdowns
  <1>2. NoteUnreported /\ UNCHANGED <<spawned, orphans>>
    BY DEF process_pending_shutdowns
  <1>3. ServiceInv'
    BY ShutdownKeeps DEF ProcessInv
  <1>4. \A t \in ServiceNames :
              /\ svc'[t].pid = svc[t].pid
              /\ svc'[t].state = "Running" => svc[t].state = "Running"
              /\ svc[t].state = "Running" \/ svc[t].shutdown_requested
                    => svc'[t].state = "Running" \/ svc'[t].shutdown_requested
    <2> HIDE DEF o
    <2> SUFFICES ASSUME NEW t \in ServiceNames
                 PROVE  /\ svc'[t].pid = svc[t].pid /\ svc'[t].state = svc[t].state
                        /\ svc'[t].shutdown_requested = svc[t].shutdown_requested
      OBVIOUS
    <2>1. svc[t] \in ServiceRecs
      BY DEF ProcessInv, ServiceInv, Holding
    <2>2. svc'[t] = svc[t] \/ svc'[t] = [svc[t] EXCEPT !.shutdown_notified = TRUE]
      BY <1>1
    <2> QED
      BY <2>1, <2>2 DEF ServiceRecs
  <1>5. CASE retry \/ ~due
    <2>1. alive' = alive \ {} /\ pendingExits' = pendingExits /\ Gone' = Gone
      BY <1>1, <1>2, <1>5 DEF NoteUnreported, Gone
    <2> QED
      BY <1>2, <1>3, <1>4, <2>1, ProcessFacts, QuietRight
  <1>6. CASE ~retry /\ due
    <2>1. p \in 1 .. spawned
      BY <1>6, ProcessFacts DEF find_by_pid, NoPid
    <2>2. /\ alive' = alive \ {p} /\ -1 \in Int
          /\ \/ pendingExits' = pendingExits /\ CanLose
             \/ pendingExits' = Append(pendingExits, <<p, -1>>)
      <3>1. alive' = alive \ {p} /\ -1 \in Int
        BY <1>1, <1>6
      <3>2. \A b : b \in Contention => \/ notify_process_exit(pendingExits, p, -1, b) = pendingExits /\ CanLose
                                      \/ notify_process_exit(pendingExits, p, -1, b) = Append(pendingExits, <<p, -1>>)
        BY ZenonT(60) DEF notify_process_exit, Contention, CanLose
      <3>3. pendingExits' = notify_process_exit(pendingExits, p, -1, lost)
        BY <1>1, <1>6 DEF Killed
      <3> QED
        BY <3>1, <3>2, <3>3
    <2>3. PICK x : x = p
      OBVIOUS
    <2> HIDE DEF p, o, due
    <2>4. /\ pendingExits' \in Exits /\ Gone \cup ({x} \cap alive) \subseteq Gone'
          /\ Gone' \subseteq Gone \cup {x} /\ alive' = alive \ {x} /\ x \in 1 .. spawned
      BY <1>2, <2>1, <2>2, <2>3, Noted
    <2>5. Gone' \subseteq (1 .. spawned) \ alive'
      BY <2>4, ProcessFacts
    <2> QED
      BY ZenonT(60), <1>2, <1>3, <1>4, <2>4, <2>5, QuietRight
  <1> QED
    BY <1>5, <1>6

\* restart_service: the entry is reset before the chain is started and the old
\* process killed afterwards.
LEMMA RestartRight ==
    ASSUME ServicesAssumption, ProcessInv, NEW s \in ServiceNames, restart_service(s)
    PROVE  ProcessInv'
  <1> DEFINE q == [Stopped EXCEPT !.failure_count = svc[s].failure_count]
             r == [svc EXCEPT ![s] = q]
  <1>1. PICK d : d = Gone
    OBVIOUS
  <1>2. PICK a : a = alive
    OBVIOUS
  <1>3. PICK n : n = spawned
    OBVIOUS
  <1>4. PICK p : p = svc[s].pid
    OBVIOUS
  <1>5. PICK lost \in Contention : pendingExits' = Killed(p, pendingExits, lost)
    BY <1>4 DEF restart_service
  <1>6. PICK w : w = Started(r, s, {})
    OBVIOUS
  <1>7. Install([w EXCEPT !.alive = @ \ {p}]) /\ NoteUnreported
    BY <1>4, <1>6 DEF restart_service
  <1>8. /\ a \subseteq 1 .. n /\ d \subseteq (1 .. n) \ a /\ n \in Nat /\ p \in 0 .. n
        /\ svc \in [ServiceNames -> Holding] /\ svc[s] \in ServiceRecs /\ pendingExits \in Exits
    BY <1>1, <1>2, <1>3, <1>4, ProcessFacts DEF Holding
  <1>9. q \in Holding /\ q.pid = NoPid /\ q.state = "Stopped"
    BY ZenonT(60), <1>8 DEF Holding, ServiceRecs, States, Stopped, NoPid
  <1> HIDE DEF q
  <1>10. /\ r \in [ServiceNames -> Holding] /\ r[s] = q
         /\ \A t \in ServiceNames \ {s} : r[t] = svc[t]
    BY <1>8, <1>9, EntryReplaced
  <1> HIDE DEF r
  <1>11. World(r) \in Worlds
    BY <1>10, WorldTyped DEF ProcessInv
  <1>12. World(r).svc = r /\ World(r).alive = a /\ World(r).spawned = n /\ World(r).orphans = orphans
    BY <1>2, <1>3, WorldFields
  <1>13. /\ \A t \in ServiceNames : svc[t].pid <= n
         /\ \A t, u \in ServiceNames : svc[t].pid = svc[u].pid /\ svc[t].pid # NoPid => t = u
         /\ \A x \in a \ orphans : \E t \in ServiceNames : svc[t].pid = x
         /\ \A t \in ServiceNames : svc[t].state = "Running" => svc[t].pid \in a \cup d
         /\ \A t \in ServiceNames : svc[t].pid \in a =>
              svc[t].state = "Running" \/ svc[t].shutdown_requested
    BY <1>1, <1>2, <1>3, AccountFacts
  <1>13a. \A t \in ServiceNames : r[t] = IF t = s THEN q ELSE svc[t]
    BY Zenon, <1>10
  <1>14. ASSUME NEW e, d \subseteq e, e \subseteq (1 .. n) \ a
         PROVE  World(r) \in Right({p} \ {NoPid}, e)
    <2>1. NoPid \notin a /\ NoPid <= n /\ {p} \ {NoPid} \subseteq 1 .. n
      BY <1>8 DEF NoPid
    <2>2. \A t \in ServiceNames : r[t].pid <= n /\ r[t].pid \notin {p} \ {NoPid}
      <3> SUFFICES ASSUME NEW t \in ServiceNames PROVE r[t].pid <= n /\ r[t].pid \notin {p} \ {NoPid}
        OBVIOUS
      <3>1. CASE t = s
        BY Zenon, <1>9, <1>10, <2>1, <3>1
      <3>2. CASE t # s
        <4>1. r[t] = svc[t] /\ svc[t].pid <= n
          BY Zenon, <1>10, <1>13, <3>2
        <4>2. svc[t].pid = p => p = NoPid
          BY Zenon, <1>4, <1>13, <3>2
        <4> QED
          BY Zenon, <4>1, <4>2
      <3> QED
        BY Zenon, <3>1, <3>2
    <2>3. \A t, u \in ServiceNames : r[t].pid = r[u].pid /\ r[t].pid # NoPid => t = u
      <3> SUFFICES ASSUME NEW t \in ServiceNames, NEW u \in ServiceNames,
                          r[t].pid = r[u].pid, r[t].pid # NoPid
                   PROVE  t = u
        OBVIOUS
      <3>1. r[t] = svc[t] /\ r[u] = svc[u]
        BY Zenon, <1>9, <1>13a
      <3>2. svc[t].pid = svc[u].pid /\ svc[t].pid # NoPid
        BY Zenon, <3>1
      <3> QED
        BY <1>13, <3>2
    <2>4. \A x \in a \ (orphans \cup ({p} \ {NoPid})) : \E t \in ServiceNames : r[t].pid = x
      BY <1>4, <1>10, <1>13, <2>1
    <2>5. \A t \in ServiceNames : r[t].state = "Running" => r[t].pid \in a \cup e
      BY ZenonT(60), <1>9, <1>10, <1>13, <1>14
    <2>6. \A t \in ServiceNames : r[t].pid \in a => r[t].state = "Running" \/ r[t].shutdown_requested
      BY <1>9, <1>10, <1>13, <2>1
    <2> QED
      <3>1. PICK u : u = World(r)
        OBVIOUS
      <3>2. u.svc = r /\ u.alive = a /\ u.spawned = n /\ u.orphans = orphans /\ u \in Worlds
        BY <1>11, <1>12, <3>1
      <3>3. IsRight(u, {p} \ {NoPid}, e)
        <4>1. Bounded(u, {p} \ {NoPid}, e) /\ PidsBounded(u, {p} \ {NoPid})
          BY Zenon, <1>8, <1>14, <2>1, <2>2, <3>2 DEF Bounded, PidsBounded
        <4>2. OwnPids(u)
          BY Zenon, <2>3, <3>2 DEF OwnPids
        <4>3. LiveOwned(u, {p} \ {NoPid})
          BY Zenon, <2>4, <3>2 DEF LiveOwned
        <4>4. RunningLive(u, e) /\ LiveWanted(u)
          BY Zenon, <2>5, <2>6, <3>2 DEF RunningLive, LiveWanted
        <4> QED
          BY Zenon, <4>1, <4>2, <4>3, <4>4 DEF IsRight
      <3> QED
        BY <3>1, <3>2, <3>3 DEF Right
  <1>15. World(r) \in Right({p} \ {NoPid}, d)
    BY ZenonT(60), <1>8, <1>14
  <1>16. w \in Right({p} \ {NoPid}, d) /\ a \subseteq w.alive
    BY <1>6, <1>12, <1>15, StartedRight
  <1>17. ASSUME p \notin a PROVE p \notin w.alive
    <2>1. CASE p = NoPid
      <3>1. w.alive \subseteq 1 .. w.spawned
        BY Zenon, <1>16 DEF Right, IsRight, Bounded
      <3> QED
        BY <2>1, <3>1 DEF NoPid
    <2>2. CASE p # NoPid
      <3>1. d \cup {p} \subseteq (1 .. n) \ a
        BY <1>8, <1>17, <2>2 DEF NoPid
      <3>2. World(r) \in Right({p} \ {NoPid}, d \cup {p})
        BY <1>14, <3>1
      <3>3. w \in Right({p} \ {NoPid}, d \cup {p})
        BY <1>6, <1>12, <3>2, StartedRight
      <3> QED
        BY <3>3 DEF Right, IsRight, Bounded
    <2> QED
      BY <2>1, <2>2
  <1>18. PICK u : u = [w EXCEPT !.alive = @ \ {p}]
    BY ZenonT(60)
  <1>19. w \in Worlds
    BY Zenon, <1>16 DEF Right
  <1>20. /\ u \in Worlds /\ u.svc = w.svc /\ u.alive = w.alive \ {p} /\ u.spawned = w.spawned
         /\ u.orphans = w.orphans
    BY <1>18, <1>19 DEF Worlds
  <1>21. alive' = w.alive \ {p} /\ a \ alive' = {p} \cap a
    BY <1>7, <1>16, <1>18, <1>20 DEF Install
  <1>22. PICK e : e = Gone'
    OBVIOUS
  <1>23. pendingExits' \in Exits /\ d \cup ({p} \cap a) \subseteq e /\ e \subseteq d \cup ({p} \cap a)
    <2>1. CASE pendingExits' = pendingExits
      <3>1. p \in a => CanLose
        <4>1. p \in a /\ ~CanLose => pendingExits' = Append(pendingExits, <<p, -1>>)
          BY ZenonT(60), <1>2, <1>5 DEF Killed, notify_process_exit, Contention, CanLose
        <4>2. Append(pendingExits, <<p, -1>>) # pendingExits
          BY <1>8 DEF Exits
        <4> QED
          BY <2>1, <4>1, <4>2
      <3> QED
        BY <1>1, <1>2, <1>7, <1>8, <1>21, <1>22, <2>1, <3>1 DEF NoteUnreported, Gone
    <2>2. CASE pendingExits' # pendingExits
      <3>1. p \in a /\ pendingExits' = Append(pendingExits, <<p, -1>>) /\ unreported' = unreported
        BY <1>2, <1>5, <1>7, <2>2 DEF NoteUnreported, Killed, notify_process_exit
      <3>2. p \in Nat /\ -1 \in Int
        BY <1>8
      <3>3. pendingExits' \in Exits /\ PidsOf(pendingExits') = PidsOf(pendingExits) \cup {p}
        BY <1>8, <3>1, <3>2, PidsAppended
      <3> QED
        BY <1>1, <1>22, <3>1, <3>3 DEF Gone
    <2> QED
      BY <2>1, <2>2
  <1>24. d \cup ({p} \cap w.alive) \subseteq e
    BY <1>16, <1>17, <1>23
  <1>25. e \subseteq (1 .. w.spawned) \ u.alive
    <2>1. d \subseteq (1 .. w.spawned) \ w.alive /\ w.alive \subseteq 1 .. w.spawned
      BY Zenon, <1>16 DEF Right, IsRight, Bounded
    <2> QED
      BY <1>16, <1>20, <1>23, <2>1
  <1>26. {p} \ {NoPid} \subseteq {p}
    OBVIOUS
  <1>27. u \in Right({}, e)
    <2>1. Died(w, u, {p}, d, e)
      BY <1>20, <1>24, <1>25 DEF Died
    <2>2. w \in Right({p} \ {NoPid}, d)
      BY <1>16
    <2>3. u \in Worlds
      BY <1>20
    <2> QED
      BY <1>26, <2>1, <2>2, <2>3, DiedRight
  <1>28. World(svc)' \in Right({}, e)
    BY <1>7, <1>18, <1>27, InstallRight
  <1>29. ServiceInv'
    BY RestartKeeps DEF ProcessInv
  <1> QED
    BY <1>22, <1>23, <1>28, <1>29 DEF ProcessInv

\* A death that no entry names any more can be forgotten.
LEMMA ForgottenRight ==
    ASSUME NEW D, NEW w \in Right({}, D), NEW p, NEW E, E \subseteq D, D \subseteq E \cup {p},
           \A t \in ServiceNames : w.svc[t].pid # p
    PROVE  w \in Right({}, E)
  <1>1. Bounded(w, {}, E)
    BY Zenon DEF Right, IsRight, Bounded
  <1>2. RunningLive(w, E)
    BY Zenon DEF Right, IsRight, RunningLive
  <1> QED
    BY Zenon, <1>1, <1>2 DEF Right, IsRight

\* One round of the drain of the exits.
LEMMA DrainRight ==
    ASSUME ProcessInv, process_pending_exits
    PROVE  ProcessInv'
  <1>1. PICK d : d = Gone
    OBVIOUS
  <1>2. PICK e : e = Gone'
    OBVIOUS
  <1>3. PICK h : h = Head(pendingExits)
    OBVIOUS
  <1>4. PICK acc : acc = World(svc)
    OBVIOUS
  <1>5. PICK fails : Install(on_process_exit_by_pid(acc, h, fails))
    BY <1>3, <1>4 DEF process_pending_exits
  <1>6. PICK w : w = on_process_exit_by_pid(acc, h, fails)
    OBVIOUS
  <1>7. /\ pendingExits' \in Exits /\ h \in Nat \X Int /\ unreported' = unreported
        /\ PidsOf(pendingExits) = PidsOf(pendingExits') \cup {h[1]}
    BY <1>3, PidsTaken DEF process_pending_exits, ProcessInv
  <1>8. d = e \cup {h[1]}
    BY <1>1, <1>2, <1>7 DEF Gone
  <1>9. acc \in Right({}, d)
    BY <1>1, <1>4 DEF ProcessInv
  <1>10. h[1] \notin acc.alive /\ h[1] # NoPid
    <2>1. d \subseteq (1 .. acc.spawned) \ acc.alive
      BY Zenon, <1>9 DEF Right, IsRight, Bounded
    <2> QED
      BY <1>8, <2>1 DEF NoPid
  <1>11. w \in Right({}, d) /\ \A t \in ServiceNames : w.svc[t].pid # h[1]
    <2> DEFINE owners == {s \in ServiceNames : acc.svc[s].pid = h[1]}
    <2>1. CASE owners = {}
      BY <1>6, <1>9, <2>1 DEF on_process_exit_by_pid
    <2>2. CASE owners # {}
      <3>1. PICK s : s = CHOOSE x \in owners : TRUE
        OBVIOUS
      <3>2. s \in ServiceNames /\ acc.svc[s].pid = h[1]
        BY <2>2, <3>1
      <3>3. w = on_process_exit(acc, s, h[2], fails)
        BY <1>6, <2>2, <3>1 DEF on_process_exit_by_pid
      <3> HIDE DEF owners
      <3> QED
        BY ZenonT(60), <1>9, <1>10, <3>2, <3>3, ExitRight
    <2> QED
      BY <2>1, <2>2
  <1>12. w \in Right({}, e)
    BY <1>8, <1>11, ForgottenRight
  <1>13. World(svc)' \in Right({}, e)
    BY <1>5, <1>6, <1>12, InstallRight
  <1>14. ServiceInv'
    BY DrainKeeps DEF ProcessInv
  <1> QED
    BY <1>2, <1>7, <1>13, <1>14 DEF ProcessInv

\* Every live process is the process of a service, unless its entry was started
\* anew while it was still stopping; and every service that is Running has a live
\* process, or one whose exit is in the queue, or one whose exit report was lost to
\* a full queue or a contended lock.
THEOREM ProcessesAreAccountedFor ==
    ASSUME ServicesAssumption
    PROVE  SvcSpec => []ProcessesAccountedFor
  <1>1. SvcInit => ProcessInv
    <2> SUFFICES ASSUME SvcInit PROVE ProcessInv
      OBVIOUS
    <2>1. ServiceInv
      BY DEF SvcInit, ServiceInv, Holding, ServiceRecs, States, Stopped, NoPid
    <2>2. pendingExits \in Exits /\ Gone = {}
      BY DEF SvcInit, Exits, Gone, PidsOf
    <2>3. World(svc) \in Worlds
      BY <2>1, WorldTyped DEF ServiceInv
    <2>4. /\ \A s \in ServiceNames : svc[s].pid = 0 /\ svc[s].state = "Stopped"
          /\ alive = {} /\ spawned = 0
      BY DEF SvcInit, Stopped, NoPid
    <2>5. World(svc) \in Right({}, {})
      <3>1. PICK w : w = World(svc)
        OBVIOUS
      <3>2. w.svc = svc /\ w.alive = {} /\ w.spawned = 0
        BY Zenon, <2>4, <3>1, WorldFields
      <3>3. Bounded(w, {}, {}) /\ PidsBounded(w, {})
        BY <2>4, <3>2 DEF Bounded, PidsBounded
      <3>4. OwnPids(w) /\ LiveOwned(w, {}) /\ LiveWanted(w)
        BY Zenon, <2>4, <3>2 DEF OwnPids, LiveOwned, LiveWanted, NoPid
      <3>5. RunningLive(w, {})
        BY <2>4, <3>2 DEF RunningLive
      <3> QED
        BY Zenon, <2>3, <3>1, <3>3, <3>4, <3>5 DEF Right, IsRight
    <2> QED
      BY <2>1, <2>2, <2>5 DEF ProcessInv
  <1>2. ProcessInv /\ [SvcNext]_svcVars => ProcessInv'
    <2> SUFFICES ASSUME ProcessInv, [SvcNext]_svcVars PROVE ProcessInv'
      OBVIOUS
    <2>1. ASSUME NEW s \in ServiceNames, start_service(s) \/ sm_start_auto_services(s)
          PROVE  ProcessInv'
      BY <2>1, StartRight
    <2>2. ASSUME NEW s \in ServiceNames, stop_service(s) \/ stop_deadline_elapsed(s)
          PROVE  ProcessInv'
      BY <2>2, FlagsRight
    <2>3. ASSUME NEW s \in ServiceNames, restart_service(s) PROVE ProcessInv'
      BY <2>3, RestartRight
    <2>4. ASSUME NEW p \in 1 .. MaxSpawns, NEW code \in {0, 1}, terminate_current(p, code)
          PROVE  ProcessInv'
      BY <2>4, TerminateRight
    <2>5. CASE process_pending_exits
      BY <2>5, DrainRight
    <2>6. ASSUME NEW d \in Drainers, TakeRequests(d) PROVE ProcessInv'
      BY <2>6 DEF TakeRequests, ProcessInv, ServiceInv, World, Gone
    <2>7. ASSUME NEW d \in Drainers, process_pending_shutdowns(d) PROVE ProcessInv'
      BY <2>7, ShutdownRight
    <2>8. CASE UNCHANGED svcVars
      BY <2>8 DEF svcVars, ProcessInv, ServiceInv, World, Gone
    <2> QED
      BY <2>1, <2>2, <2>3, <2>4, <2>5, <2>6, <2>7, <2>8 DEF SvcNext
  <1>3. ProcessInv => ProcessesAccountedFor
    <2> SUFFICES ASSUME ProcessInv PROVE ProcessesAccountedFor
      OBVIOUS
    <2>1. /\ \A p \in alive \ orphans : \E s \in ServiceNames : svc[s].pid = p
          /\ \A s \in ServiceNames : svc[s].state = "Running" => svc[s].pid \in alive \cup Gone
      BY AccountFacts
    <2> QED
      <3>1. ASSUME NEW p \in alive \ orphans PROVE find_by_pid(p) # {}
        <4>1. PICK s \in ServiceNames : svc[s].pid = p
          BY <2>1
        <4>2. p # NoPid
          BY ProcessFacts DEF NoPid
        <4> QED
          BY <4>1, <4>2 DEF find_by_pid
      <3>2. ASSUME NEW s \in ServiceNames, svc[s].state = "Running"
            PROVE  \/ svc[s].pid \in alive \cup unreported
                   \/ \E i \in 1..Len(pendingExits) : pendingExits[i][1] = svc[s].pid
        BY <2>1, <3>2 DEF Gone, PidsOf
      <3> QED
        BY <3>1, <3>2 DEF ProcessesAccountedFor
  <1> QED
    BY <1>1, <1>2, <1>3, PTL DEF SvcSpec

=============================================================================
