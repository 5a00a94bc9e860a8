------------------------------- MODULE MCLive -------------------------------
(***************************************************************************)
(* What must eventually happen, component by component.  A behaviour       *)
(* exercises the component named by focus; the others stay in their        *)
(* initial states.  The instances are smaller than those of the safety     *)
(* runs, because TLC keeps the whole graph.                                *)
(***************************************************************************)
EXTENDS Integers, Sequences, FiniteSets

CONSTANT Components

VARIABLES focus,
          conn, dir, listener, backlog, net, jobs, ticking, parked, closing,
          wrote, got, arrived, tcpLoad,
          client, leases, tmp, inbox, sent, now, acked, reg, applier, nicCfg, last, dhcpLoad,
          ntpd, names, datagrams, nextPort, nextId, time, skew, shutdown, rewound, cal, timeLoad,
          svc, alive, spawned, pendingExits, pendingShutdowns, batch, asked, svcLoad, orphans, unreported,
          cache, disk, NEED_CACHE_FLUSH, budget, direct, latest, clock, faults, dropped, missed,
          sem, timer, obj, next_id, deadlines, expired, waits, call, load

T == INSTANCE Tcp WITH
       TCP_MAX_CONNECTIONS <- 2, MAX_ACCEPT_BACKLOG <- 1, TCP_MSS <- 1, TCP_SEND_BUF <- 1,
       TCP_RECV_BUF <- 1, TCP_MAX_RETRIES <- 1, MaxBytes <- 1,
       TcpLoads <- {{"connect", "wait", "close"}}

D == INSTANCE Dhcp WITH
       MaxNics <- 1, MAX_RETRIES <- 1, LEASE <- 2, T1 <- 1, T2 <- 1, MaxTime <- 2, MaxQueued <- 1,
       DhcpLoads <- {{"apply"}}

N == INSTANCE TimeSync WITH
       cache <- names, net <- datagrams, now <- time,
       Hosts <- <<"h1", "h2">>, DnsServers <- <<"d1", "d2">>,
       DNS_CACHE_SIZE <- 1, DNS_MAX_RETRIES <- 1, NumPorts <- 1, NumIds <- 2, MaxNet <- 1,
       Timeout <- 1, INITIAL_BACKOFF <- 1, MAX_BACKOFF <- 2, Interval <- 1, EPOCH <- 7,
       Width <- 5, Skews <- {0}, MaxNow <- 3, LastDay <- 0, TimeLoads <- {{"stop"}}

S == INSTANCE Services WITH
       ServiceNames <- {"net", "app"},
       Chain <- [s \in {"net", "app"} |-> IF s = "app" THEN <<"net", "app">> ELSE <<"net">>],
       Policy <- [s \in {"net", "app"} |-> IF s = "app" THEN "OnCrash" ELSE "Always"],
       MAX_FAILURES <- 1, PENDING_EXIT_CAP <- 4, PENDING_SHUTDOWN_CAP <- 2,
       Drainers <- {"c0"}, MaxSpawns <- 2,
       SvcLoads <- {{"stop", "crash"}, {"restart", "crash"}, {"stop", "start"}}

PC == INSTANCE PageCache WITH
       Keys <- {<<1, 1>>, <<1, 2>>}, Raw <- {}, CACHE_SIZE <- 2,
       Home <- [k \in {<<1, 1>>, <<1, 2>>} |-> 0],
       MAX_FLUSHES_PER_CALL <- 1, MaxWrites <- 2, MaxFaults <- 1

W == INSTANCE Waitables WITH Threads <- {"t1", "t2"},
       NSems <- 1, NTimers <- 1, Events <- {0}, MaxObjects <- 1, MaxHandles <- 1,
       Counts <- {<<0, 1>>}, Amounts <- {1}, MaxPeriod <- 1, IntMax <- 16, Field <- 4, MaxWaits <- 2,
       Loads <- {[calls |-> {"semaphore", "release", "event", "signal", "timed"}, cpus |-> 1]}

tcpVars == <<conn, dir, listener, backlog, net, jobs, ticking, parked, closing,
             wrote, got, arrived, tcpLoad>>
dhcpVars == <<client, leases, tmp, inbox, sent, now, acked, reg, applier, nicCfg, last, dhcpLoad>>
timeVars == <<ntpd, names, datagrams, nextPort, nextId, time, skew, shutdown, rewound, cal, timeLoad>>
svcVars == <<svc, alive, spawned, pendingExits, pendingShutdowns, batch, asked, svcLoad, orphans, unreported>>
pageVars == <<cache, disk, NEED_CACHE_FLUSH, budget, direct, latest, clock, faults, dropped, missed>>
waitVars == <<sem, timer, obj, next_id, deadlines, expired, waits, call, load>>
vars == <<focus, tcpVars, dhcpVars, timeVars, svcVars, pageVars, waitVars>>

Init ==
    /\ focus \in Components
    /\ T!TcpInit /\ D!DhcpInit /\ N!TimeInit /\ S!SvcInit /\ PC!Init /\ W!Init
    /\ focus # "services" => svcLoad = {"stop", "crash"}

OnlyTcp == focus = "tcp" /\ UNCHANGED <<focus, dhcpVars, timeVars, svcVars, pageVars, waitVars>>
OnlyDhcp == focus = "dhcp" /\ UNCHANGED <<focus, tcpVars, timeVars, svcVars, pageVars, waitVars>>
OnlyTime == focus = "time" /\ UNCHANGED <<focus, tcpVars, dhcpVars, svcVars, pageVars, waitVars>>
OnlySvc == focus = "services" /\ UNCHANGED <<focus, tcpVars, dhcpVars, timeVars, pageVars, waitVars>>
OnlyPages == focus = "pages" /\ UNCHANGED <<focus, tcpVars, dhcpVars, timeVars, svcVars, waitVars>>
OnlyWaits == focus = "waits" /\ UNCHANGED <<focus, tcpVars, dhcpVars, timeVars, svcVars, pageVars>>

Next ==
    \/ OnlyTcp /\ T!TcpNext
    \/ OnlyDhcp /\ D!DhcpNext
    \/ OnlyTime /\ N!TimeNext
    \/ OnlySvc /\ S!SvcNext
    \/ OnlyPages /\ PC!Next
    \/ OnlyWaits /\ W!Next

(* The fairness each component states for itself.  The focus never changes, so *)
(* fairness of a disjunction is fairness of the disjunct of the component that *)
(* is exercised.                                                               *)
TcpJob(i) == OnlyTcp /\ (\E rto \in BOOLEAN : T!tick_job(i, rto)) /\ UNCHANGED tcpLoad
TcpExpiry(i) == OnlyTcp /\ T!tick_job(i, TRUE) /\ UNCHANGED tcpLoad
Applier == OnlyDhcp /\ (D!ApplierRead(1) \/ D!ApplierPass(1))
LeaseExpiry == OnlyDhcp /\ D!SuperviseExpired(1)
Proceeds(t) == OnlyWaits /\ W!Continue(t) /\ UNCHANGED load
Collected(m) == OnlyWaits /\ W!Collects(m) /\ UNCHANGED load

Fair ==
    /\ WF_vars(\/ OnlyTcp /\ T!tick_snapshot /\ UNCHANGED tcpLoad
               \/ OnlyDhcp /\ D!Client
               \/ OnlyTime /\ N!Service
               \/ OnlySvc /\ S!process_pending_exits
               \/ OnlyPages /\ PC!TimerTick
               \/ Proceeds("t1"))
    /\ WF_vars(\/ OnlyTcp /\ T!tick_end /\ UNCHANGED tcpLoad
               \/ Applier
               \/ OnlySvc /\ S!TakeRequests("c0")
               \/ OnlyPages /\ PC!BeginFlush
               \/ Proceeds("t2"))
    /\ WF_vars(\/ TcpJob(1)
               \/ OnlySvc /\ S!process_pending_shutdowns("c0")
               \/ OnlyPages /\ \E ok \in BOOLEAN : PC!FlushPage(ok))
    /\ WF_vars(TcpJob(2) \/ (OnlySvc /\ S!stop_deadline_elapsed("net")))
    /\ WF_vars(OnlySvc /\ S!stop_deadline_elapsed("app"))
    /\ SF_vars(TcpExpiry(1) \/ (OnlyDhcp /\ D!RunTimeout) \/ (OnlyWaits /\ W!wake_expired /\ UNCHANGED load))
    /\ SF_vars(TcpExpiry(2) \/ LeaseExpiry \/ Collected(<<"event", 0>>))
    /\ SF_vars(Collected(<<"semaphore", 0>>))

Spec == Init /\ [][Next]_vars /\ Fair
-----------------------------------------------------------------------------
\* What a thread or a user asked for comes to an end whatever the other side does:
\* connect returns although no answer comes, a service told to stop is gone by
\* its deadline or exits its rounds, a wait with a timeout ends.
RequestsEnd == T!ConnectReturns /\ N!ShutdownHonoured /\ S!StopEnds /\ W!TimedWaitsEnd

\* A round of DHCP ends in a lease or the fallback address, an expired lease is
\* given up or replaced, and the NIC gets the address the Registry keeps.
LeasesSettle == D!LeasesSettle /\ D!NicFollowsRegistry

\* A page written through the cache is on its device in the end or was given up:
\* the timer's flush requests reach every dirty page.
DirtyReachesDisk == PC!DirtyReachesDisk
=============================================================================
