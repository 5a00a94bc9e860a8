------------------------------- MODULE MCNet -------------------------------
(***************************************************************************)
(* The networking components on small instances.  A behaviour exercises    *)
(* the component named by focus; the others stay in their initial states.  *)
(***************************************************************************)
EXTENDS Dhcp

CONSTANT Components

VARIABLES focus,
          conn, dir, listener, backlog, net, jobs, ticking, parked, closing,
          wrote, got, arrived, tcpLoad,
          ntpd, cache, datagrams, nextPort, nextId, time, skew, shutdown, rewound, cal, timeLoad,
          load, nics, nem, ring, arp, loop, ping, sock, th, wire, hist

T == INSTANCE Tcp WITH
       TCP_MAX_CONNECTIONS <- 3, MAX_ACCEPT_BACKLOG <- 2, TCP_MSS <- 2, TCP_SEND_BUF <- 2,
       TCP_RECV_BUF <- 1, TCP_MAX_RETRIES <- 1, MaxBytes <- 2,
       TcpLoads <- { {"connect", "accept", "wait", "resyn"},
                     {"connect", "accept", "send", "recv"},
                     {"connect", "accept", "wait", "recv", "reply"},
                     {"connect", "wait", "close"},
                     {"connect", "close", "send"},
                     {"connect", "unlisten", "accept", "resyn"} }

N == INSTANCE TimeSync WITH
       net <- datagrams, now <- time,
       Hosts <- <<"h1", "h2">>, DnsServers <- <<"d1", "d2">>,
       DNS_CACHE_SIZE <- 2, DNS_MAX_RETRIES <- 1, NumPorts <- 2, NumIds <- 7, MaxNet <- 1,
       Timeout <- 2, INITIAL_BACKOFF <- 1, MAX_BACKOFF <- 2, Interval <- 2, EPOCH <- 7,
       Width <- 5, Skews <- {0, 4}, MaxNow <- 6, LastDay <- 36524,
       TimeLoads <- {{"stop"}, {"dns"}, {"literal"}, {"calendar"}}

P == INSTANCE NetStack WITH
       Threads <- {"t1", "t2"}, MaxNics <- 2, ArpSize <- 2, ArpLife <- 2, SweepEvery <- 2,
       LoopMax <- 2, BatchMax <- 2, RingSize <- 3, LinkEvery <- 2, PingMod <- 4, MaxPings <- 2,
       MaxFrames <- 2, MaxTicks <- 2, MaxAdmin <- 3,
       Workloads <- {"ping", "udp", "lan", "arp", "nic", "peer"}

tcpVars == <<conn, dir, listener, backlog, net, jobs, ticking, parked, closing,
             wrote, got, arrived, tcpLoad>>
timeVars == <<ntpd, cache, datagrams, nextPort, nextId, time, skew, shutdown, rewound, cal, timeLoad>>
stackVars == <<load, nics, nem, ring, arp, loop, ping, sock, th, wire, hist>>
vars == <<focus, tcpVars, dhcpVars, timeVars, stackVars>>

Init ==
    /\ focus \in Components
    /\ T!TcpInit /\ (focus # "tcp" => tcpLoad = {"connect", "wait", "close"})
    /\ DhcpInit /\ (focus # "dhcp" => dhcpLoad = {"dup"})
    /\ N!TimeInit /\ (focus # "time" => timeLoad = {"stop"})
    /\ P!Init /\ (focus # "stack" => load = "peer")

TcpStep == focus = "tcp" /\ T!TcpNext /\ UNCHANGED <<focus, dhcpVars, timeVars, stackVars>>
DhcpStep == focus = "dhcp" /\ DhcpNext /\ UNCHANGED <<focus, tcpVars, timeVars, stackVars>>
TimeStep == focus = "time" /\ N!TimeNext /\ UNCHANGED <<focus, tcpVars, dhcpVars, stackVars>>

StackStep == focus = "stack" /\ P!Next /\ UNCHANGED <<focus, tcpVars, dhcpVars, timeVars>>

Next == TcpStep \/ DhcpStep \/ TimeStep \/ StackStep

Spec == Init /\ [][Next]_vars
-----------------------------------------------------------------------------
\* What a peer reads from a connection is a prefix of what the other end wrote, in
\* order and without holes, whatever the network loses, repeats or reorders.
StreamIntact == focus = "tcp" => T!StreamIntact

\* A thread parked on a socket waits for something that has not happened.
NoSocketWaiterForgotten == focus = "tcp" => T!NoSocketWaiterForgotten

\* The dates the time service computes from day counts are those of the calendar.
CivilIsCalendar == focus = "time" => N!CivilIsCalendar

\* A name or time answer is only taken by the query it answers.
AnswersAreOwn == N!AnswersAreOwn

\* A ping that reports a time saw a reply with its identifier, although all replies
\* go through one cell; every datagram taken from a receive ring or the loopback
\* queue is in one place and meets one fate, whatever polls run at once.
FramesAccountedFor == focus = "stack" => P!FramesAccountedFor /\ P!PingAnswered
=============================================================================
