------------------------------ MODULE TimeSync ------------------------------
(***************************************************************************)
(* The clock service (userbin/ntpd) with the layers below it: the resolver  *)
(* (libnet/src/dns.rs, libdns), one UDP exchange (libnet/src/udp.rs) over a *)
(* kernel socket, the SNTP arithmetic and the civil calendar (libntp).      *)
(*                                                                          *)
(* Replies may be lost, or come after the client has given up: they wait in *)
(* net until a socket with their port is open.  Time is whole seconds;      *)
(* clock = now + skew is the machine's clock, now the servers'.             *)
(***************************************************************************)
EXTENDS Integers, Sequences, FiniteSets

CONSTANTS Hosts,              \* cfg.servers, a sequence of names
          DnsServers,         \* the configured resolvers, in preference order
          DNS_CACHE_SIZE, DNS_MAX_RETRIES, NumPorts, NumIds, MaxNet, Timeout,
          INITIAL_BACKOFF, MAX_BACKOFF, Interval, EPOCH, Width, Skews, MaxNow, LastDay, TimeLoads

VARIABLES ntpd, cache, net, nextPort, nextId, now, skew, shutdown, rewound, cal, timeLoad

timeVars == <<ntpd, cache, net, nextPort, nextId, now, skew, shutdown, rewound, cal, timeLoad>>

AddrOf(host) == CHOOSE i \in DOMAIN Hosts : Hosts[i] = host
clock == now + skew

unix_secs_to_ntp(secs) == (secs + EPOCH) % 2^Width
ntp_to_unix(ts) == (ts - EPOCH) % 2^Width

\* Rust's division truncates towards zero.
Half(x) == IF x >= 0 THEN x \div 2 ELSE -((-x) \div 2)

offset_and_delay(t1, t2, t3, t4) == Half((t2 - t1) + (t3 - t4))

-----------------------------------------------------------------------------
(* Sockets.                                                                 *)

allocate_ephemeral_port == nextPort' = (nextPort + 1) % NumPorts

\* Zero is not used as a query id.
next_id == IF nextId = 0 THEN <<1, 2 % NumIds>> ELSE <<nextId, (nextId + 1) % NumIds>>

Post(m) == net' = net \/ (Cardinality(net) < MaxNet /\ net' = net \cup {m})

\* udp_dispatch matches the local and the remote port.
Here == {m \in net : m.port = ntpd.port /\ m.kind = IF ntpd.pc = "dnswait" THEN "dns" ELSE "reply"}

-----------------------------------------------------------------------------
(* resolve.                                                                 *)

Host == Hosts[ntpd.srv]
Lookup(host, d) == {e \in cache : e.host = host /\ e.server = DnsServers[d]}
Hits(host) == {d \in DOMAIN DnsServers : Lookup(host, d) # {}}

\* The exchange's socket and timestamps are gone.
Closed == [ntpd EXCEPT !.port = 0, !.id = 0, !.ip = 0, !.t1 = 0, !.asked = 0, !.left = 0]
Goto(pc) == [ntpd EXCEPT !.pc = pc]

\* A name that cannot be resolved, a failed exchange or a clock that cannot be
\* set: the status is published and the next server tried.
NextServer == IF ntpd.srv < Len(Hosts)
              THEN [Closed EXCEPT !.pc = "resolve", !.srv = @ + 1, !.dns = 1, !.attempt = 0]
              ELSE [Closed EXCEPT !.pc = "wait", !.srv = 1, !.dns = 1, !.attempt = 0, !.left = ntpd.backoff,
                                !.backoff = IF 2 * @ < MAX_BACKOFF THEN 2 * @ ELSE MAX_BACKOFF]

NextDns == IF ntpd.dns < Len(DnsServers)
           THEN [Closed EXCEPT !.pc = "resolve", !.dns = @ + 1, !.attempt = 0]
           ELSE NextServer

\* A server given as an address needs no resolver.
parse_dotted_ip ==
    /\ ntpd.pc = "resolve" /\ "literal" \in timeLoad
    /\ ntpd' = [ntpd EXCEPT !.pc = "query", !.ip = AddrOf(Host)]
    /\ UNCHANGED <<cache, net, nextPort, nextId, now, skew, shutdown, rewound, cal, timeLoad>>

cache_lookup ==
    /\ "literal" \notin timeLoad
    /\ ntpd.pc = "resolve" /\ ntpd.dns = 1 /\ ntpd.attempt = 0 /\ Hits(Host) # {}
    /\ LET first == CHOOSE d \in Hits(Host) : \A x \in Hits(Host) : d <= x
       IN \E e \in Lookup(Host, first) : ntpd' = [ntpd EXCEPT !.pc = "query", !.ip = e.addr]
    /\ UNCHANGED <<cache, net, nextPort, nextId, now, skew, shutdown, rewound, cal, timeLoad>>

\* Where answers are compared, fewer queries are made than there are ids.
query_server ==
    /\ "literal" \notin timeLoad /\ ("dns" \in timeLoad => nextId < NumIds - 1)
    /\ ntpd.pc = "resolve" /\ ~(ntpd.dns = 1 /\ ntpd.attempt = 0 /\ Hits(Host) # {})
    /\ allocate_ephemeral_port
    /\ nextId' = next_id[2]
    /\ ntpd' = [ntpd EXCEPT !.pc = "dnswait", !.port = nextPort, !.id = next_id[1], !.left = Timeout]
    /\ \E rcode \in {"ok", "nx"} :
         Post([kind |-> "dns", port |-> nextPort, id |-> next_id[1], rcode |-> rcode,
               addr |-> AddrOf(Host), time |-> 0])
    /\ UNCHANGED <<cache, now, skew, shutdown, rewound, cal, timeLoad>>

\* Mutant: the reply's id is not compared.
ParseAnyId(m) == m.rcode
parse_response(m) == IF m.id # ntpd.id THEN "malformed" ELSE m.rcode

\* A full cache keeps what it has.
cache_insert(host, server, addr) ==
    LET same == {e \in cache : e.host = host /\ e.server = server}
    IN IF same # {} \/ Cardinality(cache) < DNS_CACHE_SIZE
       THEN (cache \ same) \cup {[host |-> host, server |-> server, addr |-> addr]} ELSE cache

dns_exchange ==
    /\ ntpd.pc = "dnswait"
    /\ \E m \in Here :
         /\ net' = net \ {m}
         /\ LET r == parse_response(m)
            IN CASE r = "ok" -> /\ cache' = cache_insert(Host, DnsServers[ntpd.dns], m.addr)
                                /\ ntpd' = [Closed EXCEPT !.pc = "query", !.ip = m.addr]
                 [] r = "nx" -> ntpd' = NextServer /\ UNCHANGED cache
                 [] r = "malformed" -> ntpd' = NextDns /\ UNCHANGED cache
    /\ UNCHANGED <<nextPort, nextId, now, skew, shutdown, rewound, cal, timeLoad>>

\* Only a timeout is tried again with the same resolver.
dns_timeout ==
    /\ ntpd.pc = "dnswait" /\ ntpd.left = 0
    /\ ntpd' = IF ntpd.attempt < DNS_MAX_RETRIES
               THEN [Closed EXCEPT !.pc = "resolve", !.attempt = @ + 1] ELSE NextDns
    /\ UNCHANGED <<cache, net, nextPort, nextId, now, skew, shutdown, rewound, cal, timeLoad>>

-----------------------------------------------------------------------------
(* ntp_sync.                                                                *)

ntp_send ==
    /\ ntpd.pc = "query"
    /\ allocate_ephemeral_port
    /\ ntpd' = [ntpd EXCEPT !.pc = "ntpwait", !.port = nextPort, !.id = unix_secs_to_ntp(clock),
                            !.t1 = clock, !.asked = now, !.left = Timeout]
    /\ Post([kind |-> "request", port |-> nextPort, id |-> unix_secs_to_ntp(clock), rcode |-> "ok",
             addr |-> ntpd.ip, time |-> 0])
    /\ UNCHANGED <<cache, nextId, now, skew, shutdown, rewound, cal, timeLoad>>

\* The server stamps the reply when it answers; it may have no time to give.
ServerReplies(m) ==
    /\ m \in net /\ m.kind = "request"
    /\ \E rcode \in {"ok", "kod"} :
         net' = (net \ {m}) \cup {[m EXCEPT !.kind = "reply", !.rcode = rcode,
                                            !.time = unix_secs_to_ntp(now)]}
    /\ UNCHANGED <<ntpd, cache, nextPort, nextId, now, skew, shutdown, rewound, cal, timeLoad>>

parse_reply(m) == m.rcode = "ok" /\ m.id = ntpd.id

ntp_reply ==
    /\ ntpd.pc = "ntpwait"
    /\ \E m \in Here :
         /\ net' = net \ {m}
         /\ IF parse_reply(m)
            THEN LET t2 == ntp_to_unix(m.time)
                     secs == clock + offset_and_delay(ntpd.t1, t2, t2, clock)
                 IN \/ /\ skew' = secs - now                       \* apply_time
                       /\ rewound' = (rewound \/ secs < clock)
                       /\ ntpd' = [Closed EXCEPT !.pc = "wait", !.srv = 1, !.dns = 1, !.attempt = 0,
                                                 !.left = Interval, !.backoff = INITIAL_BACKOFF]
                    \/ ntpd' = NextServer /\ UNCHANGED <<skew, rewound>>
            ELSE ntpd' = NextServer /\ UNCHANGED <<skew, rewound>>
    /\ UNCHANGED <<cache, nextPort, nextId, now, shutdown, cal, timeLoad>>

ntp_timeout ==
    /\ ntpd.pc = "ntpwait" /\ ntpd.left = 0
    /\ ntpd' = NextServer
    /\ UNCHANGED <<cache, net, nextPort, nextId, now, skew, shutdown, rewound, cal, timeLoad>>

-----------------------------------------------------------------------------
(* The service's loop.                                                      *)

network_ready ==
    /\ ntpd.pc = "check"
    /\ \/ ntpd' = [ntpd EXCEPT !.pc = "resolve", !.srv = 1, !.dns = 1, !.attempt = 0]
       \/ ntpd' = [ntpd EXCEPT !.pc = "wait", !.left = ntpd.backoff,
                               !.backoff = IF 2 * @ < MAX_BACKOFF THEN 2 * @ ELSE MAX_BACKOFF]
    /\ UNCHANGED <<cache, net, nextPort, nextId, now, skew, shutdown, rewound, cal, timeLoad>>

\* Mutant: the wait looks at its budget only.
WaitsOut ==
    /\ ntpd.pc = "wait" /\ ntpd.left = 0
    /\ ntpd' = Goto("check")
    /\ UNCHANGED <<cache, net, nextPort, nextId, now, skew, shutdown, rewound, cal, timeLoad>>

wait_seconds ==
    /\ ntpd.pc = "wait" /\ (shutdown \/ ntpd.left = 0)
    /\ ntpd' = Goto(IF shutdown THEN "exited" ELSE "check")
    /\ UNCHANGED <<cache, net, nextPort, nextId, now, skew, shutdown, rewound, cal, timeLoad>>

Tick ==
    /\ ntpd.pc \in {"dnswait", "ntpwait", "wait"} /\ ntpd.left > 0
    /\ now' = IF now < MaxNow /\ "literal" \in timeLoad THEN now + 1 ELSE now
    /\ ntpd' = [ntpd EXCEPT !.left = @ - 1]
    /\ UNCHANGED <<cache, net, nextPort, nextId, skew, shutdown, rewound, cal, timeLoad>>

RequestShutdown ==
    /\ ~shutdown /\ "stop" \in timeLoad /\ shutdown' = TRUE
    /\ UNCHANGED <<ntpd, cache, net, nextPort, nextId, now, skew, rewound, cal, timeLoad>>

-----------------------------------------------------------------------------
(* The civil calendar, and the calendar itself: one day after the other.    *)

days_from_civil(y0, m, d) ==
    LET y == IF m <= 2 THEN y0 - 1 ELSE y0
        era == (IF y >= 0 THEN y ELSE y - 399) \div 400
        yoe == y - era * 400
        doy == (153 * (IF m > 2 THEN m - 3 ELSE m + 9) + 2) \div 5 + d - 1
    IN era * 146097 + (yoe * 365 + yoe \div 4 - yoe \div 100 + doy) - 719468

\* Mutant: the century correction of the year of the era is missing.
CivilNoCentury(z0) ==
    LET z == z0 + 719468
        era == (IF z >= 0 THEN z ELSE z - 146096) \div 146097
        doe == z - era * 146097
        yoe == (doe - doe \div 1460 - doe \div 146096) \div 365
        doy == doe - (365 * yoe + yoe \div 4 - yoe \div 100)
        mp == (5 * doy + 2) \div 153
        m == IF mp < 10 THEN mp + 3 ELSE mp - 9
    IN <<IF m <= 2 THEN yoe + era * 400 + 1 ELSE yoe + era * 400, m, doy - (153 * mp + 2) \div 5 + 1>>

civil_from_days(z0) ==
    LET z == z0 + 719468
        era == (IF z >= 0 THEN z ELSE z - 146096) \div 146097
        doe == z - era * 146097
        yoe == (doe - doe \div 1460 + doe \div 36524 - doe \div 146096) \div 365
        doy == doe - (365 * yoe + yoe \div 4 - yoe \div 100)
        mp == (5 * doy + 2) \div 153
        m == IF mp < 10 THEN mp + 3 ELSE mp - 9
    IN <<IF m <= 2 THEN yoe + era * 400 + 1 ELSE yoe + era * 400, m, doy - (153 * mp + 2) \div 5 + 1>>

\* The day of a two digit date, and the two digit date of a day.
unix_secs_to_utc(n) == LET c == civil_from_days(n) IN <<c[1] % 100, c[2], c[3]>>
utc_to_unix_secs(dt) == days_from_civil(2000 + dt[1], dt[2], dt[3])

Leap(y) == y % 4 = 0 /\ (y % 100 # 0 \/ y % 400 = 0)
DaysIn(y, m) == CASE m = 2 -> IF Leap(y) THEN 29 ELSE 28
                  [] m \in {4, 6, 9, 11} -> 30
                  [] OTHER -> 31
NextDate(c) == CASE c[3] < DaysIn(c[1], c[2]) -> <<c[1], c[2], c[3] + 1>>
                 [] c[2] < 12 /\ c[3] = DaysIn(c[1], c[2]) -> <<c[1], c[2] + 1, 1>>
                 [] OTHER -> <<c[1] + 1, 1, 1>>

NextDay == /\ "calendar" \in timeLoad /\ cal.day < LastDay
           /\ cal' = [day |-> cal.day + 1, date |-> NextDate(cal.date)]
           /\ UNCHANGED <<ntpd, cache, net, nextPort, nextId, now, skew, shutdown, rewound, timeLoad>>

-----------------------------------------------------------------------------
TimeInit ==
    /\ timeLoad \in TimeLoads
    /\ ntpd = [pc |-> IF "calendar" \in timeLoad THEN "exited" ELSE "check", srv |-> 1, dns |-> 1,
               attempt |-> 0, backoff |-> INITIAL_BACKOFF, left |-> 0, port |-> 0, id |-> 0,
               ip |-> 0, t1 |-> 0, asked |-> 0]
    /\ cache = {} /\ net = {} /\ nextPort = 0 /\ nextId = 1 /\ now = 0
    /\ skew \in (IF "literal" \in timeLoad THEN Skews ELSE {0})
    /\ shutdown = FALSE /\ rewound = FALSE
    /\ cal = [day |-> 0, date |-> <<1970, 1, 1>>]

Service == \/ network_ready \/ parse_dotted_ip \/ cache_lookup \/ query_server \/ dns_exchange \/ dns_timeout
           \/ ntp_send \/ ntp_reply \/ ntp_timeout \/ wait_seconds \/ Tick

TimeNext ==
    \/ Service \/ RequestShutdown \/ NextDay
    \/ \E m \in net : ServerReplies(m)

\* The service is scheduled again and again, and time passes while it waits.
TimeFair == WF_timeVars(Service)

TimeSpec == TimeInit /\ [][TimeNext]_timeVars /\ TimeFair

-----------------------------------------------------------------------------
\* The clock's distance from the servers' time, twice, against the round trip.
CloseAfterSetting == LET d == 2 * skew' IN d <= now - ntpd.asked + 1 /\ -d <= now - ntpd.asked + 1

\* What the service believes is what it was told: a cached address is the one
\* its own host has, although replies to earlier queries reach the port again,
\* and setting the clock leaves it no further from the servers' time than half
\* the round trip, as long as the clock was never set back.
AnswersAreOwn ==
    [][/\ "dns" \in timeLoad => \A e \in cache' : e.addr = AddrOf(e.host)
       /\ (skew' # skew /\ ~rewound) => CloseAfterSetting]_timeVars

\* The originate timestamp lets the client reject stale datagrams: the same,
\* with clocks that were set back.
ClockAlwaysClose ==
    [][skew' # skew => CloseAfterSetting]_timeVars

\* A service that is asked to stop leaves, from wherever it is in its rounds of
\* resolving, asking and backing off.
ShutdownHonoured == shutdown ~> (ntpd.pc = "exited")

\* The day arithmetic agrees with the calendar on every day, and a date read
\* back from its two digit form is the same day (from 2000 on).
CivilIsCalendar ==
    /\ civil_from_days(cal.day) = cal.date
    /\ days_from_civil(cal.date[1], cal.date[2], cal.date[3]) = cal.day
    /\ cal.date[1] >= 2000 => utc_to_unix_secs(unix_secs_to_utc(cal.day)) = cal.day

\* Every date the conversion accepts can be represented in two digits.
DatesRoundTrip == utc_to_unix_secs(unix_secs_to_utc(cal.day)) = cal.day
=============================================================================
