-------------------------------- MODULE Dhcp --------------------------------
(***************************************************************************)
(* The address configuration of the network interfaces: the DHCP client     *)
(* service (userbin/dhcpd), which obtains and supervises one lease per NIC  *)
(* over one socket with one transaction id, publishes leases value by value *)
(* to the Registry (libnet/src/config.rs), and the applier (userbin/        *)
(* netapplier), which reads the values back and configures the NIC.         *)
(*                                                                          *)
(* The server is the environment: it answers a request, refuses it, or the  *)
(* request or the answer is lost or comes twice.  Datagrams that wait on    *)
(* the socket are one byte stream: a read of the 1024 byte buffer takes two *)
(* of them and parses the first.  A lease's mask, DNS servers and options   *)
(* travel like its gateway.                                                 *)
(***************************************************************************)
EXTENDS Integers, Sequences, FiniteSets

CONSTANTS MaxNics, MAX_RETRIES, LEASE, T1, T2, MaxTime, MaxQueued, DhcpLoads

VARIABLES client,     \* the dhcpd process
          leases, tmp, inbox, sent, now, acked, reg, applier, nicCfg, last, dhcpLoad

dhcpVars == <<client, leases, tmp, inbox, sent, now, acked, reg, applier, nicCfg, last, dhcpLoad>>

NoIp == 0
APIPA == 1
NakIp == 255
Server == 7
Gateway == 9
Nics == 1..(IF "nics" \in dhcpLoad THEN MaxNics ELSE 1)
AddrOf(mac) == 10 + mac

EmptyLease == [active |-> FALSE, bound |-> FALSE, ip |-> NoIp, server |-> 0,
               state |-> "Init", obtained |-> 0]

\* new: a client for one round of discovery on a NIC; back says whether the
\* round was started by the supervisor.
NewClient(n, back) == [pc |-> "Init", nic |-> n, back |-> back, ip |-> NoIp, server |-> 0,
                       retry |-> 0, publish |-> <<>>]

Msg(kind, mac, ci) == [kind |-> kind, mac |-> mac, ci |-> ci]
send_dhcp(m) == sent' = sent \cup {m}

-----------------------------------------------------------------------------
(* poll_response: the client's address and server after a reply, and what   *)
(* the caller is told (NoIp: nothing).                                      *)

\* Mutant: an OFFER is accepted whether or not one was accepted before.
AcceptsAnyOffer(c, m) ==
    IF m.kind = "NAK" THEN [ip |-> c.ip, server |-> c.server, told |-> NakIp]
    ELSE [ip |-> m.ip, server |-> m.server, told |-> m.ip]

poll_response(c, m) ==
    CASE m.kind = "OFFER" /\ c.server = 0 /\ c.ip = NoIp ->
            [ip |-> m.ip, server |-> m.server, told |-> m.ip]
      [] m.kind = "ACK" -> [ip |-> m.ip, server |-> m.server, told |-> m.ip]
      [] m.kind = "NAK" -> [ip |-> c.ip, server |-> c.server, told |-> NakIp]
      [] OTHER -> [ip |-> c.ip, server |-> c.server, told |-> NoIp]

\* One read: the first datagram, and the second one with it.
Reply == Head(inbox)
recv == inbox # <<>> /\ inbox' = SubSeq(inbox, 3, Len(inbox))

-----------------------------------------------------------------------------
(* One round of discovery (discover_lease, DhcpClient::run).                *)

RunInit ==
    /\ client.pc = "Init"
    /\ send_dhcp(Msg("DISCOVER", client.nic, NoIp))
    /\ client' = [client EXCEPT !.pc = "Selecting", !.retry = 0]
    /\ UNCHANGED <<leases, tmp, inbox, now, acked, reg, applier, nicCfg, last, dhcpLoad>>

\* Any answer moves the client on, a refusal too; a client that has selected
\* nothing yet ignores none of the three.
RunSelecting ==
    /\ client.pc = "Selecting" /\ recv
    /\ LET r == poll_response(client, Reply)
       IN /\ client' = [client EXCEPT !.pc = "Requesting", !.ip = r.told, !.server = r.server,
                                      !.retry = 0]
          /\ send_dhcp(Msg("REQUEST", client.nic, r.told))
    /\ UNCHANGED <<leases, tmp, now, acked, reg, applier, nicCfg, last, dhcpLoad>>

Publish(ip, gw) == <<<<"ip", ip>>, <<"gw", gw>>>>

\* The end of the round: bound with the client's address, or the fallback.
discover_lease(ip, c) ==
    /\ leases' = [leases EXCEPT ![c.nic] =
            [active |-> TRUE, bound |-> ip # NoIp, ip |-> IF ip = NoIp THEN NoIp ELSE c.ip,
             server |-> IF ip = NoIp THEN 0 ELSE c.server,
             state |-> IF ip = NoIp THEN "Init" ELSE "Bound", obtained |-> now]]
    /\ client' = [c EXCEPT !.pc = "Publish",
                     !.publish = IF ip = NoIp THEN Publish(APIPA, NoIp) ELSE Publish(c.ip, Gateway)]

RunRequesting ==
    /\ client.pc = "Requesting" /\ recv
    /\ LET r == poll_response(client, Reply)
       IN IF r.told # NoIp
          THEN discover_lease(r.told, [client EXCEPT !.ip = r.ip, !.server = r.server])
          ELSE UNCHANGED <<client, leases>>
    /\ UNCHANGED <<tmp, sent, now, acked, reg, applier, nicCfg, last, dhcpLoad>>

\* TIMEOUT_ITERATIONS polls without an answer: send again, or give up.
RunTimeout ==
    /\ client.pc \in {"Selecting", "Requesting"} /\ inbox = <<>>
    /\ IF client.retry + 1 > MAX_RETRIES
       THEN discover_lease(NoIp, client) /\ UNCHANGED sent
       ELSE /\ send_dhcp(IF client.pc = "Selecting" THEN Msg("DISCOVER", client.nic, NoIp)
                         ELSE Msg("REQUEST", client.nic, client.ip))
            /\ client' = [client EXCEPT !.retry = @ + 1] /\ UNCHANGED leases
    /\ UNCHANGED <<tmp, inbox, now, acked, reg, applier, nicCfg, last, dhcpLoad>>

\* publish_lease: one Registry value after the other; then the next NIC's
\* round, or back to the supervisor.
publish_lease ==
    /\ client.pc = "Publish"
    /\ LET w == Head(client.publish)
           rest == Tail(client.publish)
       IN /\ reg' = [reg EXCEPT ![client.nic][w[1]] = w[2]]
          /\ client' = CASE rest # <<>> -> [client EXCEPT !.publish = rest]
                         [] rest = <<>> /\ ~client.back /\ client.nic + 1 \in Nics ->
                              NewClient(client.nic + 1, FALSE)
                         [] OTHER -> [NewClient(1, TRUE) EXCEPT !.pc = "Supervise"]
    /\ UNCHANGED <<leases, tmp, inbox, sent, now, acked, applier, nicCfg, last, dhcpLoad>>

-----------------------------------------------------------------------------
(* The supervisor.                                                          *)

Elapsed(n) == now - leases[n].obtained
Supervised(n) == client.pc = "Supervise" /\ leases[n].active /\ leases[n].bound

Expired(n) == LEASE # 0 /\ Elapsed(n) >= LEASE

SuperviseExpired(n) ==
    /\ Supervised(n) /\ Expired(n)
    /\ client' = NewClient(n, TRUE)
    /\ UNCHANGED <<leases, tmp, inbox, sent, now, acked, reg, applier, nicCfg, last, dhcpLoad>>

\* T1 (unicast) and T2 (broadcast): the request carries what the supervisor's
\* own client record holds, an empty hardware address and its last address.
SuperviseRenew(n) ==
    /\ Supervised(n) /\ ~Expired(n)
    /\ \/ leases[n].state = "Bound" /\ Elapsed(n) >= T1
       \/ leases[n].state = "Renewing" /\ Elapsed(n) >= T2
    /\ send_dhcp(Msg("REQUEST", 0, tmp.ip))
    /\ leases' = [leases EXCEPT ![n].state = IF @ = "Bound" THEN "Renewing" ELSE "Rebinding"]
    /\ UNCHANGED <<client, tmp, inbox, now, acked, reg, applier, nicCfg, last, dhcpLoad>>

Awaiting(n) == Supervised(n) /\ leases[n].state \in {"Renewing", "Rebinding"}

Resend(n) ==
    /\ Awaiting(n)
    /\ send_dhcp(Msg("REQUEST", 0, tmp.ip))
    /\ UNCHANGED <<client, leases, tmp, inbox, now, acked, reg, applier, nicCfg, last, dhcpLoad>>

\* The server first, then the address.
find_lease_idx(server, ip) ==
    LET bound == {n \in Nics : leases[n].active /\ leases[n].bound}
        byServer == {n \in bound : leases[n].server = server}
        byIp == {n \in bound : ip \notin {NoIp, NakIp} /\ leases[n].ip = ip}
        least(s) == {n \in s : \A m \in s : n <= m}
    IN IF byServer # {} THEN least(byServer) ELSE least(byIp)

SupervisePoll ==
    /\ \E n \in Nics : Awaiting(n)
    /\ recv
    /\ LET r == poll_response(tmp, Reply)
           hit == find_lease_idx(Reply.server, IF r.told = NakIp THEN NoIp ELSE r.told)
       IN /\ tmp' = [ip |-> r.ip, server |-> r.server]
          /\ IF r.told = NoIp \/ hit = {} THEN UNCHANGED <<client, leases>>
             ELSE \E n \in hit :
                    IF r.told = NakIp THEN client' = NewClient(n, TRUE) /\ UNCHANGED leases
                    ELSE /\ leases' = [leases EXCEPT ![n].ip = r.ip, ![n].server = r.server,
                                         ![n].obtained = now, ![n].state = "Bound"]
                         /\ client' = [NewClient(n, TRUE) EXCEPT !.pc = "Publish",
                                                               !.publish = Publish(r.ip, Gateway)]
    /\ UNCHANGED <<sent, now, acked, reg, applier, nicCfg, last, dhcpLoad>>

-----------------------------------------------------------------------------
(* The environment.                                                         *)

Deliver(m) == inbox' = IF Len(inbox) < (IF "dup" \in dhcpLoad THEN MaxQueued ELSE 1) THEN Append(inbox, m) ELSE inbox

ServerAnswers(m) ==
    /\ m \in sent
    /\ sent' = sent \ {m} \/ ("dup" \in dhcpLoad /\ sent' = sent)
    /\ LET ip == IF m.ci \in {NoIp, NakIp} THEN AddrOf(m.mac) ELSE m.ci
           reply(kind) == [kind |-> kind, ip |-> ip, server |-> Server]
       IN \/ Deliver(reply(IF m.kind = "DISCOVER" THEN "OFFER" ELSE "ACK"))
             /\ acked' = IF m.kind = "REQUEST" THEN acked \cup {ip} ELSE acked
          \/ m.kind = "REQUEST" /\ "nak" \in dhcpLoad /\ Deliver(reply("NAK")) /\ UNCHANGED acked
          \/ UNCHANGED <<inbox, acked>>
    /\ UNCHANGED <<client, leases, tmp, now, reg, applier, nicCfg, last, dhcpLoad>>

Tick == /\ now < MaxTime /\ now' = now + 1 /\ client.pc = "Supervise"
        /\ UNCHANGED <<client, leases, tmp, inbox, sent, acked, reg, applier, nicCfg, last, dhcpLoad>>

-----------------------------------------------------------------------------
(* netapplier: one pass reads the values one after the other.               *)

ApplierRead(n) ==
    /\ "apply" \in dhcpLoad /\ applier.pc = "read" /\ applier.nic = n
    /\ applier' = [applier EXCEPT !.pc = "decide", !.ip = reg[n].ip]
    /\ UNCHANGED <<client, leases, tmp, inbox, sent, now, acked, reg, nicCfg, last, dhcpLoad>>

\* set_ip, and set_gateway unless there is none.
apply(n, cfg) == nicCfg' = [nicCfg EXCEPT ![n] = [ip |-> cfg.ip, gw |-> IF cfg.gw # NoIp THEN cfg.gw ELSE @.gw]]

\* Mutant: what was read is remembered although it was not applied.
RemembersUnapplied(n, link) ==
    LET cfg == [ip |-> applier.ip, gw |-> reg[n].gw]
    IN /\ IF link /\ ~last[n].link THEN apply(n, cfg) ELSE UNCHANGED nicCfg
       /\ last' = [last EXCEPT ![n] = [ip |-> cfg.ip, gw |-> cfg.gw, link |-> link]]

Decide(n, link) ==
    LET cfg == [ip |-> applier.ip, gw |-> reg[n].gw]
        changed == cfg.ip # last[n].ip \/ cfg.gw # last[n].gw
    IN IF cfg.ip # NoIp /\ (changed \/ (link /\ ~last[n].link))
       THEN /\ apply(n, cfg)
            /\ last' = [last EXCEPT ![n] = [ip |-> cfg.ip, gw |-> cfg.gw, link |-> link]]
       ELSE /\ UNCHANGED nicCfg
            /\ last' = [last EXCEPT ![n].link = link]

ApplierPass(n) ==
    /\ "apply" \in dhcpLoad /\ applier.pc = "decide" /\ applier.nic = n
    /\ \E link \in BOOLEAN : Decide(n, link)
    /\ applier' = [pc |-> "read", nic |-> IF n + 1 \in Nics THEN n + 1 ELSE 1, ip |-> NoIp]
    /\ UNCHANGED <<client, leases, tmp, inbox, sent, now, acked, reg, dhcpLoad>>

-----------------------------------------------------------------------------
DhcpInit ==
    /\ dhcpLoad \in DhcpLoads
    /\ client = NewClient(1, FALSE)
    /\ leases = [n \in 1..MaxNics |-> EmptyLease]
    /\ tmp = [ip |-> NoIp, server |-> 0]
    /\ inbox = <<>> /\ sent = {} /\ now = 0 /\ acked = {}
    /\ reg = [n \in 1..MaxNics |-> [ip |-> NoIp, gw |-> NoIp]]
    /\ nicCfg = [n \in 1..MaxNics |-> [ip |-> NoIp, gw |-> NoIp]]
    /\ applier = [pc |-> "read", nic |-> 1, ip |-> NoIp]
    /\ last = [n \in 1..MaxNics |-> [ip |-> -1, gw |-> -1, link |-> FALSE]]

Client == RunInit \/ RunSelecting \/ RunRequesting \/ publish_lease \/ SupervisePoll

DhcpNext ==
    \/ Client \/ RunTimeout \/ Tick
    \/ \E n \in Nics : \/ SuperviseExpired(n) \/ SuperviseRenew(n) \/ Resend(n)
                       \/ ApplierRead(n) \/ ApplierPass(n)
    \/ \E m \in sent : ServerAnswers(m)

\* dhcpd and netapplier keep being scheduled.  The client counts every poll
\* that moved it nowhere up to a timeout, and the supervisor's loop looks at
\* the expiry of every lease each 1024 rounds, however many answers come in
\* between (the strong fairness); nothing is assumed of the server.
DhcpFair ==
    /\ WF_dhcpVars(Client) /\ SF_dhcpVars(RunTimeout)
    /\ \A n \in 1..MaxNics : /\ SF_dhcpVars(n \in Nics /\ SuperviseExpired(n))
                             /\ WF_dhcpVars(n \in Nics /\ (ApplierRead(n) \/ ApplierPass(n)))

DhcpSpec == DhcpInit /\ [][DhcpNext]_dhcpVars /\ DhcpFair

-----------------------------------------------------------------------------
\* With one NIC and a server that refuses nothing, an interface is bound only
\* to an address a server acknowledged, whatever is lost, sent again, answered
\* twice or answered late.
BoundWasAcked ==
    dhcpLoad \cap {"nak", "nics"} = {} => \A n \in Nics : leases[n].bound => leases[n].ip \in acked

\* "On ACK: publish": the same for any number of NICs and any server.
BoundOnlyOnAck == \A n \in Nics : leases[n].bound => leases[n].ip \in acked

\* Every round of discovery ends in a lease or in the fallback address, and a
\* lease that has expired is given up or replaced, whatever the server does.
LeasesSettle ==
    /\ (client.pc \in {"Selecting", "Requesting"}) ~> (client.pc = "Publish")
    /\ \A n \in 1..MaxNics : (leases[n].bound /\ Expired(n)) ~> (~leases[n].bound \/ ~Expired(n))

\* The NIC follows the Registry: once a published address stays, the NIC gets
\* it, although the applier reads values while dhcpd is writing them.
NicFollowsRegistry ==
    "apply" \in dhcpLoad => \A ip \in {APIPA, AddrOf(0), AddrOf(1)} :
        (<>[](reg[1].ip = ip)) => <>[](nicCfg[1].ip = ip)

\* netapplier keeps the NIC coherent with the Registry: address and gateway.
NicCoherent ==
    "apply" \in dhcpLoad => \A ip \in {APIPA, AddrOf(0), AddrOf(1)}, gw \in {NoIp, Gateway} :
        (<>[](reg[1] = [ip |-> ip, gw |-> gw])) => <>[](nicCfg[1] = [ip |-> ip, gw |-> gw])
=============================================================================
