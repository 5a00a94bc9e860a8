------------------------------ MODULE NetStack ------------------------------
(***************************************************************************)
(* The network stack below TCP: the NIC registry and its routing decision, *)
(* the ARP cache, the dispatcher of received frames, ICMP echo and ping,   *)
(* UDP sockets, the loopback queue, and the descriptor rings of the e1000  *)
(* driver (src/neodos-kernel/src/net, src/drivers/e1000).                  *)
(*                                                                         *)
(* Several threads poll at once: netpump, and every thread that pings or   *)
(* resolves an address polls as well.  A poll takes a batch of frames      *)
(* while it holds NIC_REGISTRY and dispatches it after the lock is free,   *)
(* then drains the loopback queue one frame at a time.  A frame is a       *)
(* record; its serial number `ser` and its `orig` data are ghosts.         *)
(***************************************************************************)
EXTENDS Naturals, Sequences, FiniteSets, SequencesExt

CONSTANTS Threads,      \* kernel threads that run the stack
          MaxNics,      \* MAX_NICS
          ArpSize,      \* ARP_CACHE_SIZE
          ArpLife,      \* ticks after which a dynamic ARP entry expires
          SweepEvery,   \* ticks between two sweeps of the ARP cache (10)
          LoopMax,      \* LOOPBACK_QUEUE_MAX, also the bound of one pump
          BatchMax,     \* RX_BATCH_MAX
          RingSize,     \* NUM_RX_DESC and NUM_TX_DESC
          LinkEvery,    \* polls between two publications of the link (512)
          PingMod,      \* 2^16, the range of PING_ID
          MaxPings, MaxFrames, MaxTicks, MaxAdmin, \* bounds of the model
          Workloads     \* the scenarios a behaviour may follow

VARIABLES
  load,   \* the scenario this behaviour follows
  nics,   \* NIC_REGISTRY: id -> slot
  nem,    \* the NEM bridge: link flag of all NICs, poll counter, hardware
  ring,   \* id -> descriptor rings of the driver behind the NIC
  arp,    \* ARP_CACHE
  loop,   \* LOOPBACK_QUEUE
  ping,   \* PING_ID and LAST_PING_REPLY
  sock,   \* the UDP sockets, in slot order
  th,     \* thread -> what it is doing
  wire,   \* frames on the cable, still to be answered by a peer
  hist    \* ghosts: counters of the bounds, what was sent and delivered

vars == <<load, nics, nem, ring, arp, loop, ping, sock, th, wire, hist>>

Ids == 0 .. MaxNics - 1
Slots == 0 .. RingSize - 1
LOOPBACK_NIC_ID == MaxNics

\* Addresses are <<network, host>>; a mask says how many parts it compares.
Unspecified == <<0, 0>>
Broadcast == <<255, 255>>
Localhost == <<127, 1>>
is_loopback(ip) == ip[1] = 127
MacBroadcast == "ff"
MacLoopback == "lo"
SameSubnet(a, b, mask) == \A i \in 1 .. mask : a[i] = b[i]

\* The machines on the cable, the router among them (10.1.x is network 1).
Peer == [h2 |-> <<1, 2>>, gw |-> <<1, 9>>]
Gateway == <<1, 9>>
Remote == <<2, 5>>
OurIp == <<1, 1>>

EmptySlot == [up |-> FALSE, ip |-> Unspecified, mask |-> 0, gw |-> Unspecified,
              mac |-> "00", link |-> FALSE]
EmptyRing == [rx |-> [s \in Slots |-> <<>>], rdh |-> 0, rdt |-> RingSize - 1, cur |-> 0,
              tx |-> [s \in Slots |-> <<>>], tdh |-> 0, tdt |-> 0, txcur |-> 0]
Resting == [pc |-> "idle", poll |-> "no", batch |-> <<>>, left |-> 0, ip |-> Unspecified,
            target |-> Unspecified, nic |-> 0, mac |-> "00", id |-> 0, answered |-> FALSE,
            out |-> <<>>, res |-> "none"]

--------------------------------------------------------------------------
\* Checksums: one's complement sums of 16-bit words.
Fold16(s) == LET once(x) == (x % 65536) + (x \div 65536) IN once(once(s))
SumOf(ws) == FoldLeft(LAMBDA a, b : a + b, 0, ws)
compute_udp_checksum(ws) ==
  LET cs == 65535 - Fold16(SumOf(ws)) IN IF cs = 0 THEN 65535 ELSE cs
udp_checksum_valid(ws, cs) == cs = 0 \/ Fold16(SumOf(ws) + cs) = 65535

\* The words a UDP checksum covers: ports, length and data.
UdpWords(f) == <<f.sport, f.dport, 9>> \o f.data
build_udp_datagram(sport, dport, data) ==
  LET f == [sport |-> sport, dport |-> dport, data |-> data]
  IN  [k |-> "udp", sport |-> sport, dport |-> dport, data |-> data,
       cs |-> compute_udp_checksum(UdpWords(f))]

--------------------------------------------------------------------------
\* The registry.
default_nic_id == {i \in Ids : nics[i].up /\ \A j \in Ids : nics[j].up => j <= i}

\* The next hop on NIC i: empty when there is no way to the destination.
next_hop_ip_for(i, d) ==
  IF ~nics[i].up THEN {}
  ELSE IF d = Broadcast \/ SameSubnet(d, nics[i].ip, nics[i].mask) THEN {d}
  ELSE {nics[i].gw} \ {Unspecified}

net_nic_mac(n) == IF n = LOOPBACK_NIC_ID THEN MacLoopback ELSE nics[n].mac
net_nic_ip(n) == IF n = LOOPBACK_NIC_ID THEN Localhost
                 ELSE IF nics[n].up THEN nics[n].ip ELSE Unspecified
Present(n) == n = LOOPBACK_NIC_ID \/ nics[n].up

\* The driver accepts every frame: it never looks whether the descriptor it
\* fills has been sent.
e1000_send_to(r, f) ==
  [r EXCEPT !.tx[r.txcur] = f, !.tdt = (r.tdt + 1) % RingSize,
            !.txcur = (r.txcur + 1) % RingSize]

Ready(r) == r.rx[r.cur] # <<>>
\* The frame of the next descriptor; a descriptor of length zero is recycled
\* and reported as "nothing there".
e1000_poll_to(r) ==
  [r EXCEPT !.rx[r.cur] = <<>>, !.rdt = (r.rdt + 1) % RingSize,
            !.cur = (r.cur + 1) % RingSize]
Usable(r) == Ready(r) /\ r.rx[r.cur].k # "empty"

Pushed(q, f) == IF Len(q) >= LoopMax THEN q ELSE Append(q, f)
\* loopback_send refuses a frame when the queue is full.
loopback_send(f) == Len(loop) < LoopMax /\ loop' = Append(loop, f)

\* net_send_frame and nic_send_packet: a failed send is ignored by the caller.
net_send_frame(n, f) ==
  IF n = LOOPBACK_NIC_ID
  THEN /\ loop' = Pushed(loop, f)
       /\ UNCHANGED ring
  ELSE /\ ring' = IF nics[n].up THEN [ring EXCEPT ![n] = e1000_send_to(@, f)] ELSE ring
       /\ UNCHANGED loop

--------------------------------------------------------------------------
\* The ARP cache.
Cached(ip) == {i \in DOMAIN arp.entries : arp.entries[i].ip = ip}
arp_lookup(ip) == {arp.entries[i].mac : i \in Cached(ip)}

\* The oldest dynamic entry goes; when all are static, the first one.
evict_oldest(es) ==
  LET dyn == {i \in DOMAIN es : ~es[i].static}
      old == {i \in dyn : \A j \in dyn : es[i].tick < es[j].tick \/ (es[i].tick = es[j].tick /\ i <= j)}
  IN  RemoveAt(es, IF dyn = {} THEN 1 ELSE CHOOSE i \in old : TRUE)

Inserted(ip, mac, static) ==
  LET es == arp.entries
      room == IF Len(es) >= ArpSize THEN evict_oldest(es) ELSE es
  IN  IF Cached(ip) # {}
      THEN [i \in DOMAIN es |->
              IF i = Min(Cached(ip))
              THEN [es[i] EXCEPT !.mac = mac, !.tick = arp.tick, !.static = @ \/ static]
              ELSE es[i]]
      ELSE Append(room, [ip |-> ip, mac |-> mac, tick |-> arp.tick, static |-> static])
arp_insert(ip, mac) == arp' = [arp EXCEPT !.entries = Inserted(ip, mac, FALSE)]

Survives(e, now) == e.static \/ now - e.tick < ArpLife
arp_tick ==
  LET now == arp.tick + 1
  IN  arp' = [tick |-> now,
              entries |-> IF now % SweepEvery = 0
                          THEN SelectSeq(arp.entries, LAMBDA e : Survives(e, now))
                          ELSE arp.entries]

--------------------------------------------------------------------------
\* What the dispatcher does with one frame, on the interface n.
Accepted(n, f) == Present(n) /\ f.dmac \in {net_nic_mac(n), MacBroadcast}

arp_reply(n, f) ==
  [k |-> "arprep", dmac |-> f.smac, smac |-> net_nic_mac(n), ip |-> f.tip, tip |-> f.ip, ser |-> 0]
build_echo_reply(n, f) ==
  [k |-> "echorep", dmac |-> f.smac, smac |-> net_nic_mac(n), ip |-> f.tip, tip |-> f.ip,
   id |-> f.id, ser |-> 0]

\* The first socket bound to the port; a connected one also looks at the
\* sender's port.
Takes(s, f) == /\ s.open /\ s.lport # 0 /\ s.lport = f.dport
               /\ \/ s.dir = "Connected" /\ s.rport \in {0, f.sport}
                  \/ s.dir = "None"
Receivers(f) == {s \in DOMAIN sock : Takes(sock[s], f)}
AllMatching(f) == Receivers(f)
FirstOnly(f) == {s \in Receivers(f) : \A o \in Receivers(f) : s <= o}
udp_dispatch(f) ==
  /\ sock' = [s \in DOMAIN sock |->
                IF s \in FirstOnly(f) THEN [sock[s] EXCEPT !.buf = @ \o f.data] ELSE sock[s]]
  /\ hist' = [hist EXCEPT !.fate[f.ser] = @ + IF Receivers(f) = {} THEN 1 ELSE Cardinality(FirstOnly(f)),
                          !.torn = @ \/ (Receivers(f) # {} /\ f.data # f.orig)]
DropUdp(f) == hist' = [hist EXCEPT !.fate[f.ser] = @ + 1]

notify_ping_reply(id) ==
  /\ ping' = [ping EXCEPT !.last = id]
  /\ hist' = [hist EXCEPT !.replied = @ \cup {id}]

net_handle_incoming_packet(n, f) ==
  CASE ~Accepted(n, f) ->
         /\ IF f.k = "udp" THEN DropUdp(f) ELSE UNCHANGED hist
         /\ UNCHANGED <<ring, arp, loop, ping, sock>>
    [] Accepted(n, f) /\ f.k = "arpreq" ->
         /\ IF net_nic_ip(n) = f.tip THEN net_send_frame(n, arp_reply(n, f)) ELSE UNCHANGED <<ring, loop>>
         /\ UNCHANGED <<arp, ping, sock, hist>>
    [] Accepted(n, f) /\ f.k = "arprep" ->
         arp_insert(f.ip, f.smac) /\ UNCHANGED <<ring, loop, ping, sock, hist>>
    [] Accepted(n, f) /\ f.k = "echorep" ->
         notify_ping_reply(f.id) /\ UNCHANGED <<ring, arp, loop, sock>>
    [] Accepted(n, f) /\ f.k = "echo" ->
         net_send_frame(n, build_echo_reply(n, f)) /\ UNCHANGED <<arp, ping, sock, hist>>
    [] Accepted(n, f) /\ f.k = "udp" ->
         /\ IF udp_checksum_valid(UdpWords(f), f.cs) THEN udp_dispatch(f)
            ELSE DropUdp(f) /\ UNCHANGED sock
         /\ UNCHANGED <<ring, arp, loop, ping>>

--------------------------------------------------------------------------
\* network_poll_all, from any thread that is not already polling.  The link
\* flags are refreshed, then a batch is taken under NIC_REGISTRY: from each
\* NIC in turn until it has nothing, with at most BatchMax frames in all.
\* Every LinkEvery-th poll of the driver publishes the link of the NIC polled
\* in the one flag all NEM NICs share; `ready` stays set once the link was up.
TakeFrom(a, n) ==
  LET r == a.ring[n]
  IN  IF ~nics[n].up \/ n \in a.stop \/ Len(a.batch) >= BatchMax THEN a
      ELSE [batch |-> IF Usable(r) THEN Append(a.batch, [n |-> n, f |-> r.rx[r.cur]]) ELSE a.batch,
            ring |-> IF Ready(r) THEN [a.ring EXCEPT ![n] = e1000_poll_to(r)] ELSE a.ring,
            stop |-> IF Usable(r) THEN a.stop ELSE a.stop \cup {n},
            link |-> IF a.count = 0 THEN nem.hw \/ nem.ready[n] ELSE a.link,
            count |-> (a.count + 1) % LinkEvery]
Turns == [x \in 1 .. MaxNics * (BatchMax + 1) |-> (x - 1) \div (BatchMax + 1)]
Drained == FoldLeft(TakeFrom, [batch |-> <<>>, ring |-> ring, stop |-> {},
                               link |-> nem.link, count |-> nem.count], Turns)

nic_poll_link_state ==
  nics' = [n \in Ids |-> IF nics[n].up THEN [nics[n] EXCEPT !.link = nem.link] ELSE nics[n]]

\* An idle thread's poll that would find nothing is left out.
FindsWork == \/ loop # <<>>
             \/ \E n \in Ids : nics[n].up /\ (Ready(ring[n]) \/ nics[n].link # nem.link)
             \/ load = "nic" /\ \E n \in Ids : nics[n].up /\ nem.link # (nem.hw \/ nem.ready[n])
network_poll_all(t) ==
  /\ th[t].poll = "no" /\ th[t].pc \in {"idle", "arp", "wait"}
  /\ th[t].pc = "idle" => FindsWork
  /\ nic_poll_link_state
  /\ \E d \in {Drained} :
       /\ th' = [th EXCEPT ![t].poll = "batch", ![t].batch = d.batch, ![t].left = LoopMax]
       /\ ring' = d.ring
       /\ nem' = [nem EXCEPT !.link = d.link, !.count = d.count]
  /\ UNCHANGED <<load, arp, loop, ping, sock, wire, hist>>

\* The thread hands the first frame of its batch to the dispatcher.
Dispatch(t) ==
  /\ th[t].poll # "no" /\ th[t].batch # <<>>
  /\ net_handle_incoming_packet(Head(th[t].batch).n, Head(th[t].batch).f)
  /\ th' = [th EXCEPT ![t].batch = Tail(@)]
  /\ UNCHANGED <<load, nics, nem, wire>>

\* Pops one frame under the queue's lock, or ends the poll.
loopback_pump(t) ==
  /\ th[t].poll # "no" /\ th[t].batch = <<>>
  /\ IF th[t].left = 0 \/ loop = <<>>
     THEN th' = [th EXCEPT ![t].poll = "no"] /\ UNCHANGED loop
     ELSE /\ th' = [th EXCEPT ![t].batch = <<[n |-> LOOPBACK_NIC_ID, f |-> Head(loop)]>>, ![t].left = @ - 1]
          /\ loop' = Tail(loop)
  /\ UNCHANGED <<load, nics, nem, ring, arp, ping, sock, wire, hist>>

\* netpump's tick ages the ARP cache after its poll.
net_tick(t) ==
  /\ load = "arp" /\ th[t] = Resting /\ arp.tick < MaxTicks
  /\ arp_tick
  /\ UNCHANGED <<load, nics, nem, ring, loop, ping, sock, th, wire, hist>>

--------------------------------------------------------------------------
\* icmp_ping.  The identifier is drawn first; every early return gives up.
arp_request(n, target) ==
  [k |-> "arpreq", dmac |-> MacBroadcast, smac |-> nics[n].mac, ip |-> nics[n].ip, tip |-> target, ser |-> 0]
echo_request(n, t) ==
  [k |-> "echo", dmac |-> th[t].mac, smac |-> nics[n].mac, ip |-> nics[n].ip, tip |-> th[t].ip,
   id |-> th[t].id, ser |-> 0]
Datagram(u, dmac, smac) ==
  [k |-> "udp", sport |-> u.sport, dport |-> u.dport, data |-> u.data, cs |-> u.cs,
   dmac |-> dmac, smac |-> smac, orig |-> u.data, ser |-> 0]
GiveUp(t) == th' = [th EXCEPT ![t] = Resting]

icmp_ping(t, d) ==
  /\ load = "ping" /\ th[t].pc = "idle" /\ th[t].poll = "no" /\ hist.pings < MaxPings
  /\ ~is_loopback(d)
  /\ ping' = [ping EXCEPT !.id = (@ + 1) % PingMod]
  /\ hist' = [hist EXCEPT !.pings = @ + 1, !.replied = @ \ {ping.id}]
  /\ LET begun == [Resting EXCEPT !.id = ping.id, !.ip = d]
         dead == default_nic_id = {} \/ \E i \in default_nic_id :
                    nics[i].ip = Unspecified \/ next_hop_ip_for(i, d) = {}
     IN  \/ dead /\ GiveUp(t) /\ UNCHANGED ring
         \/ ~dead /\ \E i \in default_nic_id : \E hop \in next_hop_ip_for(i, d) :
              IF arp_lookup(hop) # {}
              THEN /\ th' = [th EXCEPT ![t] = [begun EXCEPT !.pc = "send", !.nic = i,
                                               !.mac = CHOOSE m \in arp_lookup(hop) : TRUE]]
                   /\ UNCHANGED ring
              ELSE /\ th' = [th EXCEPT ![t] = [begun EXCEPT !.pc = "arp", !.nic = i, !.target = hop]]
                   /\ ring' = [ring EXCEPT ![i] = e1000_send_to(@, arp_request(i, hop))]
  /\ UNCHANGED <<load, nics, nem, arp, loop, sock, wire>>

\* After each poll the cache is looked up again, until the time is up.
arp_resolve_wait(t) ==
  /\ th[t].pc = "arp" /\ th[t].poll = "no"
  /\ \/ \E m \in arp_lookup(th[t].target) : th' = [th EXCEPT ![t].pc = "send", ![t].mac = m, ![t].target = Unspecified]
     \/ arp_lookup(th[t].target) = {} /\ GiveUp(t)
  /\ UNCHANGED <<load, nics, nem, ring, arp, loop, ping, sock, wire, hist>>

\* The address is known: the echo request, or the datagram, is handed over.
SendFrame(t) ==
  /\ th[t].pc = "send"
  /\ IF nics[th[t].nic].up
     THEN /\ ring' = [ring EXCEPT ![th[t].nic] =
                       e1000_send_to(@, IF th[t].out = <<>> THEN echo_request(th[t].nic, t)
                                        ELSE Datagram(th[t].out, th[t].mac, nics[th[t].nic].mac))]
          /\ th' = [th EXCEPT ![t] = IF th[t].out = <<>> THEN [Resting EXCEPT !.pc = "clear", !.id = th[t].id]
                                       ELSE Resting]
     ELSE GiveUp(t) /\ UNCHANGED ring
  /\ UNCHANGED <<load, nics, nem, arp, loop, ping, sock, wire, hist>>

\* The reply cell is cleared only once the request is on its way.
ClearReply(t) ==
  /\ th[t].pc = "clear"
  /\ ping' = [ping EXCEPT !.last = 0]
  /\ th' = [th EXCEPT ![t].pc = "wait"]
  /\ UNCHANGED <<load, nics, nem, ring, arp, loop, sock, wire, hist>>

WaitAnyReply(t) ==
  /\ th[t].pc \in {"wait", "lo"} /\ th[t].poll = "no"
  /\ IF ping.last # 0
     THEN th' = [th EXCEPT ![t] = [Resting EXCEPT !.id = th[t].id, !.res = "ok",
                                     !.answered = th[t].id \in hist.replied]]
     ELSE GiveUp(t)
  /\ UNCHANGED <<load, nics, nem, ring, arp, loop, ping, sock, wire, hist>>
\* Also the end of a loopback ping, which does not wait.
WaitReply(t) ==
  /\ th[t].pc \in {"wait", "lo"} /\ th[t].poll = "no"
  /\ IF ping.last = th[t].id
     THEN th' = [th EXCEPT ![t] = [Resting EXCEPT !.id = th[t].id, !.res = "ok",
                                     !.answered = th[t].id \in hist.replied]]
     ELSE GiveUp(t)
  /\ UNCHANGED <<load, nics, nem, ring, arp, loop, ping, sock, wire, hist>>

icmp_ping_loopback(t) ==
  /\ load = "ping" /\ th[t].pc = "idle" /\ th[t].poll = "no" /\ hist.pings < MaxPings
  /\ ping' = [id |-> (ping.id + 1) % PingMod, last |-> 0]
  /\ hist' = [hist EXCEPT !.pings = @ + 1, !.replied = @ \ {ping.id}]
  /\ LET f == [k |-> "echo", dmac |-> MacLoopback, smac |-> MacLoopback, ip |-> Localhost,
               tip |-> Localhost, id |-> ping.id, ser |-> 0]
     IN  \/ /\ loopback_send(f)
            /\ th' = [th EXCEPT ![t] = [Resting EXCEPT !.pc = "lo", !.id = ping.id,
                                          !.poll = "pump", !.left = LoopMax]]
         \/ /\ Len(loop) >= LoopMax
            /\ GiveUp(t)
            /\ UNCHANGED loop
  /\ UNCHANGED <<load, nics, nem, ring, arp, sock, wire>>

--------------------------------------------------------------------------
\* UDP sockets.  The scenarios "udp" (loopback) and "lan" start with open sockets.
socket_bind(s, port) ==
  /\ load \in {"udp", "lan"} /\ sock[s].open /\ sock[s].lport = 0
  /\ sock' = [sock EXCEPT ![s].lport = IF port = 0 THEN hist.eph ELSE port]
  /\ hist' = [hist EXCEPT !.eph = IF port # 0 THEN @ ELSE IF @ = 65535 THEN 49152 ELSE @ + 1]
  /\ UNCHANGED <<load, nics, nem, ring, arp, loop, ping, th, wire>>

socket_connect_user(s, ip, port) ==
  /\ load \in {"udp", "lan"} /\ sock[s].open /\ sock[s].dir = "None" /\ sock[s].lport # 0
  /\ sock' = [sock EXCEPT ![s].dir = "Connected", ![s].rip = ip, ![s].rport = port]
  /\ UNCHANGED <<load, nics, nem, ring, arp, loop, ping, th, wire, hist>>

\* A loopback datagram is queued and pumped at once; another one waits for
\* the address of its next hop.
socket_send(t, s, data) ==
  /\ load \in {"udp", "lan"} /\ th[t] = Resting /\ sock[s].open /\ sock[s].dir = "Connected"
  /\ LET u == build_udp_datagram(sock[s].lport, sock[s].rport, data)
         hops == UNION {next_hop_ip_for(i, sock[s].rip) : i \in default_nic_id}
     IN  IF is_loopback(sock[s].rip)
         THEN /\ hist.frames < MaxFrames
              /\ loopback_send([Datagram(u, MacLoopback, MacLoopback) EXCEPT !.ser = hist.frames + 1])
              /\ hist' = [hist EXCEPT !.frames = @ + 1]
              /\ th' = [th EXCEPT ![t] = [Resting EXCEPT !.poll = "pump", !.left = LoopMax]]
              /\ UNCHANGED ring
         ELSE /\ hist.outs < 1 /\ hist' = [hist EXCEPT !.outs = @ + 1]
              /\ \E i \in default_nic_id, hop \in hops :
                   IF arp_lookup(hop) # {}
                   THEN /\ th' = [th EXCEPT ![t] = [Resting EXCEPT !.pc = "send", !.nic = i, !.out = u,
                                                  !.mac = CHOOSE m \in arp_lookup(hop) : TRUE]]
                        /\ UNCHANGED ring
                   ELSE /\ th' = [th EXCEPT ![t] = [Resting EXCEPT !.pc = "arp", !.nic = i,
                                                  !.target = hop, !.out = u]]
                        /\ ring' = [ring EXCEPT ![i] = e1000_send_to(@, arp_request(i, hop))]
              /\ UNCHANGED loop
  /\ UNCHANGED <<load, nics, nem, arp, ping, sock, wire>>

\* The buffer is a stream of bytes: a receive takes what fits, whatever
\* datagrams it came from.
socket_recv(s) ==
  /\ load \in {"udp", "lan"} /\ sock[s].open /\ sock[s].dir = "Connected" /\ sock[s].buf # <<>>
  /\ sock' = [sock EXCEPT ![s].buf = <<>>]
  /\ UNCHANGED <<load, nics, nem, ring, arp, loop, ping, th, wire, hist>>

socket_close(s) ==
  /\ load \in {"udp", "lan"} /\ sock[s].open /\ sock[s].dir = "Connected"
  /\ sock' = [sock EXCEPT ![s].open = FALSE, ![s].dir = "Closed"]
  /\ UNCHANGED <<load, nics, nem, ring, arp, loop, ping, th, wire, hist>>

--------------------------------------------------------------------------
\* Administration: drivers come and go, addresses are set.
nic_register(mac) ==
  /\ load = "nic" /\ hist.admin < MaxAdmin /\ \E i \in Ids : ~nics[i].up
  /\ LET i == CHOOSE i \in Ids : ~nics[i].up /\ \A j \in Ids : ~nics[j].up => i <= j
     IN  /\ nics' = [nics EXCEPT ![i] = [EmptySlot EXCEPT !.up = TRUE, !.mask = 1, !.mac = mac]]
         /\ ring' = [ring EXCEPT ![i] = EmptyRing]
         /\ nem' = [nem EXCEPT !.ready[i] = nem.hw]
  /\ hist' = [hist EXCEPT !.admin = @ + 1]
  /\ UNCHANGED <<load, arp, loop, ping, sock, th, wire>>

\* Unregistering one NIC takes the shared link flag down for all of them.
hst_unregister_network_device(i) ==
  /\ load = "nic" /\ hist.admin < MaxAdmin /\ nics[i].up
  /\ nics' = [nics EXCEPT ![i].up = FALSE]
  /\ nem' = [nem EXCEPT !.link = FALSE, !.ready[i] = FALSE]
  /\ hist' = [hist EXCEPT !.admin = @ + 1]
  /\ UNCHANGED <<load, ring, arp, loop, ping, sock, th, wire>>

\* Setting an address announces it with a gratuitous ARP request.
nic_set_ip(i, ip) ==
  /\ load = "nic" /\ hist.admin < MaxAdmin /\ nics[i].up
  /\ nics' = [nics EXCEPT ![i].ip = ip]
  /\ ring' = IF ip = Unspecified THEN ring
             ELSE [ring EXCEPT ![i] = e1000_send_to(@, [arp_request(i, ip) EXCEPT !.ip = ip])]
  /\ hist' = [hist EXCEPT !.admin = @ + 1]
  /\ UNCHANGED <<load, nem, arp, loop, ping, sock, th, wire>>

nic_set_mask(i, m) ==
  /\ load = "nic" /\ hist.admin < MaxAdmin /\ nics[i].up
  /\ nics' = [nics EXCEPT ![i].mask = m] /\ hist' = [hist EXCEPT !.admin = @ + 1]
  /\ UNCHANGED <<load, nem, ring, arp, loop, ping, sock, th, wire>>
nic_set_gateway(i, g) ==
  /\ load = "nic" /\ hist.admin < MaxAdmin /\ nics[i].up
  /\ nics' = [nics EXCEPT ![i].gw = g] /\ hist' = [hist EXCEPT !.admin = @ + 1]
  /\ UNCHANGED <<load, nem, ring, arp, loop, ping, sock, th, wire>>

insert_static(ip, mac) ==
  /\ load = "arp" /\ hist.admin < MaxAdmin
  /\ arp' = [arp EXCEPT !.entries = Inserted(ip, mac, TRUE)] /\ hist' = [hist EXCEPT !.admin = @ + 1]
  /\ UNCHANGED <<load, nics, nem, ring, loop, ping, sock, th, wire>>
arp_remove(ip) ==
  /\ load = "arp" /\ hist.admin < MaxAdmin /\ Cached(ip) # {}
  /\ arp' = [arp EXCEPT !.entries = SelectSeq(@, LAMBDA e : e.ip # ip)]
  /\ hist' = [hist EXCEPT !.admin = @ + 1]
  /\ UNCHANGED <<load, nics, nem, ring, loop, ping, sock, th, wire>>
arp_clear ==
  /\ load = "arp" /\ hist.admin < MaxAdmin
  /\ arp' = [arp EXCEPT !.entries = SelectSeq(@, LAMBDA e : e.static)]
  /\ hist' = [hist EXCEPT !.admin = @ + 1]
  /\ UNCHANGED <<load, nics, nem, ring, loop, ping, sock, th, wire>>

--------------------------------------------------------------------------
\* The hardware and the machines on the cable.
\* A peer answers a request it got, at any later time.  A frame that is never answered is lost.
Answers(x) ==
  CASE x.f.k = "arpreq" ->
         {[k |-> "arprep", dmac |-> x.f.smac, smac |-> h, ip |-> Peer[h], tip |-> x.f.ip, ser |-> 0] :
            h \in {m \in DOMAIN Peer : Peer[m] = x.f.tip}}
    [] x.f.k = "echo" ->
         {[k |-> "echorep", dmac |-> x.f.smac, smac |-> x.f.dmac, ip |-> x.f.tip, tip |-> x.f.ip,
           id |-> x.f.id, ser |-> 0]}
    [] OTHER -> {}
DeviceTransmit(n) ==
  /\ ring[n].tdh # ring[n].tdt
  /\ LET x == [n |-> n, f |-> ring[n].tx[ring[n].tdh]]
     IN  wire' = IF Answers(x) = {} THEN wire ELSE wire \cup {x}
  /\ ring' = [ring EXCEPT ![n].tdh = (@ + 1) % RingSize, ![n].tx[ring[n].tdh] = <<>>]
  /\ UNCHANGED <<load, nics, nem, arp, loop, ping, sock, th, hist>>

\* The receiver drops a frame when the driver owns all descriptors.
Room(n) == ring[n].rdh # ring[n].rdt
Received(n, f) == [ring EXCEPT ![n].rx[ring[n].rdh] = f, ![n].rdh = (@ + 1) % RingSize]

PeerAnswers(x) ==
  /\ x \in wire /\ nics[x.n].up
  /\ \E a \in Answers(x) : ring' = IF Room(x.n) THEN Received(x.n, a) ELSE ring
  /\ wire' = wire \ {x}
  /\ UNCHANGED <<load, nics, nem, arp, loop, ping, sock, th, hist>>
\* Datagrams for some port, one bit of the data or the checksum possibly
\* flipped on the way, for our address, for everyone, or for another machine.
Flipped(w) == IF w % 2 = 0 THEN w + 1 ELSE w - 1
PeerDatagram(n, dport, data, hit, dmac) ==
  /\ load = "lan" /\ nics[n].up /\ Room(n) /\ hist.frames < MaxFrames
  /\ LET f == [Datagram(build_udp_datagram(7, dport, data), dmac, "h2") EXCEPT !.ser = hist.frames + 1]
         g == CASE hit = "no" -> f
                [] hit = "data" -> [f EXCEPT !.data = [@ EXCEPT ![1] = Flipped(@)]]
                [] hit = "cs" -> [f EXCEPT !.cs = Flipped(@)]
     IN  ring' = Received(n, g)
  /\ hist' = [hist EXCEPT !.frames = @ + 1]
  /\ UNCHANGED <<load, nics, nem, arp, loop, ping, sock, th, wire>>

\* Requests of the peers, and a descriptor the device fills with no data.
PeerFrames ==
  {[k |-> "echo", dmac |-> "n0", smac |-> "h2", ip |-> Peer.h2, tip |-> OurIp, id |-> 3, ser |-> 0],
   [k |-> "arpreq", dmac |-> MacBroadcast, smac |-> "h2", ip |-> Peer.h2, tip |-> OurIp, ser |-> 0],
   [k |-> "empty", ser |-> 0]}
ArpReplies == {[k |-> "arprep", dmac |-> "n0", smac |-> m, ip |-> ip, tip |-> OurIp, ser |-> 0] :
                 m \in DOMAIN Peer, ip \in {Peer[h] : h \in DOMAIN Peer} \cup {<<1, 3>>}}
PeerSends(n, f) ==
  /\ nics[n].up /\ Room(n) /\ hist.extra < 2
  /\ ring' = Received(n, f) /\ hist' = [hist EXCEPT !.extra = @ + 1]
  /\ UNCHANGED <<load, nics, nem, arp, loop, ping, sock, th, wire>>

LinkChanges ==
  /\ load = "nic" /\ hist.admin < MaxAdmin
  /\ nem' = [nem EXCEPT !.hw = ~@] /\ hist' = [hist EXCEPT !.admin = @ + 1]
  /\ UNCHANGED <<load, nics, ring, arp, loop, ping, sock, th, wire>>

--------------------------------------------------------------------------
Socket == [open |-> TRUE, dir |-> "None", lport |-> 0, rport |-> 0, rip |-> Unspecified, buf |-> <<>>]

Init ==
  /\ load \in Workloads
  /\ nics = [i \in Ids |-> IF i = 0 /\ load # "nic"
                           THEN [EmptySlot EXCEPT !.up = TRUE, !.ip = OurIp, !.mask = 1, !.gw = Gateway, !.mac = "n0"]
                           ELSE EmptySlot]
  /\ nem = [link |-> FALSE, hw |-> load = "nic", ready |-> [i \in Ids |-> FALSE], count |-> 1 % LinkEvery]
  /\ ring = [i \in Ids |-> EmptyRing]
  /\ arp = [entries |-> <<>>, tick |-> 0]
  /\ loop = <<>>
  /\ ping = [id |-> 1, last |-> 0]
  /\ sock = IF load = "udp" THEN <<Socket, Socket>> ELSE IF load = "lan" THEN <<Socket>> ELSE <<>>
  /\ th = [t \in Threads |-> Resting]
  /\ wire = {}
  /\ hist = [pings |-> 0, frames |-> 0, extra |-> 0, admin |-> 0, outs |-> 0, eph |-> 65535,
             replied |-> {}, fate |-> [s \in 0 .. MaxFrames |-> 0], torn |-> FALSE]

Next ==
  \/ \E t \in Threads :
       \/ network_poll_all(t) \/ Dispatch(t) \/ loopback_pump(t) \/ net_tick(t)
       \/ \E d \in {Peer.h2, Remote} : icmp_ping(t, d)
       \/ icmp_ping_loopback(t)
       \/ arp_resolve_wait(t) \/ SendFrame(t) \/ ClearReply(t) \/ WaitReply(t)
       \/ \E s \in DOMAIN sock : socket_send(t, s, <<0>>)
  \/ \E s \in DOMAIN sock :
       \/ socket_bind(s, 5) \/ (s = 2 /\ socket_bind(s, 0))
       \/ (load = "udp" /\ socket_connect_user(s, Localhost, 5))
       \/ (load = "lan" /\ socket_connect_user(s, Peer.h2, 7))
       \/ socket_recv(s) \/ socket_close(s)
  \/ \E m \in {"n0", "n1"} : nic_register(m)
  \/ \E i \in Ids :
       \/ hst_unregister_network_device(i)
       \/ \E ip \in {Unspecified, OurIp} : nic_set_ip(i, ip)
       \/ \E m \in {0, 2} : nic_set_mask(i, m)
       \/ nic_set_gateway(i, Gateway)
       \/ DeviceTransmit(i)
       \/ \E hit \in {"no", "data", "cs"} : PeerDatagram(i, 5, <<65535>>, hit, "n0")
       \/ \E m \in {MacBroadcast, "h2"} : PeerDatagram(i, 5, <<65535>>, "no", m)
       \/ load = "peer" /\ \E f \in PeerFrames : PeerSends(i, f)
       \/ load = "arp" /\ \E f \in ArpReplies : PeerSends(i, f)
  \/ \E ip \in {Peer.h2, <<1, 4>>} : insert_static(ip, "s") \/ arp_remove(ip)
  \/ arp_clear
  \/ \E x \in wire : PeerAnswers(x)
  \/ LinkChanges

Spec == Init /\ [][Next]_vars

--------------------------------------------------------------------------
\* A ping that reports a time saw an echo reply with its identifier after it
\* drew that identifier, although every thread's reply goes through the one
\* cell LAST_PING_REPLY, is cleared by other pings, and may come from another
\* thread's poll.  The identifier 0 is left out: it equals the cleared cell.
PingAnswered == \A t \in Threads : th[t].res = "ok" /\ th[t].id # 0 => th[t].answered

InRings(s) == {x \in Ids \X Slots : ring[x[1]].rx[x[2]] # <<>> /\ ring[x[1]].rx[x[2]].ser = s}
InLoop(s) == {i \in DOMAIN loop : loop[i].ser = s}
InBatches(s) == {x \in Threads \X (1 .. BatchMax) :
                   x[2] \in DOMAIN th[x[1]].batch /\ th[x[1]].batch[x[2]].f.ser = s}
\* Every datagram that entered the receive ring or the loopback queue is in
\* exactly one place: a descriptor, the queue, the batch of one thread, or it
\* has met its fate once (one socket, or dropped); no socket is given data
\* that changed on the way; the ARP cache is within its size and has one
\* entry per address.
FramesAccountedFor ==
  /\ \A s \in 1 .. hist.frames :
       Cardinality(InRings(s)) + Cardinality(InLoop(s)) + Cardinality(InBatches(s)) + hist.fate[s] = 1
  /\ ~hist.torn
  /\ Len(arp.entries) <= ArpSize
  /\ \A i, j \in DOMAIN arp.entries : arp.entries[i].ip = arp.entries[j].ip => i = j

==========================================================================
