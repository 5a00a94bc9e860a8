----------------------------- MODULE DhcpProofs -----------------------------
(***************************************************************************)
(* With one interface and a server that refuses nothing, an interface is   *)
(* bound only to an acknowledged address, for every number of retries,     *)
(* lease time, queue length and sequence of lost, repeated or late         *)
(* datagrams.                                                              *)
(***************************************************************************)
EXTENDS Dhcp, TLAPS

\* The case the property is about.
Quiet == dhcpLoad \cap {"nak", "nics"} = {}

Requests == [kind : {"DISCOVER", "REQUEST"}, mac : Nat, ci : Nat]
Replies == [kind : {"OFFER", "ACK"}, ip : Nat, server : {Server}]
Clients == [pc : {"Init", "Selecting", "Requesting", "Publish", "Supervise"}, nic : {1},
            back : BOOLEAN, ip : Nat, server : Nat, retry : Nat,
            publish : Seq({"ip", "gw"} \X Nat)]
Leases == [active : BOOLEAN, bound : BOOLEAN, ip : Nat, server : Nat,
           state : {"Init", "Bound", "Renewing", "Rebinding"}, obtained : Nat]

QuietTypes ==
    /\ MaxNics \in Nat \ {0}
    /\ client \in Clients
    /\ client.pc = "Publish" => client.publish # <<>>
    /\ leases \in [1 .. MaxNics -> Leases]
    /\ tmp \in [ip : Nat, server : Nat]
    /\ inbox \in Seq(Replies)
    /\ sent \subseteq Requests
    /\ now \in Nat

\* Before the first acknowledgement only the address that the server offers this
\* interface is asked for, so that address is among the acknowledged ones from
\* then on.  A late OFFER, which the supervisor's own client accepts, carries it.
FirstAcked ==
    /\ acked # {} => AddrOf(1) \in acked
    /\ acked = {} => /\ \A m \in sent : m.kind = "REQUEST" => m.mac = 1 /\ m.ci = AddrOf(1)
                     /\ client.pc = "Requesting" => client.ip = AddrOf(1)

\* What the datagrams on their way say.
RepliesRight ==
    /\ \A m \in sent : m.kind = "DISCOVER" => m.mac = 1 /\ m.ci = NoIp
    /\ \A i \in 1 .. Len(inbox) :
          /\ inbox[i].kind = "OFFER" => inbox[i].ip = AddrOf(1)
          /\ inbox[i].kind = "ACK" => inbox[i].ip \in acked

\* An OFFER is taken while the client has selected nothing, and only then.
SelectsOnce ==
    /\ client.pc \in {"Init", "Selecting"} => client.ip = NoIp /\ client.server = 0
    /\ client.pc = "Requesting" => client.server = Server

BoundAcked == \A n \in 1 .. MaxNics : leases[n].bound => leases[n].ip \in acked

QuietInv == QuietTypes /\ FirstAcked /\ RepliesRight /\ SelectsOnce /\ BoundAcked

\* One interface is configured.
LEMMA OneNic == ASSUME Quiet PROVE Nics = {1}
  BY DEF Quiet, Nics

\* Constants of the address arithmetic.
LEMMA AddrOne == AddrOf(1) = 11 /\ NoIp = 0 /\ NakIp = 255 /\ Server = 7
  BY DEF AddrOf, NoIp, NakIp, Server

\* The first datagram of the inbox is one of those the invariant speaks of, and
\* the rest of them stay.
LEMMA Received ==
    ASSUME QuietInv, recv
    PROVE  /\ Reply \in Replies
           /\ Reply.kind = "OFFER" => Reply.ip = AddrOf(1)
           /\ Reply.kind = "ACK" => Reply.ip \in acked
           /\ inbox' \in Seq(Replies)
           /\ \A i \in 1 .. Len(inbox') : \E j \in 1 .. Len(inbox) : inbox'[i] = inbox[j]
  <1>1. inbox \in Seq(Replies) /\ inbox # <<>>
    BY DEF QuietInv, QuietTypes, recv
  <1>2. Len(inbox) \in Nat \ {0} /\ Reply = inbox[1]
    BY <1>1 DEF Reply
  <1>3. inbox' = SubSeq(inbox, 3, Len(inbox))
    BY DEF recv
  <1>4. inbox' \in Seq(Replies)
    BY <1>1, <1>3
  <1>5. CASE Len(inbox) <= 2
    <2>1. Len(inbox') = 0
      BY <1>1, <1>2, <1>3, <1>5
    <2> QED
      BY <1>1, <1>2, <1>4, <2>1 DEF QuietInv, RepliesRight
  <1>6. CASE Len(inbox) > 2
    <2>1. Len(inbox') = Len(inbox) - 2
      BY <1>1, <1>2, <1>3, <1>6
    <2>2. \A i \in 1 .. Len(inbox') : inbox'[i] = inbox[i + 2] /\ i + 2 \in 1 .. Len(inbox)
      BY <1>1, <1>2, <1>3, <1>6, <2>1
    <2> QED
      BY <1>1, <1>2, <1>4, <2>2 DEF QuietInv, RepliesRight
  <1> QED
    BY <1>2, <1>5, <1>6

\* What poll_response makes of a reply that is no refusal.
LEMMA PollResponse ==
    ASSUME NEW c, NEW m \in Replies
    PROVE  poll_response(c, m) =
             IF m.kind = "ACK" \/ (c.server = 0 /\ c.ip = NoIp)
             THEN [ip |-> m.ip, server |-> m.server, told |-> m.ip]
             ELSE [ip |-> c.ip, server |-> c.server, told |-> NoIp]
  BY DEF poll_response, Replies

\* The initial state.
LEMMA QuietInit == ASSUME DhcpInit, MaxNics \in Nat \ {0}, Quiet PROVE QuietInv
  <1>1. client \in Clients /\ client.pc = "Init" /\ client.ip = 0 /\ client.server = 0
    <2>1. <<>> \in Seq({"ip", "gw"} \X Nat)
      OBVIOUS
    <2> QED
      BY <2>1 DEF DhcpInit, NewClient, Clients, NoIp
  <1>2. leases \in [1 .. MaxNics -> Leases] /\ \A n \in 1 .. MaxNics : ~leases[n].bound
    BY DEF DhcpInit, EmptyLease, Leases, NoIp
  <1>3. tmp \in [ip : Nat, server : Nat]
    BY DEF DhcpInit, NoIp
  <1>4. inbox = <<>> /\ sent = {} /\ now = 0 /\ acked = {}
    BY DEF DhcpInit
  <1>5. inbox \in Seq(Replies) /\ Len(inbox) = 0
    BY <1>4
  <1>6. QuietTypes
    BY <1>1, <1>2, <1>3, <1>4, <1>5 DEF QuietTypes
  <1>7. FirstAcked /\ RepliesRight
    BY <1>1, <1>4, <1>5 DEF FirstAcked, RepliesRight
  <1>8. SelectsOnce /\ BoundAcked
    BY <1>1, <1>2 DEF SelectsOnce, BoundAcked, NoIp
  <1> QED
    BY <1>6, <1>7, <1>8 DEF QuietInv

\* The client sends its first message.
LEMMA InitStep == ASSUME QuietInv, Quiet, RunInit PROVE QuietInv'
  <1>1. client' = [client EXCEPT !.pc = "Selecting", !.retry = 0]
        /\ sent' = sent \cup {[kind |-> "DISCOVER", mac |-> 1, ci |-> 0]}
        /\ client.pc = "Init"
    BY DEF RunInit, send_dhcp, Msg, NoIp, QuietInv, QuietTypes, Clients
  <1>2. UNCHANGED <<leases, tmp, inbox, now, acked>>
    BY DEF RunInit
  <1>3. client' \in Clients /\ client'.pc = "Selecting" /\ client'.ip = client.ip
        /\ client'.server = client.server
    BY ZenonT(60), <1>1 DEF QuietInv, QuietTypes, Clients
  <1>4. sent' \subseteq Requests
    BY <1>1 DEF QuietInv, QuietTypes, Requests
  <1>5. \A m \in sent' : m \in sent \/ (m.kind = "DISCOVER" /\ m.mac = 1 /\ m.ci = 0)
    BY <1>1
  <1>6. QuietTypes'
    BY <1>2, <1>3, <1>4 DEF QuietInv, QuietTypes
  <1>7. FirstAcked' /\ RepliesRight'
    BY <1>2, <1>3, <1>5 DEF QuietInv, FirstAcked, RepliesRight, NoIp
  <1>8. SelectsOnce' /\ BoundAcked'
    BY <1>1, <1>2, <1>3 DEF QuietInv, SelectsOnce, BoundAcked
  <1> QED
    BY <1>6, <1>7, <1>8 DEF QuietInv

\* The first answer moves the client on.
LEMMA SelectingStep == ASSUME QuietInv, Quiet, RunSelecting PROVE QuietInv'
  <1> DEFINE r == poll_response(client, Reply)
  <1>1. /\ recv /\ client.pc = "Selecting"
        /\ client' = [client EXCEPT !.pc = "Requesting", !.ip = r.told, !.server = r.server,
                                    !.retry = 0]
        /\ sent' = sent \cup {[kind |-> "REQUEST", mac |-> 1, ci |-> r.told]}
        /\ UNCHANGED <<leases, tmp, now, acked>>
    BY DEF RunSelecting, send_dhcp, Msg, QuietInv, QuietTypes, Clients
  <1>2. /\ Reply \in Replies
        /\ Reply.kind = "OFFER" => Reply.ip = AddrOf(1)
        /\ Reply.kind = "ACK" => Reply.ip \in acked
        /\ inbox' \in Seq(Replies)
        /\ \A i \in 1 .. Len(inbox') : \E j \in 1 .. Len(inbox) : inbox'[i] = inbox[j]
    BY <1>1, Received
  <1>3. client.ip = NoIp /\ client.server = 0
    BY <1>1 DEF QuietInv, SelectsOnce
  <1>4. r.told = Reply.ip /\ r.server = Server /\ r.told \in Nat /\ Server \in Nat
    BY <1>2, <1>3, PollResponse DEF Replies, Server
  <1> HIDE DEF r
  <1>5. client' \in Clients /\ client'.pc = "Requesting" /\ client'.ip = r.told
        /\ client'.server = Server
    BY ZenonT(60), <1>1, <1>4 DEF QuietInv, QuietTypes, Clients
  <1>6. sent' \subseteq Requests
    BY <1>1, <1>4 DEF QuietInv, QuietTypes, Requests
  <1>7. QuietTypes'
    BY <1>1, <1>2, <1>5, <1>6 DEF QuietInv, QuietTypes
  <1>8. acked = {} => r.told = AddrOf(1)
    BY <1>2, <1>4 DEF Replies
  <1>9. FirstAcked'
    BY <1>1, <1>5, <1>8 DEF QuietInv, FirstAcked
  <1>10. RepliesRight'
    BY <1>1, <1>2 DEF QuietInv, RepliesRight
  <1>11. SelectsOnce' /\ BoundAcked'
    BY <1>1, <1>5 DEF QuietInv, SelectsOnce, BoundAcked
  <1> QED
    BY <1>7, <1>9, <1>10, <1>11 DEF QuietInv

\* The end of a round: a lease that is bound has an acknowledged address.
LEMMA DiscoverLease ==
    ASSUME QuietInv, NEW ip \in Nat, NEW c \in Clients, discover_lease(ip, c),
           ip # NoIp => c.ip \in acked
    PROVE  /\ client' \in Clients /\ client'.pc = "Publish" /\ client'.publish # <<>>
           /\ leases' \in [1 .. MaxNics -> Leases]
           /\ \A n \in 1 .. MaxNics : leases'[n].bound => leases'[n].ip \in acked
  <1> DEFINE p == IF ip = NoIp THEN Publish(APIPA, NoIp) ELSE Publish(c.ip, Gateway)
             l == [active |-> TRUE, bound |-> ip # NoIp, ip |-> IF ip = NoIp THEN NoIp ELSE c.ip,
                   server |-> IF ip = NoIp THEN 0 ELSE c.server,
                   state |-> IF ip = NoIp THEN "Init" ELSE "Bound", obtained |-> now]
  <1>1. c.ip \in Nat /\ c.server \in Nat /\ c.nic = 1 /\ now \in Nat
    BY DEF QuietInv, QuietTypes, Clients
  <1>2. ASSUME NEW a \in Nat, NEW b \in Nat
        PROVE  Publish(a, b) \in Seq({"ip", "gw"} \X Nat) /\ Publish(a, b) # <<>>
    BY DEF Publish
  <1>3. p \in Seq({"ip", "gw"} \X Nat) /\ p # <<>>
    BY ZenonT(60), <1>1, <1>2 DEF APIPA, NoIp, Gateway
  <1>4. client' = [c EXCEPT !.pc = "Publish", !.publish = p]
    BY DEF discover_lease
  <1>5. leases' = [leases EXCEPT ![1] = l]
    BY <1>1 DEF discover_lease
  <1>6. l \in Leases /\ (l.bound => l.ip \in acked)
    BY ZenonT(60), <1>1 DEF Leases, NoIp
  <1> HIDE DEF p, l
  <1>7. client' \in Clients /\ client'.pc = "Publish" /\ client'.publish # <<>>
    BY ZenonT(60), <1>3, <1>4 DEF Clients
  <1>8. leases' \in [1 .. MaxNics -> Leases]
    BY <1>5, <1>6 DEF QuietInv, QuietTypes
  <1>9. \A n \in 1 .. MaxNics : leases'[n].bound => leases'[n].ip \in acked
    BY <1>5, <1>6 DEF QuietInv, QuietTypes, BoundAcked
  <1> QED
    BY <1>7, <1>8, <1>9

\* Only an ACK ends the round with a lease.
LEMMA RequestingStep == ASSUME QuietInv, Quiet, RunRequesting PROVE QuietInv'
  <1> DEFINE r == poll_response(client, Reply)
             c == [client EXCEPT !.ip = r.ip, !.server = r.server]
  <1>1. /\ recv /\ client.pc = "Requesting"
        /\ IF r.told # NoIp THEN discover_lease(r.told, c) ELSE UNCHANGED <<client, leases>>
        /\ UNCHANGED <<tmp, sent, now, acked>>
    BY DEF RunRequesting
  <1>2. /\ Reply \in Replies
        /\ Reply.kind = "ACK" => Reply.ip \in acked
        /\ inbox' \in Seq(Replies)
        /\ \A i \in 1 .. Len(inbox') : \E j \in 1 .. Len(inbox) : inbox'[i] = inbox[j]
    BY <1>1, Received
  <1>3. client.server = Server /\ Server # 0
    BY <1>1 DEF QuietInv, SelectsOnce, Server
  <1>4. RepliesRight'
    BY <1>1, <1>2 DEF QuietInv, RepliesRight
  <1>5. CASE r.told = NoIp
    BY <1>1, <1>2, <1>4, <1>5
       DEF QuietInv, QuietTypes, FirstAcked, SelectsOnce, BoundAcked
  <1>6. CASE r.told # NoIp
    <2>1. Reply.kind = "ACK" /\ r.ip = Reply.ip /\ r.told = Reply.ip /\ r.server = Server
          /\ Reply.ip \in Nat /\ Server \in Nat
      <3>1. r = IF Reply.kind = "ACK" \/ (client.server = 0 /\ client.ip = NoIp)
                THEN [ip |-> Reply.ip, server |-> Reply.server, told |-> Reply.ip]
                ELSE [ip |-> client.ip, server |-> client.server, told |-> NoIp]
        BY <1>2, PollResponse
      <3> HIDE DEF r
      <3>2. Reply.kind = "ACK"
        BY <1>3, <1>6, <3>1
      <3> QED
        BY <1>2, <3>1, <3>2 DEF Replies, Server
    <2> HIDE DEF r
    <2>2. c \in Clients /\ c.ip \in acked
      BY ZenonT(60), <1>2, <2>1 DEF QuietInv, QuietTypes, Clients
    <2> HIDE DEF c
    <2>3. discover_lease(r.told, c) /\ r.told \in Nat
      BY <1>1, <1>6, <2>1
    <2>4. /\ client' \in Clients /\ client'.pc = "Publish" /\ client'.publish # <<>>
          /\ leases' \in [1 .. MaxNics -> Leases]
          /\ \A n \in 1 .. MaxNics : leases'[n].bound => leases'[n].ip \in acked
      BY <2>2, <2>3, DiscoverLease
    <2>5. QuietTypes'
      BY <1>1, <1>2, <2>4 DEF QuietInv, QuietTypes
    <2>6. FirstAcked' /\ SelectsOnce' /\ BoundAcked'
      BY <1>1, <2>4 DEF QuietInv, FirstAcked, SelectsOnce, BoundAcked
    <2> QED
      BY <1>4, <2>5, <2>6 DEF QuietInv
  <1> QED
    BY <1>5, <1>6

\* A timeout sends the same message again, or ends the round without a lease.
LEMMA TimeoutStep == ASSUME QuietInv, Quiet, RunTimeout PROVE QuietInv'
  <1>1. client.pc \in {"Selecting", "Requesting"} /\ UNCHANGED <<tmp, inbox, now, acked>>
    BY DEF RunTimeout
  <1>2. RepliesRight' \/ ~(sent' = sent)
    BY <1>1 DEF QuietInv, RepliesRight
  <1>3. CASE client.retry + 1 > MAX_RETRIES
    <2>1. discover_lease(NoIp, client) /\ UNCHANGED sent
      BY <1>3 DEF RunTimeout
    <2>2. NoIp \in Nat /\ client \in Clients
      BY DEF NoIp, QuietInv, QuietTypes
    <2>3. /\ client' \in Clients /\ client'.pc = "Publish" /\ client'.publish # <<>>
          /\ leases' \in [1 .. MaxNics -> Leases]
          /\ \A n \in 1 .. MaxNics : leases'[n].bound => leases'[n].ip \in acked
      BY <2>1, <2>2, DiscoverLease
    <2>4. QuietTypes'
      BY <1>1, <2>1, <2>3 DEF QuietInv, QuietTypes
    <2>5. FirstAcked' /\ SelectsOnce' /\ BoundAcked'
      BY <1>1, <2>1, <2>3 DEF QuietInv, FirstAcked, SelectsOnce, BoundAcked
    <2> QED
      BY <1>2, <2>1, <2>4, <2>5 DEF QuietInv
  <1>4. CASE ~(client.retry + 1 > MAX_RETRIES)
    <2> DEFINE m == IF client.pc = "Selecting" THEN Msg("DISCOVER", client.nic, NoIp)
                    ELSE Msg("REQUEST", client.nic, client.ip)
    <2>1. /\ sent' = sent \cup {m} /\ UNCHANGED leases
          /\ client' = [client EXCEPT !.retry = client.retry + 1]
      BY <1>4 DEF RunTimeout, send_dhcp
    <2>2. /\ m \in Requests /\ m.mac = 1
          /\ m.kind = "DISCOVER" => m.ci = NoIp
          /\ m.kind = "REQUEST" => client.pc = "Requesting" /\ m.ci = client.ip
      BY <1>1 DEF Msg, Requests, QuietInv, QuietTypes, Clients, NoIp
    <2> HIDE DEF m
    <2>3. client' \in Clients /\ client'.pc = client.pc /\ client'.ip = client.ip
          /\ client'.server = client.server
      <3> DEFINE k == client.retry + 1
      <3>1. client \in Clients /\ k \in Nat /\ client' = [client EXCEPT !.retry = k]
        BY <2>1 DEF QuietInv, QuietTypes, Clients
      <3> HIDE DEF k
      <3> QED
        BY <3>1 DEF Clients
    <2>4. QuietTypes'
      BY <1>1, <2>1, <2>2, <2>3 DEF QuietInv, QuietTypes
    <2>5. FirstAcked'
      BY <1>1, <2>1, <2>2, <2>3 DEF QuietInv, FirstAcked
    <2>6. RepliesRight'
      BY <1>1, <2>1, <2>2 DEF QuietInv, RepliesRight
    <2>7. SelectsOnce' /\ BoundAcked'
      BY <1>1, <2>1, <2>3 DEF QuietInv, SelectsOnce, BoundAcked
    <2> QED
      BY <2>4, <2>5, <2>6, <2>7 DEF QuietInv
  <1> QED
    BY <1>3, <1>4

\* A client that starts over has selected nothing.
LEMMA NewClientTyped ==
    ASSUME NEW b \in BOOLEAN
    PROVE  /\ NewClient(1, b) \in Clients /\ NewClient(1, b).pc = "Init"
           /\ NewClient(1, b).ip = NoIp /\ NewClient(1, b).server = 0
  <1>1. <<>> \in Seq({"ip", "gw"} \X Nat)
    OBVIOUS
  <1> QED
    BY <1>1 DEF NewClient, Clients, NoIp

\* Publishing writes the Registry only.
LEMMA PublishStep == ASSUME QuietInv, Quiet, publish_lease PROVE QuietInv'
  <1> DEFINE rest == Tail(client.publish)
  <1>1. /\ client.pc = "Publish" /\ UNCHANGED <<leases, tmp, inbox, sent, now, acked>>
        /\ client' = CASE rest # <<>> -> [client EXCEPT !.publish = rest]
                       [] rest = <<>> /\ ~client.back /\ client.nic + 1 \in Nics ->
                            NewClient(client.nic + 1, FALSE)
                       [] OTHER -> [NewClient(1, TRUE) EXCEPT !.pc = "Supervise"]
    BY DEF publish_lease
  <1>2. client.nic = 1 /\ ~(client.nic + 1 \in Nics)
    BY OneNic DEF QuietInv, QuietTypes, Clients
  <1>3. rest \in Seq({"ip", "gw"} \X Nat)
    BY <1>1 DEF QuietInv, QuietTypes, Clients
  <1> HIDE DEF rest
  <1>4. /\ client' \in Clients /\ client'.pc \in {"Publish", "Supervise"}
        /\ client'.pc = "Publish" => client'.publish # <<>>
    <2>1. CASE rest # <<>>
      <3>1. client' = [client EXCEPT !.publish = rest]
        BY <1>1, <2>1
      <3> QED
        BY ZenonT(60), <1>1, <1>3, <2>1, <3>1 DEF QuietInv, QuietTypes, Clients
    <2>2. CASE rest = <<>>
      <3>1. client' = [NewClient(1, TRUE) EXCEPT !.pc = "Supervise"]
        BY <1>1, <1>2, <2>2
      <3> QED
        BY ZenonT(60), <3>1, NewClientTyped DEF Clients
    <2> QED
      BY <2>1, <2>2
  <1>5. QuietTypes'
    BY ZenonT(60), <1>1, <1>4 DEF QuietInv, QuietTypes
  <1> QED
    BY ZenonT(60), <1>1, <1>4, <1>5 DEF QuietInv, FirstAcked, RepliesRight, SelectsOnce, BoundAcked

\* The supervisor starts a new round for an expired lease.
LEMMA ExpiredStep == ASSUME QuietInv, Quiet, NEW n \in Nics, SuperviseExpired(n) PROVE QuietInv'
  <1>1. client' = NewClient(1, TRUE) /\ UNCHANGED <<leases, tmp, inbox, sent, now, acked>>
    BY ZenonT(60), OneNic DEF SuperviseExpired
  <1>2. /\ client' \in Clients /\ client'.pc = "Init" /\ client'.ip = NoIp /\ client'.server = 0
    BY ZenonT(60), <1>1, NewClientTyped
  <1>3. QuietTypes'
    BY ZenonT(60), <1>1, <1>2 DEF QuietInv, QuietTypes
  <1> QED
    BY ZenonT(60), <1>1, <1>2, <1>3 DEF QuietInv, FirstAcked, RepliesRight, SelectsOnce, BoundAcked

\* The supervisor's requests come after the first acknowledgement.
LEMMA RenewStep ==
    ASSUME QuietInv, Quiet, NEW n \in Nics, SuperviseRenew(n) \/ Resend(n)
    PROVE  QuietInv'
  <1> DEFINE m == Msg("REQUEST", 0, tmp.ip)
  <1>1. /\ n = 1 /\ leases[1].bound /\ client.pc = "Supervise"
        /\ sent' = sent \cup {m} /\ UNCHANGED <<client, tmp, inbox, now, acked>>
    BY OneNic DEF SuperviseRenew, Resend, Awaiting, Supervised, send_dhcp
  <1>2. m \in Requests /\ m.kind = "REQUEST"
    BY DEF Msg, Requests, QuietInv, QuietTypes
  <1> HIDE DEF m
  <1>3. acked # {} /\ 1 \in 1 .. MaxNics
    BY <1>1 DEF QuietInv, QuietTypes, BoundAcked
  <1>4. /\ leases' \in [1 .. MaxNics -> Leases]
        /\ \A k \in 1 .. MaxNics : leases'[k].bound = leases[k].bound /\ leases'[k].ip = leases[k].ip
    <2>1. CASE leases' = leases
      BY <2>1 DEF QuietInv, QuietTypes
    <2>2. CASE leases' = [leases EXCEPT ![n].state = IF @ = "Bound" THEN "Renewing" ELSE "Rebinding"]
      <3> DEFINE st == IF leases[1].state = "Bound" THEN "Renewing" ELSE "Rebinding"
                 l == [leases[1] EXCEPT !.state = st]
      <3>1. leases' = [leases EXCEPT ![1] = l]
        BY <1>1, <2>2
      <3>2. leases[1] \in Leases
        BY <1>3 DEF QuietInv, QuietTypes
      <3>3. l \in Leases /\ l.bound = leases[1].bound /\ l.ip = leases[1].ip
        BY <3>2 DEF Leases
      <3> HIDE DEF l
      <3> QED
        BY <1>3, <3>1, <3>3 DEF QuietInv, QuietTypes
    <2> QED
      BY <2>1, <2>2 DEF SuperviseRenew, Resend
  <1>5. QuietTypes'
    BY <1>1, <1>2, <1>4 DEF QuietInv, QuietTypes
  <1>6. FirstAcked' /\ SelectsOnce'
    BY <1>1, <1>3 DEF QuietInv, FirstAcked, SelectsOnce
  <1>7. RepliesRight'
    BY <1>1, <1>2 DEF QuietInv, RepliesRight
  <1>8. BoundAcked'
    BY <1>1, <1>4 DEF QuietInv, BoundAcked
  <1> QED
    BY <1>5, <1>6, <1>7, <1>8 DEF QuietInv

\* The supervisor takes an address from an ACK, or from a late OFFER, whose
\* address was acknowledged before.
LEMMA SupervisePollStep == ASSUME QuietInv, Quiet, SupervisePoll PROVE QuietInv'
  <1> DEFINE r == poll_response(tmp, Reply)
  <1>1. recv /\ UNCHANGED <<sent, now, acked>> /\ tmp' = [ip |-> r.ip, server |-> r.server]
    BY ZenonT(60) DEF SupervisePoll
  <1>2. leases[1].bound /\ client.pc = "Supervise"
    BY ZenonT(60), OneNic DEF SupervisePoll, Awaiting, Supervised
  <1>3. /\ Reply \in Replies
        /\ Reply.kind = "OFFER" => Reply.ip = AddrOf(1)
        /\ Reply.kind = "ACK" => Reply.ip \in acked
        /\ inbox' \in Seq(Replies)
        /\ \A i \in 1 .. Len(inbox') : \E j \in 1 .. Len(inbox) : inbox'[i] = inbox[j]
    BY <1>1, Received
  <1>4. AddrOf(1) \in acked /\ 1 \in 1 .. MaxNics
    BY <1>2 DEF QuietInv, QuietTypes, BoundAcked, FirstAcked
  <1>5. Reply.ip \in acked
    BY <1>3, <1>4 DEF Replies
  <1>6. r = IF Reply.kind = "ACK" \/ (tmp.server = 0 /\ tmp.ip = NoIp)
            THEN [ip |-> Reply.ip, server |-> Reply.server, told |-> Reply.ip]
            ELSE [ip |-> tmp.ip, server |-> tmp.server, told |-> NoIp]
    BY <1>3, PollResponse
  <1>7. /\ r.ip \in Nat /\ r.server \in Nat
        /\ r.told # NoIp => r.ip \in acked
    BY <1>3, <1>5, <1>6 DEF QuietInv, QuietTypes, Replies, Server
  <1>8. \/ UNCHANGED <<client, leases>>
        \/ \E n \in Nics : client' = NewClient(n, TRUE) /\ UNCHANGED leases
        \/ \E n \in Nics :
             /\ leases' = [leases EXCEPT ![n].ip = r.ip, ![n].server = r.server,
                                         ![n].obtained = now, ![n].state = "Bound"]
             /\ client' = [NewClient(n, TRUE) EXCEPT !.pc = "Publish",
                                                     !.publish = Publish(r.ip, Gateway)]
             /\ r.told # NoIp
    <2>1. \A a, b : find_lease_idx(a, b) \subseteq Nics
      BY DEF find_lease_idx
    <2> QED
      BY ZenonT(60), <2>1 DEF SupervisePoll
  <1> HIDE DEF r
  <1>9. RepliesRight'
    BY <1>1, <1>3 DEF QuietInv, RepliesRight
  <1>10. tmp' \in [ip : Nat, server : Nat]
    BY <1>1, <1>7
  <1>11. CASE UNCHANGED <<client, leases>>
    <2>1. QuietTypes'
      BY <1>1, <1>3, <1>10, <1>11 DEF QuietInv, QuietTypes
    <2> QED
      BY <1>1, <1>9, <1>11, <2>1 DEF QuietInv, FirstAcked, SelectsOnce, BoundAcked
  <1>12. CASE client' = NewClient(1, TRUE) /\ UNCHANGED leases
    <2>1. client' \in Clients /\ client'.pc = "Init" /\ client'.ip = NoIp /\ client'.server = 0
      BY ZenonT(60), <1>12, NewClientTyped
    <2>2. QuietTypes'
      BY ZenonT(60), <1>1, <1>3, <1>10, <1>12, <2>1 DEF QuietInv, QuietTypes
    <2> QED
      BY ZenonT(60), <1>1, <1>9, <1>12, <2>1, <2>2 DEF QuietInv, FirstAcked, SelectsOnce, BoundAcked
  <1>13. CASE /\ leases' = [leases EXCEPT ![1].ip = r.ip, ![1].server = r.server,
                                          ![1].obtained = now, ![1].state = "Bound"]
              /\ client' = [NewClient(1, TRUE) EXCEPT !.pc = "Publish",
                                                      !.publish = Publish(r.ip, Gateway)]
              /\ r.told # NoIp
    <2> DEFINE p == Publish(r.ip, Gateway)
               l == [leases[1] EXCEPT !.ip = r.ip, !.server = r.server,
                                      !.obtained = now, !.state = "Bound"]
    <2>1. p \in Seq({"ip", "gw"} \X Nat) /\ p # <<>>
      BY <1>7 DEF Publish, Gateway
    <2>2. client' = [NewClient(1, TRUE) EXCEPT !.pc = "Publish", !.publish = p]
      BY <1>13
    <2>3. leases[1] \in Leases /\ now \in Nat
      BY <1>4 DEF QuietInv, QuietTypes
    <2>4. l \in Leases /\ l.ip = r.ip
      BY ZenonT(60), <1>7, <2>3 DEF Leases
    <2>5. leases' = [leases EXCEPT ![1] = l]
      BY ZenonT(60), <1>4, <1>13 DEF QuietInv, QuietTypes
    <2> HIDE DEF p, l
    <2>6. client' \in Clients /\ client'.pc = "Publish" /\ client'.publish # <<>>
      BY ZenonT(60), <2>1, <2>2, NewClientTyped DEF Clients
    <2>7. leases' \in [1 .. MaxNics -> Leases] /\ BoundAcked'
      <3>1. leases \in [1 .. MaxNics -> Leases] /\ acked' = acked /\ l.ip \in acked
        BY <1>1, <1>7, <1>13, <2>4 DEF QuietInv, QuietTypes
      <3>2. leases' \in [1 .. MaxNics -> Leases]
        BY <1>4, <2>4, <2>5, <3>1
      <3>3. \A n \in 1 .. MaxNics : leases'[n] = leases[n] \/ leases'[n] = l
        BY <1>4, <2>5, <3>1
      <3>4. \A n \in 1 .. MaxNics : leases[n].bound => leases[n].ip \in acked
        BY DEF QuietInv, BoundAcked
      <3>5. BoundAcked'
        BY <3>1, <3>3, <3>4 DEF BoundAcked
      <3> QED
        BY <3>2, <3>5
    <2>8. QuietTypes'
      BY <1>1, <1>3, <1>10, <2>6, <2>7 DEF QuietInv, QuietTypes
    <2>9. FirstAcked' /\ SelectsOnce'
      BY <1>1, <2>6 DEF QuietInv, FirstAcked, SelectsOnce
    <2> QED
      BY <1>9, <2>7, <2>8, <2>9 DEF QuietInv
  <1> QED
    BY ZenonT(60), <1>8, <1>11, <1>12, <1>13, OneNic

\* The server's answers.
LEMMA ServerStep == ASSUME QuietInv, Quiet, NEW m \in sent, ServerAnswers(m) PROVE QuietInv'
  <1> DEFINE ip == IF m.ci \in {NoIp, NakIp} THEN AddrOf(m.mac) ELSE m.ci
             kind == IF m.kind = "DISCOVER" THEN "OFFER" ELSE "ACK"
             rep == [kind |-> kind, ip |-> ip, server |-> Server]
  <1>1. m \in Requests /\ "nak" \notin dhcpLoad
    BY DEF QuietInv, QuietTypes, Quiet
  <1>2. sent' \subseteq sent /\ UNCHANGED <<client, leases, tmp, now>>
    BY DEF ServerAnswers
  <1>3. \/ /\ inbox' = inbox \/ inbox' = Append(inbox, rep)
           /\ acked' = IF m.kind = "REQUEST" THEN acked \cup {ip} ELSE acked
        \/ UNCHANGED <<inbox, acked>>
    BY <1>1 DEF ServerAnswers, Deliver
  <1>4. rep \in Replies
    BY <1>1 DEF Requests, Replies, AddrOf
  <1>5. inbox' \in Seq(Replies)
    <2> HIDE DEF rep, ip, kind
    <2>1. inbox \in Seq(Replies)
      BY Zenon DEF QuietInv, QuietTypes
    <2>2. Append(inbox, rep) \in Seq(Replies)
      BY <1>4, <2>1
    <2> QED
      BY Zenon, <1>3, <2>1, <2>2
  <1>6. QuietTypes'
    BY <1>2, <1>5 DEF QuietInv, QuietTypes
  <1>7. acked \subseteq acked'
    BY <1>3
  <1>8. rep.kind = "OFFER" => rep.ip = AddrOf(1)
    BY <1>1 DEF QuietInv, RepliesRight, Requests, NoIp
  <1>9. acked' # acked => m.kind = "REQUEST" /\ acked' = acked \cup {ip}
    BY <1>3
  <1>10. acked = {} /\ m.kind = "REQUEST" => ip = AddrOf(1)
    BY AddrOne DEF QuietInv, FirstAcked
  <1>11. FirstAcked'
    BY <1>2, <1>7, <1>9, <1>10 DEF QuietInv, FirstAcked
  <1>12. inbox' = Append(inbox, rep) /\ inbox' # inbox => (rep.kind = "ACK" => rep.ip \in acked')
    BY <1>1, <1>3 DEF Requests
  <1> HIDE DEF rep, ip, kind
  <1>13. RepliesRight'
    <2>1. \A x \in sent' : x.kind = "DISCOVER" => x.mac = 1 /\ x.ci = NoIp
      BY <1>2 DEF QuietInv, RepliesRight
    <2>2. CASE inbox' = inbox
      BY <1>7, <2>1, <2>2 DEF QuietInv, RepliesRight
    <2>3. CASE inbox' # inbox
      <3>1. inbox' = Append(inbox, rep)
        BY <1>3, <2>3
      <3>2. inbox \in Seq(Replies) /\ Len(inbox') = Len(inbox) + 1 /\ Len(inbox) \in Nat
        BY <1>4, <3>1 DEF QuietInv, QuietTypes
      <3>3. \A i \in 1 .. Len(inbox') : inbox'[i] = rep \/ (i \in 1 .. Len(inbox) /\ inbox'[i] = inbox[i])
        BY <1>4, <3>1, <3>2
      <3> QED
        BY <1>7, <1>8, <1>12, <2>1, <2>3, <3>1, <3>3 DEF QuietInv, RepliesRight
    <2> QED
      BY <2>2, <2>3
  <1>14. SelectsOnce' /\ BoundAcked'
    BY <1>2, <1>7 DEF QuietInv, SelectsOnce, BoundAcked
  <1> QED
    BY <1>6, <1>11, <1>13, <1>14 DEF QuietInv

\* Time and netapplier touch neither the client nor the leases.
LEMMA OtherStep ==
    ASSUME QuietInv, Quiet,
           \/ Tick \/ UNCHANGED dhcpVars
           \/ \E n \in Nics : ApplierRead(n) \/ ApplierPass(n)
    PROVE  QuietInv'
  <1>1. UNCHANGED <<client, leases, tmp, inbox, sent, acked>> /\ now' \in Nat
    <2>1. now \in Nat
      BY DEF QuietInv, QuietTypes
    <2>2. CASE Tick
      BY <2>1, <2>2 DEF Tick
    <2>3. CASE UNCHANGED dhcpVars
      BY <2>1, <2>3 DEF dhcpVars
    <2>4. ASSUME NEW n \in Nics, ApplierRead(n) \/ ApplierPass(n)
          PROVE  UNCHANGED <<client, leases, tmp, inbox, sent, acked, now>>
      BY <2>4 DEF ApplierRead, ApplierPass
    <2> QED
      BY <2>1, <2>2, <2>3, <2>4
  <1>2. QuietTypes'
    BY <1>1 DEF QuietInv, QuietTypes
  <1> QED
    BY <1>1, <1>2 DEF QuietInv, FirstAcked, RepliesRight, SelectsOnce, BoundAcked

\* With one NIC and a server that refuses nothing, dhcpd binds an interface only
\* to an address that a server acknowledged, whatever datagrams are lost,
\* repeated, delayed or swallowed by a read, and at whatever time leases expire.
THEOREM LeasesAreAcknowledged ==
    ASSUME MaxNics \in Nat \ {0} PROVE DhcpSpec => []BoundWasAcked
  <1>1. DhcpInit => (Quiet => QuietInv)
    BY QuietInit
  <1>2. (Quiet => QuietInv) /\ [DhcpNext]_dhcpVars => (Quiet => QuietInv)'
    <2> SUFFICES ASSUME Quiet => QuietInv, [DhcpNext]_dhcpVars, Quiet'
                 PROVE  QuietInv'
      OBVIOUS
    <2>1. dhcpLoad' = dhcpLoad
      BY ZenonT(60) DEF DhcpNext, Client, RunInit, RunSelecting, RunRequesting, publish_lease, SupervisePoll,
             RunTimeout, Tick, SuperviseExpired, SuperviseRenew, Resend, ApplierRead, ApplierPass,
             ServerAnswers, dhcpVars
    <2>2. Quiet /\ QuietInv
      BY <2>1 DEF Quiet
    <2> QED
      BY <2>2, InitStep, SelectingStep, RequestingStep, TimeoutStep, PublishStep, ExpiredStep,
         RenewStep, SupervisePollStep, ServerStep, OtherStep
         DEF DhcpNext, Client
  <1>3. (Quiet => QuietInv) => BoundWasAcked
    BY OneNic DEF Quiet, QuietInv, QuietTypes, BoundAcked, BoundWasAcked
  <1> QED
    BY <1>1, <1>2, <1>3, PTL DEF DhcpSpec

=============================================================================
