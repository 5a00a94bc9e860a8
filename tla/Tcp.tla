-------------------------------- MODULE Tcp --------------------------------
(***************************************************************************)
(* TCP connections and stream sockets of the NeoDOS kernel: one client, a  *)
(* listener with its accept backlog and the connections it creates, the    *)
(* retransmission tick of the network pump, and the threads parked on      *)
(* sockets.                                                                *)
(*                                                                         *)
(* The network is the set of all segments ever sent: a segment can be      *)
(* delivered late, out of order, several times or never.  Sequence numbers *)
(* count from each side's initial number.  tcp_tick releases the TCP lock  *)
(* between its snapshot and each send, so it is one step for the snapshot  *)
(* and one per connection.  Whether a retransmission timer has run out is  *)
(* left open.  A system call is one step, except SocketClose: its FIN can  *)
(* be answered (by the loopback pump) before the socket is freed.          *)
(* Socket i owns connection i; 1 is the client.                            *)
(***************************************************************************)
EXTENDS Integers, Sequences, FiniteSets

CONSTANTS
    TCP_MAX_CONNECTIONS,
    MAX_ACCEPT_BACKLOG,
    TCP_MSS,
    TCP_SEND_BUF,
    TCP_RECV_BUF,
    TCP_MAX_RETRIES,
    MaxBytes,     \* bound on the bytes each application writes
    TcpLoads      \* sets of operations the applications perform

Conns == 1..TCP_MAX_CONNECTIONS
Client == 1
Children == Conns \ {Client}

VARIABLES
    conn,      \* the TCP table
    dir,       \* direction of each socket, "Free" when there is none
    listener,  \* direction of the listening socket
    backlog,   \* accept_backlog: children nobody has accepted yet
    net,       \* segments sent
    jobs,      \* the snapshot tcp_tick works on
    ticking,
    parked,    \* <<kind, socket>> of each thread blocked on a socket
    wrote,     \* bytes written by the application of each connection
    closing,   \* sockets whose SocketClose call has still to free them
    got,       \* bytes each connection has accepted from its peer
    arrived,   \* bytes of the client that some connection has accepted
    tcpLoad

history == <<wrote, got, arrived>>
tcpVars == <<conn, dir, listener, backlog, net, jobs, ticking, parked, closing,
             wrote, got, arrived, tcpLoad>>

FreeConn == [st |-> "Free", base |-> 0, next |-> 0, rcv |-> 0, sbuf |-> <<>>, rbuf |-> <<>>,
             win |-> TCP_RECV_BUF, retries |-> 0, fin |-> FALSE, reap |-> FALSE]
NewConn == [FreeConn EXCEPT !.st = "Closed"]
NoJob == [st |-> "none"]

Least(S) == CHOOSE x \in S : \A y \in S : x <= y
Smaller(x, y) == IF x < y THEN x ELSE y
Take(s, n) == SubSeq(s, 1, Smaller(n, Len(s)))
Skip(s, n) == SubSeq(s, n + 1, Len(s))

Side(i) == IF i = Client THEN "client" ELSE "server"
Other(i) == IF i = Client THEN "server" ELSE "client"

Segment(i, flags, seq, ack, win, data) ==
    [to |-> Other(i), flags |-> flags, seq |-> seq, ack |-> ack, win |-> win, data |-> data]

adv_window(used) == TCP_RECV_BUF - used

Unsent(c) == Len(c.sbuf) - Smaller(c.next - c.base, Len(c.sbuf))

\* wake_socket_readers, wake_socket_connect_waiters, wake_socket_accept_waiters
Wake(W) == parked' = parked \ W
EveryKind(i) == {"read", "connect", "accept"} \X {i}

Does(op) == op \in tcpLoad

-----------------------------------------------------------------------------
\* System calls

\* socket_connect_user, tcp_connect: the SYN consumes the initial number.
socket_connect ==
    /\ Does("connect") /\ dir[Client] = "None" /\ conn[Client].st = "Closed"
    /\ conn' = [conn EXCEPT ![Client] = [NewConn EXCEPT !.st = "SynSent", !.next = 1]]
    /\ dir' = [dir EXCEPT ![Client] = "Connecting"]
    /\ net' = net \cup {Segment(Client, {"SYN"}, 0, 0, TCP_RECV_BUF, <<>>)}
    /\ UNCHANGED <<listener, backlog, jobs, ticking, parked, closing, history>>

\* socket_send, tcp_send.  The k-th byte a connection writes is k.
socket_send(i) ==
    /\ Does(IF i = Client THEN "send" ELSE "reply")
    /\ dir[i] = "Connected" /\ i \notin {backlog[k] : k \in DOMAIN backlog}
    /\ conn[i].st = "Established"
    /\ wrote[i] < MaxBytes /\ Len(conn[i].sbuf) < TCP_SEND_BUF
    /\ conn' = [conn EXCEPT ![i].sbuf = Append(@, wrote[i] + 1)]
    /\ wrote' = [wrote EXCEPT ![i] = @ + 1]
    /\ UNCHANGED <<dir, listener, backlog, net, jobs, ticking, parked, closing, got, arrived>>

\* socket_recv, tcp_recv: all that is buffered; no window update is sent.
socket_recv(i) ==
    /\ Does("recv") /\ dir[i] = "Connected" /\ conn[i].rbuf # <<>>
    /\ i \notin {backlog[k] : k \in DOMAIN backlog}
    /\ conn' = [conn EXCEPT ![i].rbuf = <<>>]
    /\ UNCHANGED <<dir, listener, backlog, net, jobs, ticking, parked, closing, history>>

\* socket_accept_take: the first connection of the backlog that is established.
socket_accept_take ==
    /\ Does("accept") /\ listener = "Listening"
    /\ \E k \in DOMAIN backlog :
         /\ conn[backlog[k]].st = "Established"
         /\ \A j \in 1..k - 1 : conn[backlog[j]].st # "Established"
         /\ backlog' = SelectSeq(backlog, LAMBDA x : x # backlog[k])
    /\ UNCHANGED <<conn, dir, listener, net, jobs, ticking, parked, closing, history>>

\* ObWait on a socket: socket_wait_reason decides whether and on what to park.
AcceptReady == \E k \in DOMAIN backlog : conn[backlog[k]].st = "Established"
wait_socket(i) ==
    /\ Does("wait")
    /\ i \notin {backlog[k] : k \in DOMAIN backlog}
    /\ \/ dir[i] = "Connecting" /\ parked' = parked \cup {<<"connect", i>>}
       \/ /\ dir[i] = "Connected" /\ conn[i].st = "Established" /\ conn[i].rbuf = <<>>
          /\ parked' = parked \cup {<<"read", i>>}
    /\ UNCHANGED <<conn, dir, listener, backlog, net, jobs, ticking, closing, history>>

wait_listener ==
    /\ Does("wait") /\ listener = "Listening" /\ ~AcceptReady
    /\ parked' = parked \cup {<<"accept", 0>>}
    /\ UNCHANGED <<conn, dir, listener, backlog, net, jobs, ticking, closing, history>>

\* tcp_close: FIN now, FIN once the unsent data is out, or nothing to tell the peer.
Closing(st) == IF st = "Established" THEN "FinWait1" ELSE "LastAck"
tcp_close(i) ==
    LET c == conn[i]
    IN  \/ /\ c.st \in {"Established", "CloseWait"} /\ Unsent(c) = 0
           /\ conn' = [conn EXCEPT ![i].st = Closing(c.st), ![i].next = @ + 1]
           /\ net' = net \cup {Segment(i, {"FIN", "ACK"}, c.next, c.rcv, TCP_RECV_BUF, <<>>)}
        \/ /\ c.st \in {"Established", "CloseWait"} /\ Unsent(c) > 0
           /\ conn' = [conn EXCEPT ![i].fin = TRUE]
           /\ UNCHANGED net
        \/ /\ c.st \notin {"Established", "CloseWait"}
           /\ conn' = [conn EXCEPT ![i].st = "Closed", ![i].fin = FALSE]
           /\ UNCHANGED net

socket_close(i) ==
    /\ Does("close") /\ dir[i] # "Free" /\ i \notin closing
    /\ i \notin {backlog[k] : k \in DOMAIN backlog}
    /\ tcp_close(i)
    /\ dir' = [dir EXCEPT ![i] = "Closed"]
    /\ closing' = closing \cup {i}
    /\ Wake(EveryKind(i))
    /\ UNCHANGED <<listener, backlog, jobs, ticking, history>>

\* tcp_release_connection: freed at once only when it is closed and drained.
Released(c) ==
    IF c.st = "Closed" /\ c.sbuf = <<>> /\ c.next = c.base
    THEN FreeConn ELSE [c EXCEPT !.reap = TRUE]

socket_free(i) ==
    /\ i \in closing
    /\ closing' = closing \ {i}
    /\ dir' = [dir EXCEPT ![i] = "Free"]
    /\ conn' = [conn EXCEPT ![i] = Released(@)]
    /\ UNCHANGED <<listener, backlog, net, jobs, ticking, parked, history>>

\* SocketClose on the listener: the connections of its backlog are released.
close_listener ==
    LET pending == {backlog[k] : k \in DOMAIN backlog}
    IN  /\ Does("unlisten") /\ listener = "Listening"
        /\ listener' = "Free"
        /\ backlog' = <<>>
        /\ dir' = [i \in Conns |-> IF i \in pending THEN "Free" ELSE dir[i]]
        /\ conn' = [i \in Conns |-> IF i \in pending THEN Released(conn[i]) ELSE conn[i]]
        /\ Wake(EveryKind(0))
        /\ UNCHANGED <<net, jobs, ticking, closing, history>>

-----------------------------------------------------------------------------
\* Receive path: tcp_dispatch

\* socket_accept_incoming.  A repeated SYN makes another connection.
accept_incoming(m) ==
    LET free == {i \in Children : dir[i] = "Free" /\ conn[i].st = "Free"}
        i == Least(free)
    IN  /\ m.flags = {"SYN"}
        /\ Does("resyn") \/ \A c \in Children : conn[c].st = "Free"
        /\ listener = "Listening" /\ Len(backlog) < MAX_ACCEPT_BACKLOG /\ free # {}
        /\ conn' = [conn EXCEPT ![i] =
                     [NewConn EXCEPT !.st = "SynReceived", !.rcv = m.seq + 1, !.next = 1]]
        /\ dir' = [dir EXCEPT ![i] = "Connecting"]
        /\ backlog' = Append(backlog, i)
        /\ wrote' = [wrote EXCEPT ![i] = 0]
        /\ got' = [got EXCEPT ![i] = <<>>]
        /\ net' = net \cup {Segment(i, {"SYN", "ACK"}, 0, m.seq + 1, TCP_RECV_BUF, <<>>)}
        /\ Wake({<<"accept", 0>>})
        /\ UNCHANGED <<listener, jobs, ticking, closing, arrived>>

\* The window (0, in flight] of acceptable acknowledgements, and the states of a FIN.
Acked(c, m) ==
    IF m.ack - c.base \in 1..c.next - c.base
    THEN [c EXCEPT !.sbuf = Skip(@, Smaller(m.ack - c.base, Len(@))),
                   !.base = m.ack, !.retries = 0]
    ELSE c

Establishes(c, m) == c.st \in {"SynSent", "SynReceived"} /\ m.ack = c.next

tcp_handle_ack(c, m) ==
    CASE "ACK" \notin m.flags -> c
      [] c.st = "SynSent" /\ m.ack = c.next ->
           [c EXCEPT !.st = "Established", !.base = m.ack, !.rcv = m.seq + 1, !.win = m.win]
      [] c.st = "SynReceived" ->
           [c EXCEPT !.st = IF m.ack = c.next THEN "Established" ELSE @,
                     !.base = IF m.ack = c.next THEN m.ack ELSE @, !.win = m.win]
      [] c.st \in {"Established", "FinWait1", "FinWait2", "CloseWait", "LastAck"} ->
           [Acked(c, m) EXCEPT
              !.win = m.win,
              !.st = CASE c.st = "FinWait1" /\ m.ack = c.next -> "FinWait2"
                       [] c.st = "LastAck" /\ m.ack = c.next -> "Closed"
                       [] OTHER -> @]
      [] OTHER -> c

\* Mutant: a segment is taken whatever its place in the stream.
TakesAnyOrder(c, m) ==
    [c EXCEPT !.rbuf = @ \o Take(m.data, TCP_RECV_BUF - Len(c.rbuf)),
              !.rcv = @ + Len(Take(m.data, TCP_RECV_BUF - Len(c.rbuf)))]

\* Only the next byte expected is taken, and as much as there is room for.
tcp_handle_data(c, m) ==
    IF m.seq # c.rcv THEN c
    ELSE [c EXCEPT !.rbuf = @ \o Take(m.data, TCP_RECV_BUF - Len(c.rbuf)),
                   !.rcv = @ + Len(Take(m.data, TCP_RECV_BUF - Len(c.rbuf)))]

\* The FIN is consumed when it is the next byte; the state changes in any case.
FinStates == {"Established", "FinWait1", "FinWait2"}
tcp_handle_fin(c, m) ==
    [c EXCEPT !.rcv = IF m.seq = @ THEN @ + 1 ELSE @,
              !.st = IF c.st = "Established" THEN "CloseWait" ELSE "Closed"]

\* The first socket in table order that matches the ports.
Hit(m) == {i \in Conns : Side(i) = m.to /\ dir[i] \notin {"Free", "None"}}

\* Mutant: readers are left asleep.
WakesNobody(i, est, fresh) == {}

Woken(i, est, fresh) ==
    (IF fresh \/ est THEN {<<"read", i>>} ELSE {})
      \cup (IF est THEN {<<"connect", i>>, <<"accept", i>>} ELSE {})
      \cup (IF est /\ i \in {backlog[k] : k \in DOMAIN backlog} THEN {<<"accept", 0>>} ELSE {})

AckOf(i, c) == Segment(i, {"ACK"}, c.next, c.rcv, adv_window(Len(c.rbuf)), <<>>)
WideAckOf(i, c) == Segment(i, {"ACK"}, c.next, c.rcv, TCP_RECV_BUF, <<>>)

\* ACK, then payload (if the state was Established on arrival), then FIN.
Segments(i, m, c0, c1, c2, c3, est, data, fin) ==
    /\ conn' = [conn EXCEPT ![i] = c3]
    /\ got' = [got EXCEPT ![i] = @ \o Skip(c2.rbuf, Len(c1.rbuf))]
    /\ arrived' = IF i # Client /\ Len(got'[i]) > arrived THEN Len(got'[i]) ELSE arrived
    /\ dir' = [dir EXCEPT ![i] = IF "ACK" \in m.flags /\ (est \/ @ = "Connecting")
                                 THEN "Connected" ELSE @]
    /\ net' = net \cup (IF est /\ c0.st = "SynSent" THEN {WideAckOf(i, c1)} ELSE {})
                  \cup (IF data THEN {AckOf(i, c2)} ELSE {})
                  \cup (IF fin THEN {WideAckOf(i, c3)} ELSE {})
    /\ Wake(Woken(i, est, Len(c2.rbuf) > Len(c1.rbuf)))

Receive(i, m, c0, c1, data) ==
    LET c2 == IF data THEN tcp_handle_data(c1, m) ELSE c1
        fin == "FIN" \in m.flags /\ c2.st \in FinStates
    IN  Segments(i, m, c0, c1, c2, IF fin THEN tcp_handle_fin(c2, m) ELSE c2,
                 "ACK" \in m.flags /\ Establishes(c0, m), data, fin)

tcp_dispatch(m) ==
    /\ m.flags # {"SYN"} /\ Hit(m) # {}
    /\ LET i == Least(Hit(m))
       IN  Receive(i, m, conn[i], tcp_handle_ack(conn[i], m),
                   m.data # <<>> /\ conn[i].st = "Established")
    /\ UNCHANGED <<listener, backlog, jobs, ticking, closing, wrote>>

-----------------------------------------------------------------------------
\* tcp_tick

TickStates == {"Established", "SynSent", "SynReceived", "FinWait1", "LastAck"}

Chunk(c) ==
    IF c.st # "Established" THEN <<>>
    ELSE Take(Skip(c.sbuf, Smaller(c.next - c.base, Len(c.sbuf))),
              Smaller(TCP_MSS, c.win))

tick_snapshot ==
    /\ ~ticking
    /\ ticking' = TRUE
    /\ jobs' = [i \in Conns |->
                  IF conn[i].st \in TickStates
                  THEN [st |-> conn[i].st, base |-> conn[i].base, next |-> conn[i].next,
                        rcv |-> conn[i].rcv, used |-> Len(conn[i].rbuf), unsent |-> Unsent(conn[i]),
                        retries |-> conn[i].retries, fin |-> conn[i].fin, chunk |-> Chunk(conn[i])]
                  ELSE NoJob]
    /\ UNCHANGED <<conn, dir, listener, backlog, net, parked, closing, history>>

\* commit_sent, commit_fin, touch_tx
commit_sent(c, j) ==
    IF j.chunk # <<>> /\ c.next = j.next
    THEN [c EXCEPT !.next = @ + Len(j.chunk), !.retries = 0] ELSE c
SendsFin(j) == j.fin /\ j.unsent = 0 /\ j.st = "Established"
commit_fin(c, j) ==
    IF SendsFin(j)
    THEN [c EXCEPT !.next = @ + 1, !.st = "FinWait1", !.fin = FALSE, !.retries = 0] ELSE c

Expired(j, rto) == rto /\ j.next > j.base
GivesUp(j, rto) == Expired(j, rto) /\ j.retries >= TCP_MAX_RETRIES

\* retransmit_oldest: the payload is read again, after the snapshot.
Again(c, j) == Take(c.sbuf, Smaller(j.next - j.base, TCP_MSS))
FinHere(j) == j.st # "Established" /\ j.base + Smaller(j.next - j.base, TCP_MSS) = j.next
Resends(i, c, j, rto) ==
    CASE ~Expired(j, rto) \/ GivesUp(j, rto) -> {}
      [] j.st = "SynSent" -> {Segment(i, {"SYN"}, j.base, 0, TCP_RECV_BUF, <<>>)}
      [] j.st = "SynReceived" ->
           {Segment(i, {"SYN", "ACK"}, j.base, j.rcv, TCP_RECV_BUF, <<>>)}
      [] Again(c, j) = <<>> /\ ~FinHere(j) -> {}
      [] OTHER -> {Segment(i, {"ACK"} \cup (IF FinHere(j) THEN {"FIN"} ELSE {}),
                           j.base, j.rcv, adv_window(j.used), Again(c, j))}

Sends(i, j) ==
    (IF j.chunk = <<>> THEN {}
     ELSE {Segment(i, {"ACK"}, j.next, j.rcv, adv_window(j.used), j.chunk)})
      \cup (IF SendsFin(j)
            THEN {Segment(i, {"FIN", "ACK"}, j.next, j.rcv, TCP_RECV_BUF, <<>>)} ELSE {})

Touched(c, S, j) == IF S = {} THEN c ELSE [c EXCEPT !.retries = j.retries + 1]

\* Mutant: an unanswered handshake is retried for ever and never given up.
KeepsRetrying(i, rto) ==
    /\ jobs[i] # NoJob /\ \A k \in 1..i - 1 : jobs[k] = NoJob
    /\ jobs' = [jobs EXCEPT ![i] = NoJob]
    /\ UNCHANGED <<conn, dir, listener, backlog, net, ticking, parked, closing, history>>

\* One connection of the snapshot.  close_dead gives up on the peer: the
\* socket closes with the connection and every waiter sees it.
tick_job(i, rto) ==
    LET j == jobs[i]
        c == commit_fin(commit_sent(conn[i], j), j)
        again == Resends(i, c, j, rto)
    IN  /\ j # NoJob /\ \A k \in 1..i - 1 : jobs[k] = NoJob
        /\ jobs' = [jobs EXCEPT ![i] = NoJob]
        /\ \/ /\ conn[i].st = "Free"
              /\ UNCHANGED <<conn, dir, net, parked>>
           \/ /\ conn[i].st # "Free" /\ GivesUp(j, rto)
              /\ conn' = [conn EXCEPT ![i] = [c EXCEPT !.st = "Closed"]]
              /\ dir' = [dir EXCEPT ![i] = IF @ = "Free" THEN @ ELSE "Closed"]
              /\ net' = net \cup Sends(i, j)
              /\ Wake(EveryKind(i))
           \/ /\ conn[i].st # "Free" /\ ~GivesUp(j, rto)
              /\ conn' = [conn EXCEPT ![i] = Touched(c, again, j)]
              /\ net' = net \cup Sends(i, j) \cup again
              /\ UNCHANGED <<dir, parked>>
        /\ UNCHANGED <<listener, backlog, ticking, closing, history>>

\* reap_orphans
tick_end ==
    /\ ticking /\ \A i \in Conns : jobs[i] = NoJob
    /\ ticking' = FALSE
    /\ conn' = [i \in Conns |->
                  IF conn[i].reap /\ conn[i].st = "Closed" /\ conn[i].sbuf = <<>> /\ dir[i] = "Free"
                  THEN FreeConn ELSE conn[i]]
    /\ UNCHANGED <<dir, listener, backlog, net, jobs, parked, closing, history>>

-----------------------------------------------------------------------------
TcpInit ==
    /\ conn = [i \in Conns |-> IF i = Client THEN NewConn ELSE FreeConn]
    /\ dir = [i \in Conns |-> IF i = Client THEN "None" ELSE "Free"]
    /\ listener = "Listening" /\ backlog = <<>>
    /\ net = {} /\ jobs = [i \in Conns |-> NoJob] /\ ticking = FALSE
    /\ parked = {}
    /\ closing = {} /\ arrived = 0
    /\ wrote = [i \in Conns |-> 0] /\ got = [i \in Conns |-> <<>>]
    /\ tcpLoad \in TcpLoads

TcpNext ==
    /\ \/ socket_connect \/ socket_accept_take \/ wait_listener \/ close_listener
       \/ \E i \in Conns : socket_send(i) \/ socket_recv(i) \/ wait_socket(i)
                             \/ socket_close(i) \/ socket_free(i)
       \/ \E m \in net : accept_incoming(m) \/ tcp_dispatch(m)
       \/ tick_snapshot \/ tick_end
       \/ \E i \in Conns, rto \in BOOLEAN : tick_job(i, rto)
    /\ UNCHANGED tcpLoad

\* The pump keeps ticking and, as time passes, a retransmission timer runs out.
TcpFair ==
    /\ WF_tcpVars(tick_snapshot /\ UNCHANGED tcpLoad)
    /\ WF_tcpVars(tick_end /\ UNCHANGED tcpLoad)
    /\ \A i \in Conns :
         /\ WF_tcpVars(\E rto \in BOOLEAN : tick_job(i, rto) /\ UNCHANGED tcpLoad)
         /\ SF_tcpVars(tick_job(i, TRUE) /\ UNCHANGED tcpLoad)

TcpSpec == TcpInit /\ [][TcpNext]_tcpVars /\ TcpFair

-----------------------------------------------------------------------------
\* Properties

Prefix(s, n) == Len(s) <= n /\ \A k \in DOMAIN s : s[k] = k

\* Whatever the network loses, repeats or reorders, a connection receives a
\* prefix of what its peer wrote, and until the client sends its FIN a byte that
\* left its send buffer was accepted by some connection of the server:
\* tcp_handle_ack drains only what tcp_handle_data has stored.
StreamIntact ==
    /\ \A i \in Children : Prefix(got[i], wrote[Client])
    /\ Len(got[Client]) > 0 => \E i \in Children : Prefix(got[Client], wrote[i])
    /\ conn[Client].st = "Established" => wrote[Client] <= Len(conn[Client].sbuf) + arrived

\* A thread parked on a socket has nothing to do there: no data to read, no
\* established connection to accept, no finished handshake (the wake-ups of
\* tcp_handle_ack, tcp_handle_data and close_dead).
NoSocketWaiterForgotten ==
    /\ \A i \in Conns : <<"read", i>> \in parked => conn[i].rbuf = <<>>
    /\ <<"accept", 0>> \in parked => ~AcceptReady
    /\ \A i \in Conns : <<"connect", i>> \in parked => dir[i] = "Connecting"

\* A thread that waits for connect to finish returns, even when no answer ever
\* comes: tcp_tick gives up after TCP_MAX_RETRIES and close_dead wakes it.
ConnectReturns == <<"connect", Client>> \in parked ~> <<"connect", Client>> \notin parked

\* The same for a client that is closing: its last bytes are not dropped.  The
\* comment of tcp_release_connection says that releasing a connection early
\* "silently dropped the last write when an application closed right after send".
LastWriteArrives ==
    conn[Client].st \in {"FinWait1", "FinWait2"} =>
        wrote[Client] <= Len(conn[Client].sbuf) + arrived

\* tcp_release_connection leaves a connection with data to "tcp_tick [to] finish
\* transmitting the payload/FIN and reap the connection once it reaches Closed".
ClosedOrphansAreReapable ==
    \A i \in Conns : conn[i].reap /\ conn[i].st = "Closed" => conn[i].sbuf = <<>>
=============================================================================
